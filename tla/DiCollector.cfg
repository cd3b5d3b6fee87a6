CONSTANTS
  LastDay = 3
  MonthOf <- TwoMonths
  TradeDay <- ThirdIsHoliday
  Fallback = 1
  FocusDates = {2}
  Interval = 2
  MaxWait = 1
  Tries = 2
  Executions = 3
  Disturbances = 2
SPECIFICATION Spec
INVARIANT LedgerProven
PROPERTY SpacingKept
PROPERTY NoRepeat
PROPERTY MonthServed
