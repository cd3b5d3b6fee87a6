SPECIFICATION CycleSpec
CONSTANTS
  None = None
  MonthDays = 2
  YearMonths = 2
  OneYear = 4
  FiveYears = 8
  Tolerance = 1
  Inverted <- MCInverted
  Scale = 1000
  MinHistory = 1
  TargetRules <- MCRules
  CurrentRules <- MCCurrentRules
  Components <- MCComponents
  MinimumValid <- MCMinimumValid
  MinimumDimensions = 1
  WindowMonths = 3
  CreditAge = 1
  Cycles = {daily, run}
  Feeds <- MCFeeds
 
 
INVARIANT NoResurrection
INVARIANT SameRevision
PROPERTY NeverRepriced
SYMMETRY MCSymmetry
CHECK_DEADLOCK FALSE
