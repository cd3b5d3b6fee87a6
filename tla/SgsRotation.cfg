CONSTANTS
  Codes = {1, 2, 3}
  LastWindow = 2
  Aged <- Aged2
  Days = 6
  Cap = 2
  ReverifyDays = 2
  PendingLimit = 4
  MaxAttempts = 2
  Old <- OldIntents
  Failing = {1}
SPECIFICATION Spec
INVARIANT PlanReads
INVARIANT CoverageProven
INVARIANT CommittedOnce
INVARIANT AllCovered
CHECK_DEADLOCK FALSE
