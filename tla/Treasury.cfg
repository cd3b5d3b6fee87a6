SPECIFICATION Spec
CONSTANTS
  MaxAttempts = 2
  Legacies = {l1, l2}
  MaxVersion = 3
  Keys <- MCKeys
  First = First
  NoId = NoId
SYMMETRY Interchangeable
CHECK_DEADLOCK FALSE
INVARIANT CohortWhole
INVARIANT OutcomesTrue
