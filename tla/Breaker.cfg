CONSTANTS
  o1 = o1  o2 = o2
  Operations = {o1, o2}
  Threshold = 2
  CoolTime = 2
  Deadline = 2
  Margin = 1
  MaxRequests = 2
  Contracts <- Publishers
  TextTimes = TRUE
  MaxAdvice = 1
  MaxGeneration = 4
  MaxClock = 3
SYMMETRY Interchangeable
SPECIFICATION Spec
INVARIANT OneProbe
PROPERTY LateSuccessIgnored
