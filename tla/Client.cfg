CONSTANTS
  r1 = r1  w1 = w1  w2 = w2  s1 = s1
  None = None
  Runs = {r1}
  Legacy = {}
  Workers = {w1, w2}
  Scopes = {s1}
  NumItems = 1
  Kind <- KindS
  ScopeOf <- ScopeS
  MaxAttempts = 2
  LeaseTime = 1
  ClaimTime = 1
  CoolTime = 2
  MaxClock = 3
  ClientRun = r1
  MaxOps = 2
  MaxWait = 2
  WaitBudget = 1
SPECIFICATION ClientSpec
 
PROPERTY ClientEnds
CHECK_DEADLOCK FALSE
