CONSTANTS
  r1 = r1  r2 = r2  w1 = w1  w2 = w2  s1 = s1  d1 = d1
  None = None
  Runs = {r1}
  Legacy = {}
  Workers = {w1}
  Scopes = {s1}
  NumItems = 3
  Kind <- KindSDM
  ScopeOf <- ScopeSDM
  MaxAttempts = 2
  LeaseTime = 2
  ClaimTime = 1
  CoolTime = 1
  MaxClock = 2
SPECIFICATION Spec
INVARIANT EndsSettled
 
INVARIANT OneRule
