CONSTANTS
  r1 = r1  r2 = r2  w1 = w1  w2 = w2  s1 = s1  d1 = d1
  None = None
  Runs = {r1}
  Legacy = {d1}
  Workers = {w1, w2}
  Scopes = {s1}
  NumItems = 1
  Kind <- KindS
  ScopeOf <- ScopeS
  MaxAttempts = 2
  LeaseTime = 2
  ClaimTime = 1
  CoolTime = 1
  MaxClock = 3
SYMMETRY Interchangeable
SPECIFICATION Spec
INVARIANT FencingInv
 
PROPERTY LiveClaimStands
