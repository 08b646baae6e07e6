SPECIFICATION Spec
CONSTANTS
  Calls = {r1, r2}
  Jtis = {j1, j2}
  None = None
  JwksTTL = 1
  KidInterval = 1
  Lifetime = 1
  Skew = 1
  MaxSeen = 1
  FetchTime = 1
  MaxKeys = 2
  MaxTime = 3
SYMMETRY Symmetry
INVARIANTS
  AssertionOnce
  WithdrawnKeyDies
CHECK_DEADLOCK FALSE
