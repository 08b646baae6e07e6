SPECIFICATION Spec
CONSTANTS
  Kids = {k1, k2, k3}
  Signers = {s1}
  Rotations = {r1, r2}
  None = None
  TokenLife = 1
  Retention = 3
  MaxAge = 1
  MaxStale = 1
  MinInterval = 1
  Backoff = 1
  MissedTTL = 1
  HoldTime = 1
  FetchTime = 1
  MaxTime = 3
SYMMETRY Symmetry
INVARIANTS
  OneActive
  LiveKeyPublished
  DeletedNotTrusted
PROPERTIES
  CompromiseLeavesOne
CHECK_DEADLOCK FALSE
