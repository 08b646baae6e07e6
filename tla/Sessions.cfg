SPECIFICATION Spec
CONSTANTS
  Users = {u1, u2}
  Browsers = {b1, b2}
  None = None
  SessionTTL = 1
  ReauthMax = 0
  LoginTime = 1
  MaxEvents = 5
  MaxTime = 2
SYMMETRY Symmetry
INVARIANTS
  RevokedStaysDead
  SetupOnce
PROPERTIES
  AdminRecent
CHECK_DEADLOCK FALSE
