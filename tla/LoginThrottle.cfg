SPECIFICATION ThrottleSpec
CONSTANTS
  Attempts = {a1, a2, a3}
  Addresses = {i1, i2}
  Keys = {k1}
  None = None
  MaxPerIp = 2
  MaxPerUsername = 2
  MaxPerCookie = 1
  MaxPerUser = 1
  Window = 1
  MaxTime = 2
SYMMETRY Symmetry
INVARIANTS
  GuessesBounded
  RefusedWithCause
CHECK_DEADLOCK FALSE
