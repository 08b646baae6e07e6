SPECIFICATION Spec
CONSTANTS
  Callers = {c1, c2}
  Callbacks = {s1, s2}
  Tokens = {t1, t2, t3}
  None = None
  Interval = 1
  FailOpen = 2
  Backoff = 1
  CallTime = 1
  MaxFlows = 3
  MaxTime = 4
SYMMETRY Symmetry
INVARIANTS
  LetThroughInTime
  NoTokenTwice
  ExchangedOnce
PROPERTIES
  SignInWins
CHECK_DEADLOCK FALSE
