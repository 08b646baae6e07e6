SPECIFICATION Spec
CONSTANTS
  Calls = {c1, c2}
  None = None
  TTL = 1
  Stale = 1
  CallTime = 2
  MaxDocuments = 2
  MaxDenials = 1
  MaxTime = 5
INVARIANTS
  OutdatedInTime
  OnlyOutrunSurvives
PROPERTIES
  RowNeverOlder
  EveryCallReturns
CHECK_DEADLOCK FALSE
