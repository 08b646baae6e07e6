SPECIFICATION FairSpec
CONSTANTS
  Callers = {c1}
  Listener = Listener
  MaxChanges = 2
  MaxFailures = 2
INVARIANTS
  AppliedStays
  AnsweredIsServed
  NothingMissed
PROPERTIES
  CatchesUp
