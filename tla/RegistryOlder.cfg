SPECIFICATION Spec
CONSTANTS
  Callers = {c1}
  Listener = Listener
  MaxChanges = 2
  MaxFailures = 0
PROPERTIES
  NeverOlder
