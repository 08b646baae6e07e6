SPECIFICATION FairMetadata
CONSTANTS
  read = read
  write = write
  text = text
  other = other
  Scopes = {read, write}
  Texts = {text, other}
  Published <- MCPublished
  Operators = {o1}
  Job = Job
  None = None
  MaxEvents = 2
INVARIANTS
  PendingWidens
  InForceAgreed
PROPERTIES
  OnlyAcceptWidens
  NarrowsInTheEnd
