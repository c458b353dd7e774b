SPECIFICATION Spec
CONSTANTS
  Procs = {p1, p2, p3}
  Platform = Platform
  PlatformReads = {"value", "nothing"}
  None = None
  Empty = Empty
  MaxTries = 3
  MaxStarts = 2
  MaxFailures = 1
INVARIANTS
  OneFallback
PROPERTIES
  GivesUpForCause
