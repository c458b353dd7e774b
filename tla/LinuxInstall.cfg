SPECIFICATION Spec
CONSTANTS
  MaxFaults = 2
INVARIANTS
  OldIsKept
  RestoredOrReported
  CommittedIsNew
CHECK_DEADLOCK FALSE
