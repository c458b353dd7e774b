SPECIFICATION Spec
CONSTANTS
  MaxFaults = 1
INVARIANTS
  FailureRestores
CHECK_DEADLOCK FALSE
