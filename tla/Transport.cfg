SPECIFICATION Spec
CONSTANTS
  MaxAttempts = 8
  Asked <- AskedDelays
INVARIANTS
  ResultIsEarned
  CollectorIsHeeded
PROPERTIES
  SendEnds
