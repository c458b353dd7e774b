SPECIFICATION Spec
CONSTANTS
  Events = {1, 2, 3}
  Agents = {a1, a2}
  None = None
  SizeOf <- MixedSizes
  Unreadable = {1}
  MaxBytes = 2
  MaxAge = 0
  ReplayBatch = 2
  MaxTime = 2
  WallClock <- SetBackClock
SYMMETRY AgentSymmetry
INVARIANTS
  Accounted
  DeliveredIsReceived
PROPERTIES
  ImplementsDelivery
