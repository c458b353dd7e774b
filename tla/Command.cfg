SPECIFICATION Spec
CONSTANTS
  Targets <- MCTargets
  AuditMaxFiles = 1
  AuditMaxChunks = 1
  Environment <- MCEnvironment
  MaxFaults = 2
INVARIANTS
  AuditBounded
  AuditTellsGaps
  OnlyWithNotice
  NothingHidden
  RefusedIsClean
PROPERTIES
  CommandEnds
