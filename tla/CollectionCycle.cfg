SPECIFICATION Spec
CONSTANTS
  Collectors = {software, users}
  Software = software
  None = None
  MaxWorkers = 1
  CacheTTL = 2
  MaxCycles = 3
INVARIANTS
  ResultsAreThere
PROPERTIES
  InventoryHasItsTerm
  CyclesEnd
