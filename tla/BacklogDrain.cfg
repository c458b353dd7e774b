SPECIFICATION Spec
CONSTANTS
  ReplayBatch = 2
  Capacity = 4
  MaxAge = 6
PROPERTIES
  BacklogDrains
