SPECIFICATION LoopSpec
CONSTANTS
  StartupDelay = 1
  Interval = 2
  MaxTime = 8
INVARIANTS
  StopIsPrompt
PROPERTIES
  Paced
  StopEnds
