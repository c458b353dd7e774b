SPECIFICATION FairSpec
CONSTANTS
  Events = {1, 2, 3, 4}
  Agents = {a1}
  None = None
  SizeOf <- MixedSizes
  Unreadable = {1}
  MaxBytes = 2
  MaxAge = 2
  ReplayBatch = 2
  MaxTime = 4
  WallClock <- TrueClock
INVARIANTS
  TypeOK
  OldestFirst
  OvershootBounded
PROPERTIES
  SpooledMeansQueued
  CycleEnds
