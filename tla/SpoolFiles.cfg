SPECIFICATION FairSpec
CONSTANTS
  Procs = {p1, p2}
  None = None
  Numbers = {0, 1}
  PublishModes = {"rename", "link"}
  SyncWorks = TRUE
  MaxFiles = 3
  MaxFaults = 1
INVARIANTS
  OnlyCompleteRecords
  StagingSurvives
  ReturnedIsKept
  RemovedStaysGone
PROPERTIES
  LeftoversGo
