SPECIFICATION FairSpec
CONSTANTS
  Procs = {p1, p2}
  None = None
  Rec = Rec
  Foreign = Foreign
  Ops = {"rejected", "corrupt"}
  Numbers = {0, 1}
  PublishModes = {"rename", "link"}
  SyncWorks = TRUE
  MaxForeign = 1
  MaxFaults = 1
INVARIANTS
  NeverLost
  OneCopy
  CommittedIsMoved
  RejectAnswersAgree
PROPERTIES
  DestinationsStay
  HalfMovesEndAlone
