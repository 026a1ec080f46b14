SPECIFICATION FairSpec
CONSTANTS
  Runs = {r1, r2}
  Deletable = {r2}
  Viewers = {v1}
  NoRun = NoRun
  Capacity = 2
  MaxLines = 4
CHECK_DEADLOCK FALSE
INVARIANTS
  TypeOK
  GapsExplained
  LostToNewer
PROPERTIES
  ImplementsFeed
  CaughtUp
  GoneViewerEnds
