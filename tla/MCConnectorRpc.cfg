CONSTANTS
  c1 = c1
  c2 = c2
  NoCall = NoCall
  Calls <- TwoCalls
  Makes <- AnyAndPlan
SPECIFICATION FairSpec
INVARIANTS
  TypeOK
  OkIsTruthful
  NothingLeftBehind
PROPERTY CallEnds
CHECK_DEADLOCK FALSE
