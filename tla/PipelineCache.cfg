SPECIFICATION FairSpec
CONSTANTS
  Pipelines = {p1, p2}
  NoPipeline = none
  NumThreads = 2
  MaxOpens = 2
CHECK_DEADLOCK FALSE
INVARIANTS
  StorageInv
  PendingHasOnePlace
  ResolvedIsSettled
PROPERTIES
  CpReturns
  QueuedWorkIsDone
