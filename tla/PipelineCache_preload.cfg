SPECIFICATION Spec
CONSTANTS
  Pipelines = {p1, p2}
  NoPipeline = none
  NumThreads = 2
  MaxOpens = 1
CHECK_DEADLOCK FALSE
INVARIANT BlockingInitializationIsDone
