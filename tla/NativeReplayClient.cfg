SPECIFICATION FairSpec
CONSTANTS
  Allocators = {a1, a2}
  NoAllocator = none
  MaxCommands = 3
  MaxValue = 2
  MaxChunks = 3
CHECK_DEADLOCK FALSE
INVARIANTS
  WorkerInv
PROPERTIES
  SlotIsExclusive
  StickyFailure
  ImplementsOrderedSubmission
  WaitReturns
  DestructorReturns
