SPECIFICATION Spec
CONSTANTS
  Allocators = {a1, a2}
  NoAllocator = none
  Profiles <- ChunkProfiles
SYMMETRY AllocatorSymmetry
CHECK_DEADLOCK FALSE
INVARIANTS
  SubmissionInv
  SubmissionsInOrder
  RingFramesAreExecuted
