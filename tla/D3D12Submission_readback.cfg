SPECIFICATION Spec
CONSTANTS
  Allocators = {a1, a2}
  NoAllocator = none
  Profiles <- ReadbackProfiles
SYMMETRY AllocatorSymmetry
CHECK_DEADLOCK FALSE
INVARIANTS
  RecordsInOpenSubmission
