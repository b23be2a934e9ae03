SPECIFICATION FairSpec
CONSTANTS
  Allocators = {a1}
  NoAllocator = none
  Profiles <- DirectProfiles
CHECK_DEADLOCK FALSE
INVARIANTS
  DirectOperationsInOrder
  QuiescentWhenProven
PROPERTIES
  CpReturns
