SPECIFICATION Spec
CONSTANTS
  Packets = {x, y}
  Empty = none
  PageIds = {1, 2}
  PageSlices = 2
  Switches = {{}, {"pixel", "vertex"}}
  GpuBudget = 1
  MaxFrames = 3
  MaxBound = 2
SYMMETRY PacketSymmetry
CHECK_DEADLOCK FALSE
INVARIANTS
  PoolInv
  SliceIsImmutable
