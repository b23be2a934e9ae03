SPECIFICATION AllSpec
CONSTANTS
  v = v
  w = w
  p = p
  q = q
  j = j
  k = k
  VertexShaders = {v, w}
  PixelShaders = {p, q}
  Eligible = {p, q}
  Pairs <- MCPairs
  Slots = 1
  Bodies = {one, two}
  NoBody = none
  MaxRewrites = 1
  a = a
  Passes = {a, b}
  States = {s, t}
  Culled = {}
  VariantSlots = 1
  Writers = {j, k}
  Pid <- MCPid
  Nothing = none
  MaxNames = 2
  MaxAttempts = 2
  MaxDamages = 1
  MaxCrashes = 1
CHECK_DEADLOCK FALSE
INVARIANTS
  LibraryInv
  DiscardIsKept
  VariantCostsNothing
PROPERTIES
  EntryIsNeverReplaced
  StoreIsTruthful
  EveryStateIsResolved
