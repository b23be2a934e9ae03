SPECIFICATION DrawSpec
CONSTANTS
  NumPages = 2
  BlockPages = 2
  CapPages = 1
  ChunkPages = 2
  MaxPending = 1
  Threads = {t1}
  NoThread = none
  MirrorModes = {TRUE}
  ShadowModes = {FALSE}
  MaxWrites = 2
  MaxRanges = 1
  AssetModes = {TRUE}
INVARIANTS
  MemoryInv
  ResidentIsValid
  DrawIsFresh
  MappingIsCurrent
