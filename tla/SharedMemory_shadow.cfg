SPECIFICATION FairSpec
CONSTANTS
  NumPages = 2
  BlockPages = 2
  CapPages = 1
  ChunkPages = 2
  Threads = {t1}
  NoThread = none
  MaxPending = 1
  MirrorModes = {TRUE, FALSE}
  ShadowModes = {TRUE, FALSE}
  MaxWrites = 2
INVARIANTS
  ShadowIsBuffer
  RequestedIsFresh
PROPERTIES
  WrittenIsKept
  RequestReturns
