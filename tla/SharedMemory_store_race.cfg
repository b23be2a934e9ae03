SPECIFICATION Spec
CONSTANTS
  NumPages = 1
  BlockPages = 1
  CapPages = 1
  ChunkPages = 1
  Threads = {t1, t2}
  NoThread = none
  MaxPending = 1
  MirrorModes = {FALSE}
  ShadowModes = {FALSE}
  MaxWrites = 2
SYMMETRY ThreadSymmetry
PROPERTIES
  StoreIsCaught
