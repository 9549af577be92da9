SPECIFICATION Spec
CONSTANTS
  Procs = {p1, p2}
  Inodes = {1, 2}
  OpenFiles = {1, 2}
  Bytes = {x, y}
  NBLOCKS = 6
  BSIZE = 2
  NDIRECT = 1
  LOGSIZE = 6
  Lengths = {1, 4}
  MaxCalls = 5
SYMMETRY Symmetry
CHECK_DEADLOCK FALSE
INVARIANTS
  BlocksOwnedOnce
  ChunkFitsLog
PROPERTIES
  ImplementsByteFiles
