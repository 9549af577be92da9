SPECIFICATION FairSpec
CONSTANTS
  Procs = {p1, p2}
  Blocks = {b1, b2}
  Vals = {v1, v2}
  MAXOPBLOCKS = 4
  LOGSIZE = 8
  LogBlocks = 8
  OpBlocks = 2
  MaxOps = 3
  MaxCrash = 2
  NoBuf = NoBuf
  NoBlock = NoBlock
CHECK_DEADLOCK FALSE

  
PROPERTIES
  ImplementsAtomicFs
  OpsFinish
