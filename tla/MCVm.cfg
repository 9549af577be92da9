SPECIFICATION Spec
CONSTANTS
  Procs = {p1, p2}
  First = p1
  KERNBASE = 16
  PGSIZE = 2
  NPTENTRIES = 2
  NFRAMES = 14
  Vals = {v1}
  Zero = zero
  SbrkArgs <- MCSbrkArgs
  MaxText = 2
  MinSize = 1
  MaxJump = 1
CHECK_DEADLOCK FALSE
INVARIANTS
  MemoryConserved

  
  
