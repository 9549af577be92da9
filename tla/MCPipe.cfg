SPECIFICATION Spec
CONSTANTS
  Procs = {p1, p2, p3}
  Creator = p1
  PIPESIZE = 2
  WORD = 4
  Bytes = {a, b}
  MaxN = 2
  MaxKills = 1
  None = None
SYMMETRY Symmetry
CHECK_DEADLOCK FALSE
INVARIANTS
  SleepersNeeded
  NoUseAfterFree
PROPERTIES
  
  EofMeansDone
