SPECIFICATION Spec
CONSTANTS
  Procs = {p1, p2}
  None = None
  Plain = {"a"}
  INPUT_BUF = 2
  WORD = 4
  MaxN = 2
  MaxKeys = 4
  MaxCalls = 3
CHECK_DEADLOCK FALSE
INVARIANTS
  ReadersNeeded
PROPERTIES
  ImplementsTty
  WritesFinish
