SPECIFICATION Spec
CONSTANTS
  p1 = p1
  p2 = p2
  p3 = p3
  None = None
  Procs = {p1, p2, p3}
  Started = {p1, p2}
  ninodes = 5
  NINODE = 4
  NFILE = 3
  NOFILE = 2
  Scenarios <- MCScenarios
  Tree <- MCTree
  Opened <- MCOpened
CHECK_DEADLOCK FALSE
INVARIANTS
  LinkCounts
  RefsCounted
  HeldInodesAllocated
  PanicsExplained
  LocksOrdered
  OnlyRacesLeak
