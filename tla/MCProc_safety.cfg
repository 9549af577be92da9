CONSTANTS
  NPROC = 3
  NCPU = 2
  MaxPid = 3
  MaxSleep = 1
  KillPids = {2}
  Calls <- SafetyCalls
SPECIFICATION Spec
INVARIANTS
  OneCpuPerProc
  ProcMemory
  NoMissedExit
  NoOversleep
