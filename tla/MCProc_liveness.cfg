CONSTANTS
  NPROC = 3
  NCPU = 1
  MaxPid = 3
  MaxSleep = 1
  KillPids = {2}
  Calls <- LivenessCalls
SPECIFICATION FairSpec
PROPERTIES
  RunnableRuns
  OrphansReaped
  KilledExits
  SleepEnds
