SPECIFICATION FairSpec
CONSTANTS
  NCPU = 2
  NLOCK = 2
INVARIANTS
  MutualExclusion
  InterruptsRestored
PROPERTIES
  LocksProgress
