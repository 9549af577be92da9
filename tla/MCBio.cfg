SPECIFICATION Spec
CONSTANTS
  Procs = {p1, p2}
  Bufs = {b1, b2, b3}
  Blocks = {k1, k2, k3, k4}
  Vals = {v0, v1}
  Init0 = v0
  None = None
  MaxDirty = 1
  MaxErrors = 1
SYMMETRY Symmetry
INVARIANTS
  ReadsFresh
  SleepersQueued
