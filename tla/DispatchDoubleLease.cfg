SPECIFICATION Spec
CONSTANTS
  Threads = {t1, t2}
  SlotCount = 2
  Jobs = {j1, j2, j3, j4}
  MaxGeneration = 2
  MaxFences = 0
  LockMayLeak = FALSE
SYMMETRY Symmetry
INVARIANT ExclusiveLease
