SPECIFICATION Spec
CONSTANTS
  Threads = {t1, t2}
  SlotCount = 2
  Jobs = {j1, j2, j3}
  MaxGeneration = 2
  MaxFences = 1
  LockMayLeak = TRUE
SYMMETRY Symmetry
INVARIANT AttemptInOnePlace
INVARIANT SlotNotLost
INVARIANT OwnResultOnly
CHECK_DEADLOCK FALSE
