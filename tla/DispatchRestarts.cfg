SPECIFICATION FairSpec
CONSTANTS
  Threads = {t1}
  SlotCount = 1
  Jobs = {j1, j2, j3}
  MaxGeneration = 3
  MaxFences = 2
  LockMayLeak = FALSE
INVARIANT FreshSnapshotOnly
INVARIANT FailedMeansStopped
PROPERTY ExclusiveDeliverySpec
PROPERTY EveryExecuteReturns
