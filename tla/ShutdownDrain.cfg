SPECIFICATION FairSpec
CONSTANTS
  JobCount = 2
  SlotCount = 2
  Deadlines <- WithAndWithout
  MaxGeneration = 2
  MaxFences = 1
  MaxCrashes = 1
CHECK_DEADLOCK FALSE
PROPERTY DeliverySpec
INVARIANT SweepFindsNobody
INVARIANT NoWorkLost
PROPERTY DeadlineEnds
PROPERTY DrainEnds
