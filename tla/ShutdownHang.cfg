SPECIFICATION FairSpec
CONSTANTS
  JobCount = 2
  SlotCount = 1
  Deadlines <- Never
  MaxGeneration = 1
  MaxFences = 1
  MaxCrashes = 0
CHECK_DEADLOCK FALSE
PROPERTY ShutdownEnds
