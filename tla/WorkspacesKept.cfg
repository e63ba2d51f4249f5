SPECIFICATION FairSpec
CONSTANTS
  Attempts = {w1, w2}
  SlotCount = 2
  Modes <- BothModes
  KillModes <- ThreadMode
  MaxStarts = 2
  MaxKills = 1
INVARIANT RunningWorkspaceKept
INVARIANT StoppedIsSwept
PROPERTY AbandonedIsCollected
