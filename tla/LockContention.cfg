SPECIFICATION FairSpec
CONSTANTS
  Supervisors = {p1, p2, p3, p4}
  InodeNumbers = {"fresh", "reused"}
  MaxContenders = 1
  MaxCrashes = 2
INVARIANT OneSupervisor
INVARIANT HolderOwnsLock
INVARIANT RefusedForAnother
PROPERTY AcquireEnds
