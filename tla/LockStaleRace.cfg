SPECIFICATION Spec
CONSTANTS
  Supervisors = {p1, p2, p3}
  InodeNumbers = {"fresh", "reused"}
  MaxContenders = 2
  MaxCrashes = 1
INVARIANT OneSupervisor
