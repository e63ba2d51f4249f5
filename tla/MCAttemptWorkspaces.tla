------------------------ MODULE MCAttemptWorkspaces ------------------------
(* AttemptWorkspaces for TLC: both execution modes, kills in thread mode. *)
EXTENDS AttemptWorkspaces

BothModes  == {"process", "thread"}
ThreadMode == {"thread"}
=============================================================================
