------------------------- MODULE MCProcessDispatch -------------------------
(* ProcessDispatch for TLC: values of its constants and their symmetry. *)
EXTENDS ProcessDispatch, TLC

Symmetry == Permutations(Threads) \cup Permutations(Jobs)
=============================================================================
