-------------------------- MODULE WorkspaceHistory --------------------------
(***************************************************************************)
(* What the publication protocol promises to whoever reads the target      *)
(* branch of a workflow: the branch shows the last accepted ref, or that   *)
(* ref with exactly one commit on top that no completed step vouches for   *)
(* yet.  That commit may be replaced or withdrawn; a step's completion     *)
(* appends what is visible, and nothing that was accepted is taken back.   *)
(***************************************************************************)
EXTENDS Sequences

CONSTANTS
  Commit,   \* commits
  Root      \* the ref the workflow starts from

VARIABLES
  accepted,  \* the refs of the steps' accepted outputs, Root first
  pending    \* commits visible on top of the last accepted ref

vars == <<accepted, pending>>

Visible == IF pending = <<>> THEN accepted[Len(accepted)] ELSE pending[Len(pending)]

Init ==
  /\ accepted = <<Root>>
  /\ pending = <<>>

\* A commit appears on top of the accepted ref, in place of any other.
Publish ==
  /\ \E c \in Commit : pending' = <<c>>
  /\ UNCHANGED accepted

\* The head is relocated to the accepted ref.
Withdraw ==
  /\ pending' = <<>>
  /\ UNCHANGED accepted

\* A step completes: its output ref is the head.
Accept ==
  /\ accepted' = Append(accepted, Visible)
  /\ pending' = <<>>

Next == Publish \/ Withdraw \/ Accept

Spec == Init /\ [][Next]_vars
=============================================================================
