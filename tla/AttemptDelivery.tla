-------------------------- MODULE AttemptDelivery --------------------------
(***************************************************************************)
(* What process mode promises about a task attempt that Conductor handed   *)
(* out, seen without threads, leases, pipes, events and generations: the   *)
(* attempt is assigned to one executor at most and run once at most, an    *)
(* executor that ends takes with it what it ran and what it had not read,  *)
(* and what Conductor hears, once, is how the run ended, or FAILED of an   *)
(* attempt that runs nowhere and never will.                               *)
(*                                                                         *)
(* LooseSpec takes the last part back: it also lets go of an attempt that  *)
(* a live executor has.                                                    *)
(***************************************************************************)
CONSTANTS
  Attempts,
  Places,     \* where one executor runs at a time
  NoAttempt

VARIABLES
  polled,   \* attempts Conductor has handed out
  waiting,  \* those of them that are not assigned yet
  inbox,    \* inbox[p]: attempts assigned to the executor at p, which it has not begun
  running,  \* running[p]: the attempt it runs, or NoAttempt
  result,   \* result[a]: how the run of a ended, or "none"
  report    \* report[a]: what Conductor heard of a, or "none"

vars == <<polled, waiting, inbox, running, result, report>>

Init ==
  /\ polled = {} /\ waiting = {}
  /\ inbox = [p \in Places |-> {}]
  /\ running = [p \in Places |-> NoAttempt]
  /\ result = [a \in Attempts |-> "none"]
  /\ report = [a \in Attempts |-> "none"]

Poll(a) ==
  /\ polled' = polled \cup {a}
  /\ waiting' = waiting \cup {a}
  /\ UNCHANGED <<inbox, running, result, report>>

Assign(a, p) ==
  /\ waiting' = waiting \ {a}
  /\ inbox' = [inbox EXCEPT ![p] = @ \cup {a}]
  /\ UNCHANGED <<polled, running, result, report>>

\* Assigned to an executor that has ended: nobody will read it.
Lose(a) ==
  /\ waiting' = waiting \ {a}
  /\ UNCHANGED <<polled, inbox, running, result, report>>

Begin(a, p) ==
  /\ running[p] = NoAttempt
  /\ inbox' = [inbox EXCEPT ![p] = @ \ {a}]
  /\ running' = [running EXCEPT ![p] = a]
  /\ UNCHANGED <<polled, waiting, result, report>>

Finish(p, status) ==
  /\ running[p] # NoAttempt
  /\ result' = [result EXCEPT ![running[p]] = status]
  /\ running' = [running EXCEPT ![p] = NoAttempt]
  /\ UNCHANGED <<polled, waiting, inbox, report>>

\* The executor at p exits, crashes or is killed.
Leave(p) ==
  /\ inbox' = [inbox EXCEPT ![p] = {}]
  /\ running' = [running EXCEPT ![p] = NoAttempt]
  /\ UNCHANGED <<polled, waiting, result, report>>

Report(a) ==
  /\ report[a] = "none" /\ result[a] # "none"
  /\ report' = [report EXCEPT ![a] = result[a]]
  /\ UNCHANGED <<polled, waiting, inbox, running, result>>

\* FAILED without the executor's word ...
Fail(a) ==
  /\ report[a] = "none"
  /\ report' = [report EXCEPT ![a] = "FAILED"]
  /\ waiting' = waiting \ {a}
  /\ UNCHANGED <<polled, inbox, running, result>>

\* ... as nobody has the attempt any more, or will.
At(a, p) == a \in inbox[p] \/ running[p] = a
AtExecutor(a) == \E p \in Places : At(a, p)
GiveUp(a) == Fail(a) /\ ~AtExecutor(a)

Next ==
  \/ \E a \in Attempts \ polled : Poll(a)
  \/ \E a \in waiting : Lose(a) \/ \E p \in Places : Assign(a, p)
  \/ \E p \in Places :
       \/ \E a \in inbox[p] : Begin(a, p)
       \/ \E status \in {"COMPLETED", "FAILED"} : Finish(p, status)
       \/ Leave(p)
  \/ \E a \in polled : Report(a) \/ GiveUp(a)
Spec == Init /\ [][Next]_vars

LooseNext == Next \/ \E a \in polled : Fail(a)
LooseSpec == Init /\ [][LooseNext]_vars

-----------------------------------------------------------------------------
\* What follows of either: an attempt has one place at a time, ...
OnePlace ==
  \A a \in Attempts :
    /\ a \notin polled => a \notin waiting /\ result[a] = "none"
    /\ a \in waiting => result[a] = "none"
    /\ \A p \in Places : At(a, p) =>
         /\ a \in polled /\ a \notin waiting /\ result[a] = "none"
         /\ ~(a \in inbox[p] /\ running[p] = a)
         /\ \A r \in Places \ {p} : ~At(a, r)

\* ... goes from one to the next, and does not come back from the last, and ...
Over(a) == a \in polled /\ a \notin waiting /\ ~AtExecutor(a)
StaysOver == \A a \in Attempts : Over(a) => Over(a)' /\ result'[a] = result[a]
NeverAgain == [][StaysOver]_vars

\* ... what Conductor hears of an attempt it hears when that is over. (Of Spec only.)
AnsweredIsOver == \A a \in Attempts : report[a] # "none" => Over(a)
=============================================================================
