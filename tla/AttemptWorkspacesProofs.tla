----------------------- MODULE AttemptWorkspacesProofs -----------------------
(***************************************************************************)
(* Proofs about AttemptWorkspaces, for any attempts, slots, starts and     *)
(* kills.  The two safety properties assume the operating rule: nobody     *)
(* kills a supervisor alone while its executors live on (process mode).    *)
(***************************************************************************)
EXTENDS AttemptWorkspaces, TLAPS

-----------------------------------------------------------------------------
\* The inductive invariant

\* A workspace that collector c will remove or is removing.
Targets(c) == {w \in Attempts : w \in doomed[c] \/ w = removing[c]}

\* Whoever works or lives was started, and a start is never used twice.
Started ==
  /\ \A p \in alive : p[2] <= starts[p[1]]
  /\ \A w \in Attempts : attempt[w] # "waiting" =>
       owner[w] \in Process /\ owner[w][2] <= starts[owner[w][1]]
  /\ \A s \in Slots : executors[s] <= starts[s]

\* A marker is written once, and only then it begins to age.
Aging ==
  \A w \in Attempts : attempt[w] \in {"waiting", "preparing"} => dir[w] # "marked" /\ ~old[w]

\* The supervisor knows every process that lives, but for the replacement it has just
\* started: nothing that belongs to that one is old.
Replacement == <<slot, starts[slot]>>
Roster ==
  /\ supervisor \in {"down", "sweep", "final"} => alive = {}
  /\ supervisor \in {"run", "targeted", "drain"} => alive \subseteq Known
  /\ supervisor \in {"targeted", "replaced"} => <<slot, executors[slot]>> \notin alive
  /\ supervisor = "replaced" =>
       /\ alive \subseteq Known \cup {Replacement}
       /\ \A w \in Attempts : owner[w] = Replacement => ~old[w]

\* What a collector is after belongs to nobody who works in it, now or later.
Condemned ==
  \A c \in Collectors : \A w \in Targets(c) :
    attempt[w] \in {"running", "ended"} /\ ~Active(w)

\* The final sweep leaves out nothing.
Sweeping ==
  /\ supervisor = "final" => Marked \subseteq Targets("main")
  /\ supervisor = "stopped" /\ stopped = "signal" /\ mode = "process" => alive = {}

WorkspacesInv ==
  /\ TypeOK
  /\ Started
  /\ Aging
  /\ Roster
  /\ Condemned
  /\ Sweeping
  /\ RunningWorkspaceKept
  /\ StoppedIsSwept

-----------------------------------------------------------------------------
\* The steps

\* Nothing has begun.
LEMMA InitEstablishes == Init => WorkspacesInv
<1> SUFFICES ASSUME Init PROVE WorkspacesInv
  OBVIOUS
<1>1. TypeOK
  BY WorkspacesAssumption DEF Init, TypeOK, Slots, NoStart
<1>2. Started /\ Aging /\ Roster
  BY DEF Init, Started, Aging, Roster, NoStart
<1>3. Targets("main") = {} /\ Targets("loop") = {}
  BY WorkspacesAssumption DEF Init, Targets, Collectors
<1>4. Condemned /\ Sweeping
  BY <1>3 DEF Init, Condemned, Sweeping, Collectors
<1>5. RunningWorkspaceKept /\ StoppedIsSwept
  BY DEF Init, RunningWorkspaceKept, StoppedIsSwept
<1>6. QED BY <1>1, <1>2, <1>4, <1>5 DEF WorkspacesInv

\* Every step keeps the types: no process is started beyond the bound, and what a
\* collector is after are workspaces.
LEMMA TypeKept ==
  ASSUME TypeOK, [Next]_vars
  PROVE  TypeOK'
<1> USE DEF TypeOK, Collect, Abandon
<1>1. ASSUME NEW w \in Attempts, MakeDirectory(w) PROVE TypeOK'
  BY <1>1 DEF MakeDirectory, supervisorVars, scanVars
<1>2. ASSUME NEW w \in Attempts, WriteMarker(w) \/ Cleanup(w) PROVE TypeOK'
  BY <1>2 DEF WriteMarker, Cleanup, supervisorVars, scanVars
<1>3. ASSUME NEW w \in Attempts, Age(w) PROVE TypeOK'
  BY <1>3 DEF Age, attemptVars, supervisorVars, scanVars
<1>4. ASSUME NEW p \in Process, Die(p) \/ ExecutorStops(p) PROVE TypeOK'
  BY <1>4 DEF Die, ExecutorStops, supervisorVars, scanVars
<1>5. ASSUME NEW c \in Collectors, NEW w \in Attempts, ReadMarker(c, w) PROVE TypeOK'
  BY <1>5 DEF ReadMarker, attemptVars, supervisorVars
<1>6. ASSUME NEW c \in Collectors, RemoveTree(c) PROVE TypeOK'
  BY <1>6 DEF RemoveTree, attemptVars, supervisorVars
<1>7. ASSUME NEW c \in Collectors, RemoveFails(c) PROVE TypeOK'
  BY <1>7 DEF RemoveFails, attemptVars
<1>8. CASE Start
  BY <1>8 DEF Start, attemptVars, Marked, Collectors
<1>9. CASE StartExecutors
  <2>1. starts' \in [Slots -> 1..MaxStarts] /\ executors' = starts'
    BY <1>9, WorkspacesAssumption DEF StartExecutors
  <2>2. alive' \subseteq Process
    BY <1>9, <2>1 DEF StartExecutors, Process
  <2>3. QED BY <1>9, <2>1, <2>2 DEF StartExecutors, scanVars
<1>10. CASE StartReplacement
  <2>1. starts' \in [Slots -> 0..MaxStarts] /\ starts'[slot] \in 1..MaxStarts
    BY <1>10, WorkspacesAssumption DEF StartReplacement
  <2>2. alive' \subseteq Process
    BY <1>10, <2>1 DEF StartReplacement, Process
  <2>3. QED BY <1>10, <2>1, <2>2 DEF StartReplacement, scanVars
<1>11. CASE RecordReplacement
  BY <1>11 DEF RecordReplacement, attemptVars, scanVars
<1>12. ASSUME NEW s \in Slots, ExecutorFoundDead(s) PROVE TypeOK'
  BY <1>12 DEF ExecutorFoundDead, attemptVars, Marked, Collectors
<1>13. CASE FinalSweep
  BY <1>13 DEF FinalSweep, attemptVars, Marked, Collectors
<1>14. CASE Stopped
  BY <1>14 DEF Stopped, attemptVars
<1>15. CASE LoopBegins
  BY <1>15 DEF LoopBegins, attemptVars, supervisorVars, Marked, Collectors
<1>16. CASE Stop
  BY <1>16 DEF Stop, attemptVars, scanVars
<1>17. CASE Killed
  BY <1>17, WorkspacesAssumption DEF Killed, NoStart
<1>18. CASE Ended \/ UNCHANGED vars
  BY <1>18 DEF Ended, vars
<1>19. QED
  BY <1>1, <1>2, <1>3, <1>4, <1>5, <1>6, <1>7, <1>8, <1>9, <1>10, <1>11, <1>12, <1>13, <1>14, <1>15,
     <1>16, <1>17, <1>18 DEF Next, AttemptStep, ScanStep, SupervisorStep

\* A process of slot s that is started next has no attempt yet and is not alive.
LEMMA NextIsFresh ==
  ASSUME TypeOK, Started, NEW s \in Slots, NEW n \in Nat, n > starts[s]
  PROVE  <<s, n>> \notin alive /\ \A w \in Attempts : owner[w] # <<s, n>> \/ attempt[w] = "waiting"
<1>1. starts[s] \in Nat
  BY DEF TypeOK
<1>2. QED BY <1>1 DEF Started

\* Processes are counted before they work, and the count never falls.
LEMMA StartedKept ==
  ASSUME TypeOK, Started, [Next]_vars
  PROVE  Started'
<1> USE DEF Started
<1>t. /\ \A s \in Slots : starts[s] \in Nat /\ executors[s] \in Nat
      /\ alive \subseteq Process
  BY DEF TypeOK
<1>1. CASE UNCHANGED <<attempt, owner, alive, starts, executors>>
  BY <1>1
<1>2. ASSUME NEW w \in Attempts, MakeDirectory(w) PROVE Started'
  <2>1. PICK p \in alive : owner' = [owner EXCEPT ![w] = p]
    BY <1>2 DEF MakeDirectory
  <2>2. p \in Process /\ p[2] <= starts[p[1]]
    BY <1>t, <2>1
  <2>3. UNCHANGED <<alive, starts, executors>>
    BY <1>2 DEF MakeDirectory, supervisorVars
  <2>4. attempt' = [attempt EXCEPT ![w] = "preparing"]
    BY <1>2 DEF MakeDirectory
  <2>5. QED BY <2>1, <2>2, <2>3, <2>4 DEF TypeOK
<1>3. ASSUME NEW w \in Attempts, WriteMarker(w) \/ Cleanup(w) PROVE Started'
  BY <1>3 DEF WriteMarker, Cleanup, supervisorVars, TypeOK
<1>4. ASSUME NEW p \in Process, Die(p) \/ ExecutorStops(p) PROVE Started'
  BY <1>4 DEF Die, ExecutorStops, supervisorVars
<1>5. ASSUME NEW c \in Collectors, ScanStep(c) PROVE Started'
  BY <1>1, <1>5 DEF ScanStep, ReadMarker, RemoveTree, RemoveFails, attemptVars, supervisorVars
<1>6. CASE StartExecutors
  <2>1. /\ UNCHANGED <<attempt, owner>>
        /\ \A s \in Slots : starts'[s] = starts[s] + 1
        /\ executors' = starts'
        /\ alive' = alive \cup {<<s, starts'[s]>> : s \in Slots}
    BY <1>6 DEF StartExecutors
  <2>2. ASSUME NEW p \in alive' PROVE p[2] <= starts'[p[1]]
    <3>1. CASE p \in alive
      <4>1. p[1] \in Slots /\ p[2] \in Nat
        BY <1>t, <3>1 DEF Process
      <4>2. QED BY <1>t, <2>1, <3>1, <4>1
    <3>2. CASE \E s \in Slots : p = <<s, starts'[s]>>
      BY <1>t, <2>1, <3>2
    <3>3. QED BY <2>1, <2>2, <3>1, <3>2
  <2>3. ASSUME NEW w \in Attempts, attempt'[w] # "waiting"
        PROVE  owner'[w] \in Process /\ owner'[w][2] <= starts'[owner'[w][1]]
    <3>1. owner[w] \in Process /\ owner[w][2] <= starts[owner[w][1]]
      BY <2>1, <2>3
    <3>2. owner[w][1] \in Slots /\ owner[w][2] \in Nat
      BY <3>1 DEF Process
    <3>3. QED BY <1>t, <2>1, <3>1, <3>2
  <2>4. QED BY <1>t, <2>1, <2>2, <2>3
<1>7. CASE StartReplacement
  <2>1. /\ UNCHANGED <<attempt, owner, executors>> /\ slot \in Slots
        /\ \A s \in Slots : starts'[s] = IF s = slot THEN starts[s] + 1 ELSE starts[s]
        /\ alive' = alive \cup {<<slot, starts'[slot]>>}
    BY <1>7 DEF StartReplacement, TypeOK
  <2>2. ASSUME NEW p \in alive' PROVE p[2] <= starts'[p[1]]
    <3>1. CASE p \in alive
      <4>1. p[1] \in Slots /\ p[2] \in Nat
        BY <1>t, <3>1 DEF Process
      <4>2. QED BY <1>t, <2>1, <3>1, <4>1
    <3>2. CASE p = <<slot, starts'[slot]>>
      BY <1>t, <2>1, <3>2
    <3>3. QED BY <2>1, <2>2, <3>1, <3>2
  <2>3. ASSUME NEW w \in Attempts, attempt'[w] # "waiting"
        PROVE  owner'[w] \in Process /\ owner'[w][2] <= starts'[owner'[w][1]]
    <3>1. owner[w] \in Process /\ owner[w][2] <= starts[owner[w][1]]
      BY <2>1, <2>3
    <3>2. owner[w][1] \in Slots /\ owner[w][2] \in Nat
      BY <3>1 DEF Process
    <3>3. QED BY <1>t, <2>1, <3>1, <3>2
  <2>4. \A s \in Slots : executors'[s] <= starts'[s]
    BY <1>t, <2>1
  <2>5. QED BY <2>2, <2>3, <2>4
<1>8. CASE RecordReplacement
  BY <1>8, <1>t DEF RecordReplacement, attemptVars, TypeOK
<1>9. CASE Killed
  BY <1>9, <1>t DEF Killed, NoStart
<1>10. CASE \/ Start \/ FinalSweep \/ Stopped \/ LoopBegins \/ Stop \/ Ended \/ UNCHANGED vars
            \/ \E s \in Slots : ExecutorFoundDead(s)
            \/ \E w \in Attempts : Age(w)
  BY <1>1, <1>10 DEF Start, FinalSweep, Stopped, LoopBegins, Stop, Ended, ExecutorFoundDead, Age,
                     attemptVars, supervisorVars, vars
<1>11. QED
  BY <1>2, <1>3, <1>4, <1>5, <1>6, <1>7, <1>8, <1>9, <1>10
     DEF Next, AttemptStep, SupervisorStep

\* Only what has a marker ages, and only a running attempt has written one.
LEMMA AgingKept ==
  ASSUME TypeOK, Aging, [Next]_vars
  PROVE  Aging'
<1> USE DEF Aging
<1>1. CASE UNCHANGED <<dir, old, attempt>>
  BY <1>1
<1>2. ASSUME NEW w \in Attempts, MakeDirectory(w) \/ WriteMarker(w) \/ Cleanup(w) \/ Age(w)
      PROVE  Aging'
  BY <1>2 DEF MakeDirectory, WriteMarker, Cleanup, Age, attemptVars, TypeOK
<1>3. ASSUME NEW c \in Collectors, ScanStep(c) PROVE Aging'
  BY <1>1, <1>3 DEF ScanStep, ReadMarker, RemoveTree, RemoveFails, attemptVars, TypeOK
<1>4. ASSUME NEW p \in Process, Die(p) \/ ExecutorStops(p) PROVE Aging'
  BY <1>1, <1>4 DEF Die, ExecutorStops
<1>5. CASE SupervisorStep \/ LoopBegins \/ Stop \/ Killed \/ Ended \/ UNCHANGED vars
  BY <1>1, <1>5 DEF SupervisorStep, Start, StartExecutors, StartReplacement, RecordReplacement,
                    ExecutorFoundDead, FinalSweep, Stopped, LoopBegins, Stop, Killed, Ended,
                    Collect, attemptVars, vars
<1>6. QED BY <1>2, <1>3, <1>4, <1>5 DEF Next, AttemptStep

\* Nobody lives whom the supervisor does not know of, or has not just started.  Here
\* the operating rule is used: a supervisor killed alone in process mode would leave
\* executors to a successor that does not know them.
LEMMA RosterKept ==
  ASSUME "process" \notin KillModes, TypeOK, Started, Aging, Roster, [Next]_vars
  PROVE  Roster'
<1>t. /\ \A s \in Slots : starts[s] \in Nat /\ executors[s] \in Nat
      /\ alive \subseteq Process /\ slot \in Slots
  BY DEF TypeOK
<1>1. CASE UNCHANGED <<old, owner, alive, supervisor, executors, starts, slot>>
  BY <1>1 DEF Roster, Known, Replacement
<1>2. ASSUME NEW w \in Attempts, MakeDirectory(w) PROVE Roster'
  <2>1. /\ UNCHANGED <<old, alive, supervisor, executors, starts, slot>>
        /\ \A v \in Attempts : v # w => owner'[v] = owner[v]
        /\ ~old[w]
    BY <1>2 DEF MakeDirectory, supervisorVars, TypeOK, Aging
  <2>2. QED BY <2>1 DEF Roster, Known, Replacement
<1>3. ASSUME NEW w \in Attempts, WriteMarker(w) \/ Cleanup(w) PROVE Roster'
  BY <1>1, <1>3 DEF WriteMarker, Cleanup, supervisorVars
<1>4. ASSUME NEW w \in Attempts, Age(w) PROVE Roster'
  <2>1. /\ UNCHANGED <<owner, alive, supervisor, executors, starts, slot>>
        /\ \A v \in Attempts : v # w => old'[v] = old[v]
        /\ supervisor = "replaced" => owner[w] # Replacement
    BY <1>4 DEF Age, attemptVars, supervisorVars, TypeOK, Replacement
  <2>2. QED BY <2>1 DEF Roster, Known, Replacement
<1>5. ASSUME NEW p \in Process, Die(p) \/ ExecutorStops(p) PROVE Roster'
  <2>1. alive' \subseteq alive /\ UNCHANGED <<old, owner, supervisor, executors, starts, slot>>
    BY <1>5 DEF Die, ExecutorStops, supervisorVars
  <2>2. QED BY <2>1 DEF Roster, Known, Replacement
<1>6. ASSUME NEW c \in Collectors, ScanStep(c) PROVE Roster'
  <2>1. UNCHANGED <<old, owner, alive, executors, starts, slot>>
    BY <1>6 DEF ScanStep, ReadMarker, RemoveTree, RemoveFails, attemptVars, supervisorVars
  <2>2. \/ supervisor' = supervisor
        \/ supervisor = "targeted" /\ supervisor' = "drain"
        \/ supervisor' = "stopped"
    BY <1>6 DEF ScanStep, ReadMarker, RemoveTree, RemoveFails, supervisorVars
  <2>3. QED BY <2>1, <2>2 DEF Roster, Known, Replacement
<1>7. CASE Start
  BY <1>7 DEF Start, Roster, Known, attemptVars
<1>8. CASE StartExecutors
  <2>1. alive = {} /\ supervisor' = "run"
    BY <1>8 DEF StartExecutors, Roster
  <2>2. alive' \subseteq Known'
    BY <1>8, <2>1 DEF StartExecutors, Known
  <2>3. QED BY <2>1, <2>2 DEF Roster
<1>9. CASE StartReplacement
  <2>1. /\ supervisor = "targeted" /\ supervisor' = "replaced"
        /\ UNCHANGED <<owner, old, executors, slot>>
        /\ starts'[slot] = starts[slot] + 1
        /\ alive' = alive \cup {<<slot, starts'[slot]>>}
    BY <1>9, <1>t DEF StartReplacement, TypeOK
  <2>2. <<slot, executors[slot]>> \notin alive'
    BY <1>t, <2>1 DEF Roster, Started
  <2>3. alive' \subseteq Known' \cup {Replacement'}
    BY <2>1 DEF Roster, Known, Replacement
  <2>4. ASSUME NEW w \in Attempts, owner'[w] = Replacement' PROVE ~old'[w]
    <3>1. owner[w] = <<slot, starts[slot] + 1>>
      BY <2>1, <2>4 DEF Replacement
    <3>2. attempt[w] = "waiting"
      BY <1>t, <3>1, NextIsFresh
    <3>3. QED BY <2>1, <3>2 DEF Aging
  <2>5. QED BY <2>1, <2>2, <2>3, <2>4 DEF Roster
<1>10. CASE RecordReplacement
  <2>1. /\ supervisor = "replaced" /\ supervisor' = "run" /\ UNCHANGED <<alive, slot, starts>>
        /\ \A s \in Slots : executors'[s] = IF s = slot THEN starts[s] ELSE executors[s]
    BY <1>10, <1>t DEF RecordReplacement, attemptVars, TypeOK
  <2>2. ASSUME NEW p \in alive PROVE p \in Known'
    <3>1. CASE p = Replacement
      BY <1>t, <2>1, <3>1 DEF Replacement, Known
    <3>2. CASE p \in Known
      <4>1. PICK s \in Slots : p = <<s, executors[s]>>
        BY <3>2 DEF Known
      <4>2. s # slot
        BY <2>1, <2>2, <4>1 DEF Roster
      <4>3. QED BY <2>1, <4>1, <4>2 DEF Known
    <3>3. QED BY <2>1, <2>2, <3>1, <3>2 DEF Roster
  <2>3. QED BY <2>1, <2>2 DEF Roster
<1>11. ASSUME NEW s \in Slots, ExecutorFoundDead(s) PROVE Roster'
  <2>1. /\ supervisor = "run" /\ supervisor' = "targeted" /\ slot' = s
        /\ UNCHANGED <<alive, executors>> /\ <<s, executors[s]>> \notin alive
    BY <1>11 DEF ExecutorFoundDead, attemptVars
  <2>2. QED BY <2>1 DEF Roster, Known
<1>12. CASE FinalSweep
  <2>1. supervisor = "drain" /\ supervisor' = "final" /\ Known \cap alive = {} /\ alive' = alive
    BY <1>12 DEF FinalSweep, attemptVars
  <2>2. QED BY <2>1 DEF Roster
<1>13. CASE Stopped
  BY <1>13 DEF Stopped, Roster
<1>14. CASE Stop
  BY <1>14 DEF Stop, Roster, Known, attemptVars
<1>15. CASE Killed
  <2>1. alive' = {} /\ supervisor' = "down"
    BY <1>15, WorkspacesAssumption DEF Killed
  <2>2. QED BY <2>1 DEF Roster
<1>16. CASE LoopBegins \/ Ended \/ UNCHANGED vars
  BY <1>1, <1>16 DEF LoopBegins, Collect, Ended, attemptVars, supervisorVars, vars
<1>17. QED
  BY <1>2, <1>3, <1>4, <1>5, <1>6, <1>7, <1>8, <1>9, <1>10, <1>11, <1>12, <1>13, <1>14, <1>15, <1>16
     DEF Next, AttemptStep, SupervisorStep

\* An attempt that has ended, or whose process is dead, never works in its workspace
\* again: no process comes back under the same start.
LEMMA InactiveStays ==
  ASSUME TypeOK, Started, [Next]_vars, NEW w \in Attempts,
         attempt[w] \in {"running", "ended"}, ~Active(w)
  PROVE  attempt'[w] \in {"running", "ended"} /\ ~Active(w)'
<1> USE DEF Active
<1>1. CASE UNCHANGED <<attempt, owner>> /\ alive' \subseteq alive
  BY <1>1
<1>2. ASSUME NEW v \in Attempts, MakeDirectory(v) \/ WriteMarker(v) \/ Cleanup(v)
      PROVE  attempt'[w] \in {"running", "ended"} /\ ~Active(w)'
  BY <1>2 DEF MakeDirectory, WriteMarker, Cleanup, supervisorVars, TypeOK
<1>3. ASSUME UNCHANGED <<attempt, owner>>, \A p \in alive' : p \in alive \/ p[2] > starts[p[1]]
      PROVE  attempt'[w] \in {"running", "ended"} /\ ~Active(w)'
  <2>1. owner[w] \in Process /\ owner[w][2] <= starts[owner[w][1]]
    BY DEF Started
  <2>2. owner[w][1] \in Slots /\ owner[w][2] \in Nat /\ starts[owner[w][1]] \in Nat
    BY <2>1 DEF Process, TypeOK
  <2>3. QED BY <1>3, <2>1, <2>2
<1>4. CASE StartExecutors
  <2>1. \A s \in Slots : starts[s] \in Nat /\ starts'[s] = starts[s] + 1
    BY <1>4 DEF StartExecutors, TypeOK
  <2>2. alive' = alive \cup {<<s, starts'[s]>> : s \in Slots} /\ UNCHANGED <<attempt, owner>>
    BY <1>4 DEF StartExecutors
  <2>3. QED BY <1>3, <2>1, <2>2
<1>5. CASE StartReplacement
  <2>1. slot \in Slots /\ starts[slot] \in Nat /\ starts'[slot] = starts[slot] + 1
    BY <1>5 DEF StartReplacement, TypeOK
  <2>2. alive' = alive \cup {<<slot, starts'[slot]>>} /\ UNCHANGED <<attempt, owner>>
    BY <1>5 DEF StartReplacement
  <2>3. QED BY <1>3, <2>1, <2>2
<1>6. CASE \/ \E v \in Attempts : Age(v)
           \/ \E p \in Process : Die(p) \/ ExecutorStops(p)
           \/ \E c \in Collectors : ScanStep(c)
  BY <1>1, <1>6 DEF Age, Die, ExecutorStops, ScanStep, ReadMarker, RemoveTree, RemoveFails,
                    attemptVars
<1>7. CASE \/ Start \/ RecordReplacement \/ FinalSweep \/ Stopped \/ LoopBegins \/ Stop \/ Killed
           \/ Ended \/ UNCHANGED vars
           \/ \E s \in Slots : ExecutorFoundDead(s)
  BY <1>1, <1>7 DEF Start, RecordReplacement, FinalSweep, Stopped, LoopBegins, Stop, Killed, Ended,
                    ExecutorFoundDead, attemptVars, vars
<1>8. QED
  BY <1>2, <1>4, <1>5, <1>6, <1>7 DEF Next, AttemptStep, SupervisorStep

\* A collection is after its candidates, and after what its collector was removing.
LEMMA CollectTargets ==
  ASSUME TypeOK, NEW c \in Collectors, NEW C \in SUBSET Attempts, Collect(c, C)
  PROVE  \A d \in Collectors :
           Targets(d)' = IF d = c THEN C \cup {w \in Attempts : w = removing[c]} ELSE Targets(d)
BY DEF Collect, Targets, TypeOK

\* A collector comes to nothing it was not after.
LEMMA ScanTargets ==
  ASSUME TypeOK, NEW c \in Collectors, ScanStep(c)
  PROVE  \A d \in Collectors : Targets(d)' \subseteq Targets(d)
<1>1. ASSUME NEW w \in Attempts, ReadMarker(c, w)
      PROVE  \A d \in Collectors : Targets(d)' \subseteq Targets(d)
  BY <1>1, WorkspacesAssumption DEF ReadMarker, Targets, TypeOK
<1>2. CASE RemoveTree(c)
  BY <1>2, WorkspacesAssumption DEF RemoveTree, Targets, TypeOK
<1>3. CASE RemoveFails(c)
  BY <1>3, WorkspacesAssumption DEF RemoveFails, Abandon, Targets, TypeOK
<1>4. QED BY <1>1, <1>2, <1>3 DEF ScanStep

\* A marked workspace is past its preparation.
LEMMA MarkedHasRun ==
  ASSUME TypeOK, Aging, NEW w \in Marked
  PROVE  w \in Attempts /\ attempt[w] \in {"running", "ended"}
BY DEF Marked, Aging, TypeOK

\* Collectors are after the dead only: at the start and the end nobody is alive, in
\* between the GC loop spares whom the supervisor knows and what is young, and a
\* targeted collection is after a process that is dead.
LEMMA CondemnedKept ==
  ASSUME TypeOK, Started, Aging, Roster, Condemned, [Next]_vars
  PROVE  Condemned'
<1>a. ASSUME \A c \in Collectors : Targets(c)' \subseteq Targets(c)
      PROVE  Condemned'
  <2> SUFFICES ASSUME NEW c \in Collectors, NEW w \in Targets(c)'
               PROVE  attempt'[w] \in {"running", "ended"} /\ ~Active(w)'
    BY DEF Condemned
  <2>1. w \in Targets(c) /\ w \in Attempts
    BY <1>a DEF Targets
  <2>2. QED BY <2>1, InactiveStays DEF Condemned
<1>b. ASSUME NEW c \in Collectors, NEW C \in SUBSET Marked, Collect(c, C),
             \A w \in C : ~Active(w)
      PROVE  Condemned'
  <2> SUFFICES ASSUME NEW d \in Collectors, NEW w \in Targets(d)'
               PROVE  attempt'[w] \in {"running", "ended"} /\ ~Active(w)'
    BY DEF Condemned
  <2>1. C \in SUBSET Attempts
    BY DEF Marked
  <2>2. w \in Attempts /\ (w \in Targets(d) \/ w \in C)
    BY <1>b, <2>1, CollectTargets DEF Targets
  <2>3. attempt[w] \in {"running", "ended"} /\ ~Active(w)
    BY <1>b, <2>2, MarkedHasRun DEF Condemned
  <2>4. QED BY <2>2, <2>3, InactiveStays
<1>1. CASE UNCHANGED <<doomed, removing>>
  BY <1>1, <1>a DEF Targets
<1>2. CASE Start
  <2>1. Collect("main", Marked) /\ alive = {}
    BY <1>2 DEF Start, Roster
  <2>2. QED BY <2>1, <1>b DEF Active, Collectors
<1>3. CASE LoopBegins
  <2> DEFINE C == {w \in Marked : old[w] /\ owner[w] \notin ActiveOwners} \ ActiveTokens
  <2>1. Collect("loop", C) /\ supervisor \in {"run", "targeted", "replaced"}
    BY <1>3 DEF LoopBegins
  <2>2. ASSUME NEW w \in C PROVE ~Active(w)
    <3>1. w \in Attempts /\ old[w] /\ owner[w] \notin ActiveOwners /\ w \notin ActiveTokens
      BY <2>2 DEF Marked
    <3>2. CASE mode = "thread"
      BY <3>1, <3>2 DEF ActiveTokens
    <3>3. CASE mode = "process"
      <4>1. owner[w] \notin Known \cap alive
        BY <3>1, <3>3 DEF ActiveOwners
      <4>2. owner[w] \in alive => owner[w] = Replacement /\ supervisor = "replaced"
        BY <2>1, <4>1 DEF Roster
      <4>3. QED BY <3>1, <4>2 DEF Roster, Active
    <3>4. QED BY <3>2, <3>3, WorkspacesAssumption DEF TypeOK
  <2>3. C \in SUBSET Marked /\ "loop" \in Collectors
    BY DEF Collectors
  <2> HIDE DEF C
  <2>4. QED BY <2>1, <2>2, <2>3, <1>b
<1>4. ASSUME NEW s \in Slots, ExecutorFoundDead(s) PROVE Condemned'
  <2> DEFINE C == {w \in Marked : owner[w] = <<s, executors[s]>>}
  <2>1. Collect("main", C) /\ <<s, executors[s]>> \notin alive
    BY <1>4 DEF ExecutorFoundDead
  <2>2. \A w \in C : ~Active(w)
    BY <2>1 DEF Active
  <2>3. C \in SUBSET Marked /\ "main" \in Collectors
    BY DEF Collectors
  <2> HIDE DEF C
  <2>4. QED BY <2>1, <2>2, <2>3, <1>b
<1>5. CASE FinalSweep
  <2>1. Collect("main", Marked) /\ alive = {}
    BY <1>5 DEF FinalSweep, Roster
  <2>2. QED BY <2>1, <1>b DEF Active, Collectors
<1>6. ASSUME NEW c \in Collectors, ScanStep(c) PROVE Condemned'
  BY <1>6, <1>a, ScanTargets
<1>7. CASE Stopped \/ Killed
  <2>1. \A c \in Collectors : Targets(c)' \subseteq Targets(c)
    BY <1>7, WorkspacesAssumption DEF Stopped, Killed, Abandon, Targets, TypeOK
  <2>2. QED BY <2>1, <1>a
<1>8. CASE \/ StartExecutors \/ StartReplacement \/ RecordReplacement \/ Stop \/ Ended \/ UNCHANGED vars
           \/ \E w \in Attempts : AttemptStep(w) \/ Age(w)
           \/ \E p \in Process : Die(p) \/ ExecutorStops(p)
  BY <1>1, <1>8 DEF StartExecutors, StartReplacement, RecordReplacement, Stop, Ended, AttemptStep,
                    MakeDirectory, WriteMarker, Cleanup, Age, Die, ExecutorStops, scanVars, vars
<1>9. QED
  BY <1>2, <1>3, <1>4, <1>5, <1>6, <1>7, <1>8 DEF Next, SupervisorStep

\* So nobody who works loses the workspace.
LEMMA RunningKept ==
  ASSUME TypeOK, Started, Condemned, RunningWorkspaceKept, [Next]_vars
  PROVE  RunningWorkspaceKept'
<1> USE DEF RunningWorkspaceKept
<1>a. ASSUME UNCHANGED <<dir, attempt, owner>>, alive' \subseteq alive PROVE RunningWorkspaceKept'
  BY <1>a
<1>1. ASSUME NEW w \in Attempts, AttemptStep(w) PROVE RunningWorkspaceKept'
  BY <1>1 DEF AttemptStep, MakeDirectory, WriteMarker, Cleanup, supervisorVars, TypeOK
<1>2. ASSUME NEW c \in Collectors, RemoveTree(c) PROVE RunningWorkspaceKept'
  <2>1. removing[c] \in Targets(c) /\ removing[c] \in Attempts
    BY <1>2 DEF RemoveTree, Targets, TypeOK
  <2>2. UNCHANGED <<attempt, owner, alive>>
    BY <1>2 DEF RemoveTree, attemptVars
  <2>3. \A w \in Attempts : w # removing[c] => dir'[w] = dir[w]
    BY <1>2, <2>1 DEF RemoveTree, TypeOK
  <2>4. QED BY <2>1, <2>2, <2>3 DEF Condemned, Active
<1>3. CASE StartExecutors \/ StartReplacement
  <2>1. UNCHANGED <<dir, attempt, owner>>
    BY <1>3 DEF StartExecutors, StartReplacement
  <2>2. ASSUME NEW w \in Attempts, attempt[w] = "running", owner[w] \notin alive
        PROVE  owner'[w] \notin alive'
    BY <2>1, <2>2, InactiveStays DEF Active
  <2>3. QED BY <2>1, <2>2
<1>4. CASE \/ \E w \in Attempts : Age(w)
           \/ \E p \in Process : Die(p) \/ ExecutorStops(p)
           \/ \E c \in Collectors : RemoveFails(c) \/ \E w \in Attempts : ReadMarker(c, w)
  BY <1>a, <1>4 DEF Age, Die, ExecutorStops, RemoveFails, ReadMarker, attemptVars
<1>5. CASE \/ Start \/ RecordReplacement \/ FinalSweep \/ Stopped \/ LoopBegins \/ Stop \/ Killed
           \/ Ended \/ UNCHANGED vars
           \/ \E s \in Slots : ExecutorFoundDead(s)
  BY <1>a, <1>5 DEF Start, RecordReplacement, FinalSweep, Stopped, LoopBegins, Stop, Killed, Ended,
                    ExecutorFoundDead, Collect, attemptVars, vars
<1>6. QED
  BY <1>1, <1>2, <1>3, <1>4, <1>5 DEF Next, ScanStep, SupervisorStep

\* The final sweep is after every workspace there is, nobody is there to mark another,
\* and it ends when it has visited them all.
LEMMA SweepingKept ==
  ASSUME TypeOK, Roster, Sweeping, StoppedIsSwept, [Next]_vars
  PROVE  Sweeping' /\ StoppedIsSwept'
<1> DEFINE Swept == supervisor = "stopped" /\ stopped = "signal" /\ mode = "process"
<1>a. ASSUME UNCHANGED <<supervisor, stopped, mode>>, alive' \subseteq alive,
             alive = {} => Marked' \subseteq Marked,
             alive = {} /\ supervisor = "final" => Marked' \cap Targets("main") \subseteq Targets("main")'
      PROVE  Sweeping' /\ StoppedIsSwept'
  BY <1>a DEF Sweeping, StoppedIsSwept, Roster
<1>b. ASSUME supervisor' # "final", ~Swept'
      PROVE  Sweeping' /\ StoppedIsSwept'
  BY <1>b DEF Sweeping, StoppedIsSwept
<1>1. ASSUME NEW w \in Attempts, AttemptStep(w) \/ Age(w) PROVE Sweeping' /\ StoppedIsSwept'
  <2>1. UNCHANGED <<supervisor, stopped, mode, alive, doomed, removing>>
    BY <1>1 DEF AttemptStep, MakeDirectory, WriteMarker, Cleanup, Age, supervisorVars, scanVars,
                attemptVars
  <2>2. alive = {} => Marked' \subseteq Marked
    BY <1>1 DEF AttemptStep, MakeDirectory, WriteMarker, Cleanup, Age, Marked, TypeOK
  <2>3. QED BY <1>a, <2>1, <2>2 DEF Targets
<1>2. ASSUME NEW p \in Process, Die(p) \/ ExecutorStops(p) PROVE Sweeping' /\ StoppedIsSwept'
  BY <1>2, <1>a DEF Die, ExecutorStops, supervisorVars, scanVars, Marked, Targets
<1>3. ASSUME NEW c \in Collectors, NEW w \in Attempts, ReadMarker(c, w)
      PROVE  Sweeping' /\ StoppedIsSwept'
  <2>1. UNCHANGED <<supervisor, stopped, mode, alive, dir>>
    BY <1>3 DEF ReadMarker, attemptVars, supervisorVars
  <2>2. Marked' = Marked
    BY <2>1 DEF Marked
  <2>3. Marked \cap Targets("main") \subseteq Targets("main")'
    BY <1>3, WorkspacesAssumption DEF ReadMarker, Targets, Marked, TypeOK, Collectors
  <2>4. QED BY <1>a, <2>1, <2>2, <2>3
<1>4. ASSUME NEW c \in Collectors, RemoveTree(c) PROVE Sweeping' /\ StoppedIsSwept'
  <2>1. UNCHANGED <<supervisor, stopped, mode, alive, doomed>>
    BY <1>4 DEF RemoveTree, attemptVars, supervisorVars
  <2>2. removing[c] \in Attempts /\ Marked' = Marked \ {removing[c]}
    BY <1>4 DEF RemoveTree, TypeOK, Marked
  <2>3. Marked' \cap Targets("main") \subseteq Targets("main")'
    BY <1>4, <2>1, <2>2 DEF RemoveTree, Targets, TypeOK, Collectors
  <2>4. QED BY <1>a, <2>1, <2>2, <2>3
<1>5. ASSUME NEW c \in Collectors, RemoveFails(c) PROVE Sweeping' /\ StoppedIsSwept'
  <2>1. CASE c = "loop"
    <3>1. UNCHANGED <<supervisor, stopped, mode, alive, dir>>
      BY <1>5, <2>1 DEF RemoveFails, attemptVars
    <3>2. Targets("main")' = Targets("main")
      BY <1>5, <2>1 DEF RemoveFails, Abandon, Targets, TypeOK, Collectors
    <3>3. QED BY <1>a, <3>1, <3>2 DEF Marked
  <2>2. CASE c # "loop"
    BY <1>5, <2>2, <1>b DEF RemoveFails
  <2>3. QED BY <2>1, <2>2
<1>6. CASE FinalSweep
  <2>1. supervisor' = "final" /\ Collect("main", Marked) /\ dir' = dir
    BY <1>6 DEF FinalSweep, Collect
  <2>2. Marked \in SUBSET Attempts /\ Marked' = Marked
    BY <2>1 DEF Marked
  <2>3. Marked \subseteq Targets("main")'
    BY <2>1, <2>2, CollectTargets DEF Collectors
  <2>4. QED BY <2>1, <2>2, <2>3 DEF Sweeping, StoppedIsSwept
<1>7. CASE Stopped
  <2>1. CASE supervisor = "final" /\ ~Scanning("main")
    <3>1. Targets("main") = {} /\ alive = {}
      BY <2>1, WorkspacesAssumption DEF Scanning, Targets, Roster
    <3>2. Marked = {}
      BY <2>1, <3>1 DEF Sweeping
    <3>3. Marked' = {} /\ alive' = {} /\ supervisor' = "stopped"
      BY <1>7, <3>1, <3>2 DEF Stopped, Marked, attemptVars
    <3>4. QED BY <3>3 DEF Sweeping, StoppedIsSwept
  <2>2. CASE mode = "thread"
    BY <1>7, <2>2, <1>b DEF Stopped
  <2>3. QED BY <1>7, <2>1, <2>2 DEF Stopped
<1>8. CASE \/ Start \/ StartExecutors \/ StartReplacement \/ RecordReplacement \/ Stop \/ Killed
           \/ \E s \in Slots : ExecutorFoundDead(s)
  BY <1>8, <1>b DEF Start, StartExecutors, StartReplacement, RecordReplacement, Stop, Killed,
                    ExecutorFoundDead
<1>9. CASE LoopBegins
  <2>1. supervisor' \notin {"final", "stopped"}
    BY <1>9 DEF LoopBegins, supervisorVars
  <2>2. QED BY <2>1, <1>b
<1>10. CASE Ended \/ UNCHANGED vars
  BY <1>10, <1>a DEF Ended, vars, Marked, Targets
<1>11. QED
  BY <1>1, <1>2, <1>3, <1>4, <1>5, <1>6, <1>7, <1>8, <1>9, <1>10 DEF Next, ScanStep, SupervisorStep

-----------------------------------------------------------------------------
\* The theorems

\* Every variable keeps its type, whatever is killed: among others no slot starts more
\* processes than its bound, and collectors are after workspaces only.
THEOREM TypeCorrect == Spec => []TypeOK
<1>1. Init => TypeOK
  BY InitEstablishes DEF WorkspacesInv
<1>2. TypeOK /\ [Next]_vars => TypeOK'
  BY TypeKept
<1>3. QED BY <1>1, <1>2, PTL DEF Spec

\* The strengthening from which the properties below follow.
THEOREM WorkspacesInvHolds ==
  ASSUME "process" \notin KillModes PROVE Spec => []WorkspacesInv
<1>1. Init => WorkspacesInv
  BY InitEstablishes
<1>2. WorkspacesInv /\ [Next]_vars => WorkspacesInv'
  BY TypeKept, StartedKept, AgingKept, RosterKept, CondemnedKept, RunningKept, SweepingKept
     DEF WorkspacesInv
<1>3. QED BY <1>1, <1>2, PTL DEF Spec

\* No collector removes the workspace of an attempt that is still running.
THEOREM RunningWorkspaceIsKept ==
  ASSUME "process" \notin KillModes PROVE Spec => []RunningWorkspaceKept
<1>1. WorkspacesInv => RunningWorkspaceKept
  BY DEF WorkspacesInv
<1>2. QED BY <1>1, WorkspacesInvHolds, PTL

\* A supervisor in process mode that stopped on a signal leaves no marked workspace.
THEOREM StopSweepsAll ==
  ASSUME "process" \notin KillModes PROVE Spec => []StoppedIsSwept
<1>1. WorkspacesInv => StoppedIsSwept
  BY DEF WorkspacesInv
<1>2. QED BY <1>1, WorkspacesInvHolds, PTL
=============================================================================
