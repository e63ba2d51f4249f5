------------------------- MODULE AttemptWorkspaces -------------------------
(***************************************************************************)
(* Attempt workspaces under one workspace root (workspace/lifecycle.py)    *)
(* and the collectors that remove abandoned ones (workspace/gc.py): the    *)
(* supervisor's background loop, the targeted collection after an executor *)
(* died, and the sweeps at its start and end (supervisor.py).              *)
(*                                                                         *)
(* Ages are abstracted to "older than PERAGO_WORKSPACE_GC_TTL or not".     *)
(***************************************************************************)
EXTENDS Naturals, FiniteSets

CONSTANTS
  Attempts,    \* attempts: each execution id has a directory of its own
  SlotCount,   \* executor processes, or runner threads in thread mode
  Modes,       \* execution modes supervisors are started in
  KillModes,   \* operating rule: modes in which a supervisor alone may be killed
  MaxStarts,   \* bound: executor processes started per slot
  MaxKills     \* bound: supervisors killed without a chance to clean up

NoAttempt == "no attempt"

ASSUME WorkspacesAssumption ==
  /\ NoAttempt \notin Attempts
  /\ SlotCount \in Nat \ {0}
  /\ Modes \subseteq {"process", "thread"}
  /\ KillModes \subseteq Modes
  /\ MaxStarts \in Nat \ {0}
  /\ MaxKills \in Nat

Slots == 1..SlotCount
Process == Slots \X (1..MaxStarts)   \* an executor process: worker id and pid
NoStart == 0
Collectors == {"loop", "main"}       \* the GC thread and the supervisor's main thread

VARIABLES
  \* the workspace root
  dir,         \* dir[w]: directory of attempt w
  old,         \* old[w]: its marker's started_at lies back at least the TTL
  \* attempts
  attempt,     \* attempt[w]: how far it has come
  owner,       \* owner[w]: the process that runs it
  alive,       \* executor processes that are alive
  \* supervisor
  mode,        \* the execution mode it was started in
  supervisor,  \* what its main thread is doing
  executors,   \* executors[s]: the process it knows of in slot s, or NoStart
  starts,      \* starts[s]: processes started in slot s so far
  slot,        \* the slot whose executor it is replacing
  stopped,     \* why it stops: "signal", or the "error" that ended its loop
  kills,
  \* collections under way
  doomed,      \* doomed[c]: workspaces collector c has yet to visit
  removing     \* removing[c]: the one whose marker it has read

attemptVars == <<attempt, owner, alive>>
supervisorVars == <<mode, supervisor, executors, starts, slot, stopped, kills>>
scanVars == <<doomed, removing>>
vars == <<dir, old, attempt, owner, alive, mode, supervisor, executors, starts, slot,
          stopped, kills, doomed, removing>>

(* What holds of the variables' types. *)
TypeOK ==
  /\ dir \in [Attempts -> {"none", "unmarked", "marked", "gone"}]
  /\ old \in [Attempts -> BOOLEAN]
  /\ attempt \in [Attempts -> {"waiting", "preparing", "running", "ended"}]
  /\ owner \in [Attempts -> Process \cup {<<NoStart, NoStart>>}]
  /\ alive \subseteq Process
  /\ mode \in Modes
  /\ supervisor \in {"down", "sweep", "run", "targeted", "replaced", "drain", "final", "stopped"}
  /\ executors \in [Slots -> 0..MaxStarts]
  /\ starts \in [Slots -> 0..MaxStarts]
  /\ slot \in Slots
  /\ stopped \in {"no", "signal", "error"}
  /\ kills \in 0..MaxKills
  /\ doomed \in [Collectors -> SUBSET Attempts]
  /\ removing \in [Collectors -> Attempts \cup {NoAttempt}]

Init ==
  /\ dir = [w \in Attempts |-> "none"]
  /\ old = [w \in Attempts |-> FALSE]
  /\ attempt = [w \in Attempts |-> "waiting"]
  /\ owner = [w \in Attempts |-> <<NoStart, NoStart>>]
  /\ alive = {}
  /\ mode \in Modes
  /\ supervisor = "down"
  /\ executors = [s \in Slots |-> NoStart]
  /\ starts = [s \in Slots |-> 0]
  /\ slot = 1
  /\ stopped = "no"
  /\ kills = 0
  /\ doomed = [c \in Collectors |-> {}]
  /\ removing = [c \in Collectors |-> NoAttempt]

-----------------------------------------------------------------------------
\* Helpers

Active(w) == attempt[w] \in {"preparing", "running"} /\ owner[w] \in alive
Busy(p) == \E w \in Attempts : owner[w] = p /\ Active(w)
Known == {<<s, executors[s]>> : s \in Slots}

\* _active_process_workspace_owners, and () -> set() in thread mode
ActiveOwners == IF mode = "process" THEN Known \cap alive ELSE {}

\* active_workspace_owner_tokens of the supervisor's process: only in thread mode
\* do attempts run, and register, there.
ActiveTokens == IF mode = "thread" THEN {w \in Attempts : Active(w)} ELSE {}

Marked == {w \in Attempts : dir[w] = "marked"}
Scanning(c) == doomed[c] # {} \/ removing[c] # NoAttempt

\* garbage_collect_attempt_workspaces up to its loop: the time, the owners and the
\* markers are read at the start, so later workspaces are never candidates.
Collect(c, candidates) ==
  /\ doomed' = [doomed EXCEPT ![c] = candidates]
  /\ UNCHANGED <<dir, old, removing>>

\* A collector stops in the middle of its collection.
Abandon(c) ==
  /\ doomed' = [doomed EXCEPT ![c] = {}]
  /\ removing' = [removing EXCEPT ![c] = NoAttempt]

-----------------------------------------------------------------------------
\* Attempts: prepare_attempt_workspace, the attempt, cleanup_attempt_workspace_safely

MakeDirectory(w) ==
  /\ attempt[w] = "waiting" /\ supervisor \notin {"drain", "final", "stopped"}
  /\ \E p \in alive : ~Busy(p) /\ owner' = [owner EXCEPT ![w] = p]
  /\ attempt' = [attempt EXCEPT ![w] = "preparing"]
  /\ dir' = [dir EXCEPT ![w] = "unmarked"]
  /\ UNCHANGED <<old, alive, supervisorVars, scanVars>>

WriteMarker(w) ==
  /\ attempt[w] = "preparing" /\ owner[w] \in alive
  /\ attempt' = [attempt EXCEPT ![w] = "running"]
  /\ dir' = [dir EXCEPT ![w] = "marked"]
  /\ UNCHANGED <<old, owner, alive, supervisorVars, scanVars>>

\* Removing the directory may fail; the attempt's result stands.
Cleanup(w) ==
  /\ attempt[w] = "running" /\ owner[w] \in alive
  /\ attempt' = [attempt EXCEPT ![w] = "ended"]
  /\ \/ dir[w] = "marked" /\ dir' = [dir EXCEPT ![w] = "gone"]
     \/ UNCHANGED dir
  /\ UNCHANGED <<old, owner, alive, supervisorVars, scanVars>>

\* Time passes.  Starting a process and entering it in executors takes less than
\* the TTL, which is at least a second.
Age(w) ==
  /\ dir[w] = "marked" /\ ~old[w]
  /\ supervisor = "replaced" => owner[w] # <<slot, starts[slot]>>
  /\ old' = [old EXCEPT ![w] = TRUE]
  /\ UNCHANGED <<dir, attemptVars, supervisorVars, scanVars>>

Die(p) ==
  /\ p \in alive /\ mode = "process"
  /\ alive' = alive \ {p}
  /\ UNCHANGED <<dir, old, attempt, owner, supervisorVars, scanVars>>

-----------------------------------------------------------------------------
\* Collections: the loop of garbage_collect_attempt_workspaces

ReadMarker(c, w) ==
  /\ removing[c] = NoAttempt /\ w \in doomed[c]
  /\ doomed' = [doomed EXCEPT ![c] = @ \ {w}]
  /\ removing' = [removing EXCEPT ![c] = IF dir[w] = "marked" THEN w ELSE NoAttempt]
  /\ UNCHANGED <<dir, old, attemptVars, supervisorVars>>

RemoveTree(c) ==
  /\ removing[c] # NoAttempt /\ dir[removing[c]] = "marked"
  /\ dir' = [dir EXCEPT ![removing[c]] = "gone"]
  /\ removing' = [removing EXCEPT ![c] = NoAttempt]
  /\ UNCHANGED <<old, attemptVars, supervisorVars, doomed>>

\* shutil.rmtree raises when the directory is gone: the GC loop logs it, the main
\* thread leaves what it was doing.
RemoveFails(c) ==
  /\ removing[c] # NoAttempt /\ dir[removing[c]] # "marked"
  /\ Abandon(c)
  /\ IF c = "loop" THEN UNCHANGED <<supervisor, stopped>>
     ELSE /\ supervisor' = IF supervisor = "targeted" THEN "drain" ELSE "stopped"
          /\ stopped' = "error"
  /\ UNCHANGED <<dir, old, attemptVars, mode, executors, starts, slot, kills>>

-----------------------------------------------------------------------------
\* Supervisor

\* run_worker_supervisor has the lock: sweep_abandoned_attempt_workspaces
Start ==
  /\ supervisor = "down"
  /\ supervisor' = "sweep"
  /\ mode' \in Modes
  /\ Collect("main", Marked)
  /\ UNCHANGED <<attemptVars, executors, starts, slot, stopped, kills>>

\* _run_worker_supervisor_locked: the GC loop and the executors, or the runner
StartExecutors ==
  /\ supervisor = "sweep" /\ ~Scanning("main")
  /\ \A s \in Slots : starts[s] < MaxStarts
  /\ supervisor' = "run"
  /\ starts' = [s \in Slots |-> starts[s] + 1]
  /\ executors' = starts'
  /\ alive' = alive \cup {<<s, starts'[s]>> : s \in Slots}
  /\ UNCHANGED <<dir, old, attempt, owner, mode, slot, stopped, kills, scanVars>>

\* Mutant of LoopBegins: the loop relies on ages alone.
LoopBeginsOnAge ==
  /\ supervisor \in {"run", "targeted", "replaced"} /\ ~Scanning("loop")
  /\ Collect("loop", {w \in Marked : old[w]})
  /\ UNCHANGED <<attemptVars, supervisorVars>>

\* WorkspaceGCLoop.run_once
LoopBegins ==
  /\ supervisor \in {"run", "targeted", "replaced"} /\ ~Scanning("loop")
  /\ Collect("loop", {w \in Marked : old[w] /\ owner[w] \notin ActiveOwners} \ ActiveTokens)
  /\ UNCHANGED <<attemptVars, supervisorVars>>

\* _targeted_workspace_gc of an executor that is found dead
ExecutorFoundDead(s) ==
  /\ supervisor = "run" /\ mode = "process" /\ <<s, executors[s]>> \notin alive
  /\ supervisor' = "targeted"
  /\ slot' = s
  /\ Collect("main", {w \in Marked : owner[w] = <<s, executors[s]>>})
  /\ UNCHANGED <<attemptVars, mode, executors, starts, stopped, kills>>

\* after the backoff: the replacement runs ...
StartReplacement ==
  /\ supervisor = "targeted" /\ ~Scanning("main") /\ starts[slot] < MaxStarts
  /\ supervisor' = "replaced"
  /\ starts' = [starts EXCEPT ![slot] = @ + 1]
  /\ alive' = alive \cup {<<slot, starts'[slot]>>}
  /\ UNCHANGED <<dir, old, attempt, owner, mode, executors, slot, stopped, kills, scanVars>>

\* ... before it is entered in executors
RecordReplacement ==
  /\ supervisor = "replaced"
  /\ supervisor' = "run"
  /\ executors' = [executors EXCEPT ![slot] = starts[slot]]
  /\ UNCHANGED <<dir, old, attemptVars, mode, starts, slot, stopped, kills, scanVars>>

\* SIGTERM, SIGINT or the end of the broker; the loop is given a second to stop
Stop ==
  /\ supervisor \in {"run", "targeted"} /\ ~Scanning("main")
  /\ supervisor' = "drain"
  /\ stopped' = "signal"
  /\ UNCHANGED <<dir, old, attemptVars, mode, executors, starts, slot, kills, scanVars>>

\* An executor leaves its loop between two tasks.
ExecutorStops(p) ==
  /\ supervisor = "drain" /\ p \in alive /\ ~Busy(p)
  /\ alive' = alive \ {p}
  /\ UNCHANGED <<dir, old, attempt, owner, supervisorVars, scanVars>>

\* Mutant of FinalSweep: the sweep does not wait for the executors.
SweepAtOnce ==
  /\ supervisor = "drain" /\ mode = "process"
  /\ supervisor' = "final"
  /\ Collect("main", Marked)
  /\ UNCHANGED <<attemptVars, executors, starts, slot, stopped, kills, mode>>

\* Mutant of FinalSweep: the sweep keeps what is younger than the TTL.
SweepOld ==
  /\ supervisor = "drain" /\ mode = "process" /\ Known \cap alive = {}
  /\ supervisor' = "final"
  /\ Collect("main", {w \in Marked : old[w]})
  /\ UNCHANGED <<attemptVars, executors, starts, slot, stopped, kills, mode>>

\* _stop_worker_processes has joined all, then the last sweep
FinalSweep ==
  /\ supervisor = "drain" /\ mode = "process" /\ Known \cap alive = {}
  /\ supervisor' = "final"
  /\ Collect("main", Marked)
  /\ UNCHANGED <<attemptVars, executors, starts, slot, stopped, kills, mode>>

Stopped ==
  /\ \/ supervisor = "final" /\ ~Scanning("main")
     \/ supervisor = "drain" /\ mode = "thread" /\ alive = {}
  /\ supervisor' = "stopped"
  /\ Abandon("loop")          \* a daemon thread
  /\ UNCHANGED <<dir, old, attemptVars, mode, executors, starts, slot, stopped, kills>>

\* SIGKILL of the supervisor alone: in process mode its children live on.
Killed ==
  /\ supervisor \notin {"down", "stopped"} /\ mode \in KillModes /\ kills < MaxKills
  /\ kills' = kills + 1
  /\ supervisor' = "down"
  /\ stopped' = "no"
  /\ executors' = [s \in Slots |-> NoStart]
  /\ alive' = IF mode = "thread" THEN {} ELSE alive
  /\ doomed' = [c \in Collectors |-> {}]
  /\ removing' = [c \in Collectors |-> NoAttempt]
  /\ UNCHANGED <<dir, old, attempt, owner, mode, starts, slot>>

-----------------------------------------------------------------------------
AttemptStep(w) == MakeDirectory(w) \/ WriteMarker(w) \/ Cleanup(w)
ScanStep(c) == (\E w \in Attempts : ReadMarker(c, w)) \/ RemoveTree(c) \/ RemoveFails(c)

SupervisorStep ==
  \/ Start \/ StartExecutors \/ StartReplacement \/ RecordReplacement
  \/ \E s \in Slots : ExecutorFoundDead(s)
  \/ FinalSweep \/ Stopped

\* The supervisor has stopped and nobody starts another.
Ended == supervisor = "stopped" /\ UNCHANGED vars

Next ==
  \/ \E w \in Attempts : AttemptStep(w) \/ Age(w)
  \/ \E p \in Process : Die(p) \/ ExecutorStops(p)
  \/ \E c \in Collectors : ScanStep(c)
  \/ SupervisorStep \/ LoopBegins \/ Stop \/ Killed \/ Ended

Spec == Init /\ [][Next]_vars

\* Everything that has begun goes on, and time passes; nobody need die or stop.
Fairness ==
  /\ \A w \in Attempts : WF_vars(AttemptStep(w)) /\ WF_vars(Age(w))
  /\ \A c \in Collectors : WF_vars(ScanStep(c))
  /\ \A p \in Process : WF_vars(ExecutorStops(p))
  /\ WF_vars(SupervisorStep) /\ WF_vars(LoopBegins)

FairSpec == Spec /\ Fairness

-----------------------------------------------------------------------------
\* Properties

\* No collector removes the workspace of an attempt that is still running, however
\* old it is and whatever executors die and are replaced meanwhile: the attempt
\* would take missing files for deleted ones and publish that.
RunningWorkspaceKept ==
  \A w \in Attempts : attempt[w] = "running" /\ owner[w] \in alive => dir[w] = "marked"

\* When a supervisor in process mode has stopped on a signal, no marked workspace is
\* left behind.
StoppedIsSwept ==
  supervisor = "stopped" /\ stopped = "signal" /\ mode = "process" => Marked = {}

\* The workspace an executor left when it died is removed in the end, unless the
\* supervisor stops on an error, or in thread mode, where nothing is swept at the end.
AbandonedIsCollected ==
  \A w \in Attempts :
    dir[w] = "marked" /\ owner[w] \notin alive ~>
      \/ dir[w] = "gone"
      \/ supervisor = "stopped" /\ (stopped = "error" \/ mode = "thread")
=============================================================================
