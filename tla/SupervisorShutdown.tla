-------------------------- MODULE SupervisorShutdown --------------------------
(***************************************************************************)
(* Process mode from the supervisor's loop to the end of the shutdown      *)
(* (supervisor.py, the finally block of _run_worker_supervisor_locked and  *)
(* _stop_worker_processes): who tells whom to stop, who waits for whom.    *)
(*                                                                         *)
(* Of the broker's threads this module keeps what a shutdown depends on: a *)
(* thread has a polled job, leases a slot and sends, waits, and returns.   *)
(* How slots are leased among threads is ProcessDispatch.                  *)
(*                                                                         *)
(* The supervisor holds both ends of every current pipe, so during a       *)
(* shutdown no process ever reads an end of file from one.                 *)
(***************************************************************************)
EXTENDS Naturals, Sequences, FiniteSets

CONSTANTS
  JobCount,       \* tasks Conductor may hand out
  SlotCount,      \* executor processes, and worker threads of the broker
  Deadlines,      \* is PERAGO_SHUTDOWN_FORCE_KILL_AFTER set? one of these
  MaxGeneration,  \* bound: processes started per slot
  MaxFences,      \* bound: attempt fences per job (two in the workspace flow)
  MaxCrashes      \* bound: children killed from outside

ASSUME ShutdownAssumption ==
  /\ JobCount \in Nat
  /\ SlotCount \in Nat \ {0}
  /\ Deadlines \subseteq BOOLEAN
  /\ MaxGeneration \in Nat \ {0}
  /\ MaxFences \in Nat
  /\ MaxCrashes \in Nat

Slots == 1..SlotCount
NoSlot == 0
Jobs == 1..JobCount            \* named in the order they are polled
NoJob == 0
Stop == 0                      \* the StopProcessExecutor sentinel among jobs in a pipe

VARIABLES
  forceKill,   \* the supervisor has a drain deadline
  stop,        \* the supervisor's stop event
  supervisor,  \* [at, slot]: where the supervisor is, and its slot
  told,        \* told[s]: [gen, up] after the last event put for slot s
  known,       \* known[s]: the same in the broker, once it drained the event
  broker,      \* state of the broker process
  job,         \* job[j]: [at, slot, gen], how far its broker thread is
  executor,    \* executor[s]: [state, job, gen, fences]
  signalled,   \* slots whose process has seen SIGTERM or SIGINT
  pipe,        \* pipe[s]: what the current process of s has not read yet
  completed,   \* jobs whose completion is in a pipe
  ran,         \* jobs whose run ended in an executor (history)
  crashes,     \* children killed from outside (history)
  killed       \* the drain deadline was used (history)

processVars == <<executor, signalled, pipe>>
brokerVars == <<known, broker, job>>
historyVars == <<ran, crashes, killed>>
vars == <<forceKill, stop, supervisor, told, known, broker, job, executor, signalled, pipe,
          completed, ran, crashes, killed>>

Gone == {"exited", "dead"}      \* returned from main, or killed
Busy == {"running", "fence"}

TypeOK ==
  /\ forceKill \in Deadlines
  /\ stop \in BOOLEAN
  /\ supervisor \in [at : {"watch", "backoff", "send", "terminate", "join", "kill", "sweep",
                           "stopped"}, slot : Slots \cup {NoSlot}]
  /\ told \in [Slots -> [gen : 1..MaxGeneration, up : BOOLEAN]]
  /\ known \in [Slots -> [gen : 1..MaxGeneration, up : BOOLEAN]]
  /\ broker \in {"polling", "stopping"} \cup Gone
  /\ job \in [Jobs -> [at : {"queued", "lease", "wait", "COMPLETED", "FAILED"},
                       slot : Slots \cup {NoSlot}, gen : 0..MaxGeneration]]
  /\ executor \in [Slots -> [state : {"idle"} \cup Busy \cup Gone, job : Jobs \cup {NoJob},
                             gen : 1..MaxGeneration, fences : 0..MaxFences]]
  /\ signalled \subseteq Slots
  /\ pipe \in [Slots -> Seq(Jobs \cup {Stop})]
  /\ completed \subseteq Jobs /\ ran \subseteq Jobs
  /\ crashes \in 0..MaxCrashes
  /\ killed \in BOOLEAN

Fresh(g) == [state |-> "idle", job |-> NoJob, gen |-> g, fences |-> 0]

Init ==
  /\ forceKill \in Deadlines
  /\ stop = FALSE
  /\ supervisor = [at |-> "watch", slot |-> NoSlot]
  /\ told = [s \in Slots |-> [gen |-> 1, up |-> TRUE]]
  /\ known = told
  /\ broker = "polling"
  /\ job = [j \in Jobs |-> [at |-> "queued", slot |-> NoSlot, gen |-> 0]]
  /\ executor = [s \in Slots |-> Fresh(1)]
  /\ signalled = {}
  /\ pipe = [s \in Slots |-> <<>>]
  /\ completed = {} /\ ran = {}
  /\ crashes = 0
  /\ killed = FALSE

-----------------------------------------------------------------------------
\* Helpers

Goto(at, s) == supervisor' = [at |-> at, slot |-> s]
BrokerAlive == broker \notin Gone
Alive(s) == executor[s].state \notin Gone
InHand == {j \in Jobs : job[j].at \in {"lease", "wait"}}
Return(j, status) == job' = [job EXCEPT ![j].at = status]
Leave(s, state) == executor' = [executor EXCEPT ![s].state = state]

-----------------------------------------------------------------------------
\* The operating system and the operator

\* A child has not begun its work, and may not have installed its own handler.
ExecutorStarting(s) ==
  /\ executor[s] = Fresh(executor[s].gen)
  /\ \A j \in ran : job[j].slot # s \/ job[j].gen # executor[s].gen
BrokerStarting == broker = "polling" /\ \A j \in Jobs : job[j].at = "queued"

\* SIGTERM or SIGINT, to the supervisor alone or, from a terminal or a service
\* manager, to all its processes at once. A forked executor without a handler of its
\* own runs the supervisor's, which sets the shared stop event and nothing else (so
\* does a signal to that executor alone); the broker is forked before the supervisor
\* installs its handlers, and the default action ends it.
Signal ==
  /\ ~stop /\ supervisor.at \in {"watch", "backoff"}
  /\ stop' = TRUE
  /\ \/ UNCHANGED <<signalled, broker>>
     \/ /\ \E missed \in SUBSET {s \in Slots : ExecutorStarting(s)} :
             signalled' = {s \in Slots : Alive(s)} \ missed
        /\ \/ broker' = IF broker = "polling" THEN "stopping" ELSE broker
           \/ BrokerStarting /\ broker' = "dead"
  /\ UNCHANGED <<forceKill, supervisor, told, known, job, executor, pipe, completed, historyVars>>

CrashExecutor(s) ==
  /\ crashes < MaxCrashes /\ Alive(s)
  /\ Leave(s, "dead")
  /\ crashes' = crashes + 1
  /\ UNCHANGED <<forceKill, stop, supervisor, told, brokerVars, signalled, pipe, completed, ran,
                 killed>>

CrashBroker ==
  /\ crashes < MaxCrashes /\ BrokerAlive
  /\ broker' = "dead"
  /\ crashes' = crashes + 1
  /\ UNCHANGED <<forceKill, stop, supervisor, told, known, job, processVars, completed, ran, killed>>

-----------------------------------------------------------------------------
\* The broker: runner.run() and its worker threads

Poll(j) ==
  /\ broker = "polling" /\ Cardinality(InHand) < SlotCount
  /\ \A i \in Jobs : job[i].at = "queued" <=> i >= j
  /\ job' = [job EXCEPT ![j].at = "lease"]
  /\ UNCHANGED <<forceKill, stop, supervisor, told, known, broker, processVars, completed, historyVars>>

\* _drain_executor_events, by any thread in _lease_slot or _wait_for_completion
Drain ==
  /\ BrokerAlive /\ InHand # {} /\ known # told
  /\ known' = told
  /\ UNCHANGED <<forceKill, stop, supervisor, told, broker, job, processVars, completed, historyVars>>

\* _lease_slot and connection.send: the assignment goes behind whatever is in the
\* pipe; the pipe of an earlier process has no reader.
LeaseAndSend(j, s) ==
  /\ BrokerAlive /\ job[j].at = "lease"
  /\ known[s].up /\ \A i \in Jobs : job[i].at = "wait" => job[i].slot # s
  /\ job' = [job EXCEPT ![j] = [at |-> "wait", slot |-> s, gen |-> known[s].gen]]
  /\ pipe' = IF executor[s].gen = known[s].gen
             THEN [pipe EXCEPT ![s] = Append(@, j)] ELSE pipe
  /\ UNCHANGED <<forceKill, stop, supervisor, told, known, broker, executor, signalled, completed,
                 historyVars>>

\* _drain_attempt_fence_requests: only a thread that waits answers
ServeFence(s) ==
  /\ BrokerAlive /\ \E j \in Jobs : job[j].at = "wait"
  /\ executor[s].state = "fence"
  /\ Leave(s, "running")
  /\ UNCHANGED <<forceKill, stop, supervisor, told, brokerVars, signalled, pipe, completed, historyVars>>

\* _slot_generation_exited
LearnExit(j) ==
  /\ BrokerAlive /\ job[j].at = "wait"
  /\ LET view == known[job[j].slot] IN ~view.up \/ view.gen # job[j].gen
  /\ Return(j, "FAILED")
  /\ UNCHANGED <<forceKill, stop, supervisor, told, known, broker, processVars, completed, historyVars>>

Receive(j) ==
  /\ BrokerAlive /\ job[j].at = "wait"
  /\ j \in completed
  /\ completed' = completed \ {j}
  /\ Return(j, "COMPLETED")
  /\ UNCHANGED <<forceKill, stop, supervisor, told, known, broker, processVars, historyVars>>

\* runner.run() has returned, and the interpreter has joined the pool's threads
BrokerExits ==
  /\ broker = "stopping" /\ InHand = {}
  /\ broker' = "exited"
  /\ UNCHANGED <<forceKill, stop, supervisor, told, known, job, processVars, completed, historyVars>>

-----------------------------------------------------------------------------
\* Executors: run_process_executor_loop

\* The loop's condition, looked at between two tasks only
SeeSignal(s) ==
  /\ executor[s].state = "idle" /\ s \in signalled
  /\ Leave(s, "exited")
  /\ UNCHANGED <<forceKill, stop, supervisor, told, brokerVars, signalled, pipe, completed, historyVars>>

\* Mutant of ReadPipe: the sentinel is taken for an invalid assignment.
ReadPipePastStop(s) ==
  /\ executor[s].state = "idle" /\ pipe[s] # <<>>
  /\ pipe' = [pipe EXCEPT ![s] = Tail(@)]
  /\ IF Head(pipe[s]) = Stop THEN UNCHANGED executor
     ELSE executor' = [executor EXCEPT ![s] = [@ EXCEPT !.state = "running", !.fences = 0,
                                                        !.job = Head(pipe[s])]]
  /\ UNCHANGED <<forceKill, stop, supervisor, told, brokerVars, signalled, completed, historyVars>>

ReadPipe(s) ==
  /\ executor[s].state = "idle" /\ pipe[s] # <<>>
  /\ pipe' = [pipe EXCEPT ![s] = Tail(@)]
  /\ IF Head(pipe[s]) = Stop THEN Leave(s, "exited")
     ELSE executor' = [executor EXCEPT ![s] = [@ EXCEPT !.state = "running", !.fences = 0,
                                                        !.job = Head(pipe[s])]]
  /\ UNCHANGED <<forceKill, stop, supervisor, told, brokerVars, signalled, completed, historyVars>>

\* load_current_attempt_via_broker: blocks in response_queue.get()
RequestFence(s) ==
  /\ executor[s].state = "running" /\ executor[s].fences < MaxFences
  /\ executor' = [executor EXCEPT ![s].state = "fence", ![s].fences = @ + 1]
  /\ UNCHANGED <<forceKill, stop, supervisor, told, brokerVars, signalled, pipe, completed, historyVars>>

\* execute_polled_task returns a result, and it is sent
Finish(s) ==
  /\ executor[s].state = "running"
  /\ executor' = [executor EXCEPT ![s].state = "idle", ![s].job = NoJob]
  /\ completed' = completed \cup {executor[s].job}
  /\ ran' = ran \cup {executor[s].job}
  /\ UNCHANGED <<forceKill, stop, supervisor, told, brokerVars, signalled, pipe, crashes, killed>>

-----------------------------------------------------------------------------
\* The supervisor's loop

\* A dead executor: its exit event, targeted workspace collection, then the
\* backoff before a replacement
ReportExit(s) ==
  /\ supervisor.at = "watch" /\ ~Alive(s)
  /\ told' = [told EXCEPT ![s].up = FALSE]
  /\ Goto("backoff", s)
  /\ UNCHANGED <<forceKill, stop, brokerVars, processVars, completed, historyVars>>

\* Mutant of Replace: the new process inherits what the dead one had not read.
ReplaceKeepingPipe ==
  /\ supervisor.at = "backoff" /\ ~stop
  /\ LET s == supervisor.slot
         next == executor[s].gen + 1
     IN /\ next <= MaxGeneration
        /\ executor' = [executor EXCEPT ![s] = Fresh(next)]
        /\ signalled' = signalled \ {s}
        /\ told' = [told EXCEPT ![s] = [gen |-> next, up |-> TRUE]]
  /\ Goto("watch", NoSlot)
  /\ UNCHANGED <<forceKill, stop, brokerVars, pipe, completed, historyVars>>

Replace ==
  /\ supervisor.at = "backoff" /\ ~stop
  /\ LET s == supervisor.slot
         next == executor[s].gen + 1
     IN /\ next <= MaxGeneration
        /\ executor' = [executor EXCEPT ![s] = Fresh(next)]
        /\ signalled' = signalled \ {s}
        /\ pipe' = [pipe EXCEPT ![s] = <<>>]
        /\ told' = [told EXCEPT ![s] = [gen |-> next, up |-> TRUE]]
  /\ Goto("watch", NoSlot)
  /\ UNCHANGED <<forceKill, stop, brokerVars, completed, historyVars>>

\* Mutant of LoopEnds: a stop that arrives during a backoff goes unnoticed.
LoopEndsWatching ==
  /\ supervisor.at = "watch" /\ (stop \/ ~BrokerAlive)
  /\ stop' = TRUE
  /\ Goto("send", 1)
  /\ UNCHANGED <<forceKill, told, brokerVars, processVars, completed, historyVars>>

\* The loop ends: stop is set, also during a backoff, or the broker is gone.
LoopEnds ==
  /\ \/ supervisor.at = "watch" /\ (stop \/ ~BrokerAlive)
     \/ supervisor.at = "backoff" /\ stop
  /\ stop' = TRUE
  /\ Goto("send", 1)
  /\ UNCHANGED <<forceKill, told, brokerVars, processVars, completed, historyVars>>

-----------------------------------------------------------------------------
\* The supervisor's shutdown

\* The sentinel for each slot in turn; errors of dead pipes are ignored.
SendStop ==
  /\ supervisor.at = "send"
  /\ LET s == supervisor.slot
     IN /\ pipe' = IF Alive(s) THEN [pipe EXCEPT ![s] = Append(@, Stop)] ELSE pipe
        /\ IF s < SlotCount THEN Goto("send", s + 1) ELSE Goto("terminate", NoSlot)
  /\ UNCHANGED <<forceKill, stop, told, brokerVars, executor, signalled, completed, historyVars>>

\* Mutant of TerminateBroker: SIGTERM has no handler in the broker.
KillBroker ==
  /\ supervisor.at = "terminate"
  /\ broker' = IF BrokerAlive THEN "dead" ELSE broker
  /\ Goto("join", NoSlot)
  /\ UNCHANGED <<forceKill, stop, told, known, job, processVars, completed, historyVars>>

\* broker.terminate(): its handler stops the polling, if it has installed one
TerminateBroker ==
  /\ supervisor.at = "terminate"
  /\ \/ broker' = IF broker = "polling" THEN "stopping" ELSE broker
     \/ BrokerStarting /\ broker' = "dead"
  /\ Goto("join", NoSlot)
  /\ UNCHANGED <<forceKill, stop, told, known, job, processVars, completed, historyVars>>

Joined ==
  /\ supervisor.at = "join"
  /\ ~BrokerAlive /\ \A s \in Slots : ~Alive(s)
  /\ Goto("sweep", NoSlot)
  /\ UNCHANGED <<forceKill, stop, told, brokerVars, processVars, completed, historyVars>>

\* Each join has timed out
Deadline ==
  /\ supervisor.at = "join" /\ forceKill
  /\ Goto("kill", NoSlot)
  /\ killed' = TRUE
  /\ UNCHANGED <<forceKill, stop, told, brokerVars, processVars, completed, ran, crashes>>

\* process.kill() for whoever is still alive
Kill ==
  /\ supervisor.at = "kill"
  /\ \/ BrokerAlive /\ broker' = "dead" /\ UNCHANGED executor
     \/ \E s \in Slots : Alive(s) /\ Leave(s, "dead") /\ UNCHANGED broker
  /\ UNCHANGED <<forceKill, stop, supervisor, told, known, job, signalled, pipe, completed, historyVars>>

\* Mutant of AllKilled: only the broker is waited for.
BrokerKilled ==
  /\ supervisor.at = "kill" /\ ~BrokerAlive
  /\ Goto("sweep", NoSlot)
  /\ UNCHANGED <<forceKill, stop, told, brokerVars, processVars, completed, historyVars>>

AllKilled ==
  /\ supervisor.at = "kill"
  /\ ~BrokerAlive /\ \A s \in Slots : ~Alive(s)
  /\ Goto("sweep", NoSlot)
  /\ UNCHANGED <<forceKill, stop, told, brokerVars, processVars, completed, historyVars>>

\* The final workspace sweep
Sweep ==
  /\ supervisor.at = "sweep"
  /\ Goto("stopped", NoSlot)
  /\ UNCHANGED <<forceKill, stop, told, brokerVars, processVars, completed, historyVars>>

\* Everything has come to rest.
Ended == supervisor.at = "stopped" /\ UNCHANGED vars

BrokerNext ==
  \/ \E j \in Jobs : Poll(j) \/ LearnExit(j) \/ Receive(j)
  \/ \E j \in Jobs, s \in Slots : LeaseAndSend(j, s)
  \/ Drain \/ BrokerExits
  \/ \E s \in Slots : ServeFence(s)

ExecutorNext(s) == SeeSignal(s) \/ ReadPipe(s) \/ RequestFence(s) \/ Finish(s)

SupervisorNext ==
  \/ \E s \in Slots : ReportExit(s)
  \/ Replace \/ LoopEnds \/ SendStop \/ TerminateBroker
  \/ Joined \/ Deadline \/ Kill \/ AllKilled \/ Sweep

Next ==
  \/ Signal \/ CrashBroker
  \/ \E s \in Slots : CrashExecutor(s)
  \/ BrokerNext
  \/ \E s \in Slots : ExecutorNext(s)
  \/ SupervisorNext
  \/ Ended

Spec == Init /\ [][Next]_vars

\* Threads and processes are scheduled, a task's run ends, and a join returns at
\* its deadline. Nobody has to send a signal, Conductor need not have tasks.
FairSpec ==
  /\ Spec
  /\ \A j \in Jobs : WF_vars(LearnExit(j)) /\ WF_vars(Receive(j))
  /\ \A j \in Jobs : WF_vars(\E s \in Slots : LeaseAndSend(j, s))
  /\ WF_vars(Drain) /\ WF_vars(BrokerExits)
  /\ \A s \in Slots : WF_vars(ServeFence(s)) /\ WF_vars(SeeSignal(s)) /\ WF_vars(ReadPipe(s))
                      /\ WF_vars(Finish(s))
  /\ WF_vars(SupervisorNext)

-----------------------------------------------------------------------------
\* Properties

\* The final sweep runs with ttl 0: it removes every marked workspace, whoever
\* works in it. When it runs, no child of the supervisor is left, after a drain
\* (join) as after the deadline (kill, join).
SweepFindsNobody ==
  supervisor.at \in {"sweep", "stopped"} => ~BrokerAlive /\ \A s \in Slots : ~Alive(s)

\* A drain without a crash loses no work: when the supervisor stops without
\* having used its deadline, every task an executor has run is reported to
\* Conductor as COMPLETED, however the stop came between its steps. The one
\* exception is an executor whose exit the supervisor's loop still reported: the
\* broker looks at exits before it looks into the pipe.
NoWorkLost ==
  supervisor.at = "stopped" /\ crashes = 0 /\ ~killed =>
    \A j \in ran : job[j].at = "COMPLETED" \/ ~told[job[j].slot].up
                                            \/ told[job[j].slot].gen # job[j].gen

\* With a drain deadline the runtime stops, whatever crashed before or meanwhile.
DeadlineEnds == forceKill /\ stop ~> supervisor.at = "stopped"

\* A job of the broker that nothing can end: its executor is gone without a word
\* to the broker, or no slot is left to lease.
Stranded(j) ==
  \/ /\ job[j].at = "wait" /\ j \notin completed
     /\ LET s == job[j].slot IN executor[s].gen = job[j].gen /\ ~Alive(s) /\ told[s].up
  \/ job[j].at = "lease" /\ \A s \in Slots : ~told[s].up

\* Without a deadline a shutdown can hang in two ways only: a job is stranded,
\* or a child crashed.
DrainEnds ==
  [](crashes = 0 /\ \A j \in Jobs : ~Stranded(j)) => (stop ~> supervisor.at = "stopped")

\* docs/runtime/worker-processes.md:109: after a stop signal "supervisor 等待 child
\* 自然退出，然后做一次最终 workspace GC sweep": it waits for its children to exit,
\* then sweeps.
ShutdownEnds == stop ~> supervisor.at = "stopped"

-----------------------------------------------------------------------------
\* Refinement: the attempts' way through the processes

Elements(q) == {q[i] : i \in 1..Len(q)}

Polled == {j \in Jobs : job[j].at # "queued"}
Unassigned == {j \in Jobs : job[j].at = "lease"}
Inbox(s) == IF Alive(s) THEN Elements(pipe[s]) \ {Stop} ELSE {}
Running(s) == IF Alive(s) THEN executor[s].job ELSE NoJob
Result(j) == IF j \in ran THEN "COMPLETED" ELSE "none"
Heard(j) == IF job[j].at \in {"COMPLETED", "FAILED"} THEN job[j].at ELSE "none"

Delivery == INSTANCE AttemptDelivery WITH
  Attempts <- Jobs, Places <- Slots, NoAttempt <- NoJob,
  polled <- Polled, waiting <- Unassigned,
  inbox <- [s \in Slots |-> Inbox(s)], running <- [s \in Slots |-> Running(s)],
  result <- [j \in Jobs |-> Result(j)], report <- [j \in Jobs |-> Heard(j)]

\* However a stop, signals, crashes, replacements, sentinels and the deadline fall
\* between the steps of an attempt, it is handed to one process at most and run once
\* at most, and Conductor hears of it once: COMPLETED of its own run, or FAILED when
\* no live executor has it or will.
DeliverySpec == Delivery!Spec
=============================================================================
