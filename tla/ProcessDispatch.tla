-------------------------- MODULE ProcessDispatch --------------------------
(***************************************************************************)
(* Process mode: the broker's threads (conductor_runtime/workers.py,       *)
(* PeragoProcessDispatchWorker) lease executor slots and exchange          *)
(* assignments and completions with executor processes                     *)
(* (process_executor.py) over one pipe per process; the supervisor         *)
(* (supervisor.py) reports executors that died and starts replacements.    *)
(*                                                                         *)
(* A thread's step is one critical section of _slot_lock, one operation on *)
(* a queue or a pipe, or one call to Conductor.                            *)
(***************************************************************************)
EXTENDS Naturals, Sequences

CONSTANTS
  Threads,        \* worker threads of the broker's SDK TaskRunner
  SlotCount,      \* executor processes; slots are numbered from 1
  Jobs,           \* calls of execute: an attempt with its own execution id
  MaxGeneration,  \* bound: processes started per slot
  MaxFences,      \* bound: attempt fences per job (two in the workspace flow)
  LockMayLeak     \* a process killed inside response_queue.get() keeps the
                  \* queue's reader lock for ever

NoJob == "no job"

ASSUME DispatchAssumption ==
  /\ NoJob \notin Jobs
  /\ SlotCount \in Nat \ {0}
  /\ MaxGeneration \in Nat \ {0}
  /\ MaxFences \in Nat
  /\ LockMayLeak \in BOOLEAN

Slots == 1..SlotCount
Generations == 1..MaxGeneration
None == 0                       \* no connection, generation or slot

VARIABLES
  \* PeragoProcessDispatchWorker, shared by the threads
  connection,  \* connection[s]: generation of the pipe in slot s, or None
  generation,  \* generation[s]
  exited,      \* exited[s]: slot.exited_generation
  queue,       \* _available_slots
  available,   \* _available_worker_ids
  busy,        \* _busy_worker_ids
  \* multiprocessing queues and pipes
  events,      \* executor_event_queue
  requests,    \* attempt_fence_request_queue
  responses,   \* responses[s]: attempt_fence_response_queues
  toExecutor,  \* toExecutor[s][g]: assignments in the pipe of generation g
  toBroker,    \* toBroker[s][g]: completions in it
  \* threads
  pc,          \* pc[th]: where the thread is in execute
  job,         \* job[th]: the attempt it executes
  lease,       \* lease[th]: slot and generation it leased, or is about to
  held,        \* held[th]: queue item it took and has not handled yet
  \* executor processes and supervisor
  executor,    \* executor[s]: state of the slot's current process
  restarting,  \* the slot whose dead executor the supervisor is replacing
  stuck,       \* slots whose response queue's reader lock has leaked
  \* results
  outcome,     \* outcome[j]: what execute returned to the SDK for j
  executed     \* executed[j]: the result j ended with in an executor (history)

slotVars == <<connection, generation, exited, queue, available, busy>>
pipeVars == <<toExecutor, toBroker>>
fenceVars == <<requests, responses>>
threadVars == <<pc, job, lease, held>>
processVars == <<executor, restarting, stuck>>
resultVars == <<outcome, executed>>
vars == <<connection, generation, exited, queue, available, busy, events, requests,
          responses, toExecutor, toBroker, pc, job, lease, held, executor, restarting,
          stuck, outcome, executed>>

Draining == {"drain lease", "drain wait", "drain release"}
PC == Draining \cup {"idle", "get", "lock", "send", "fence", "serve", "check", "poll",
                     "recv", "release"}

Event == [kind : {"exited", "started"}, slot : Slots, gen : Generations]
Request == [slot : Slots, job : Jobs, n : 1..MaxFences]
Response == [job : Jobs, n : 1..MaxFences, ok : BOOLEAN]
Completion == [job : Jobs, status : {"COMPLETED", "FAILED"}]
NoItem == [kind |-> "none"]
NoLease == [slot |-> None, gen |-> None]

TypeOK ==
  /\ connection \in [Slots -> Generations \cup {None}]
  /\ generation \in [Slots -> Generations]
  /\ exited \in [Slots -> Generations \cup {None}]
  /\ queue \in Seq(Slots)
  /\ available \subseteq Slots
  /\ busy \subseteq Slots
  /\ events \in Seq(Event)
  /\ requests \in Seq(Request)
  /\ responses \in [Slots -> Seq(Response)]
  /\ toExecutor \in [Slots -> [Generations -> Seq(Jobs)]]
  /\ toBroker \in [Slots -> [Generations -> Seq(Completion)]]
  /\ pc \in [Threads -> PC]
  /\ job \in [Threads -> Jobs \cup {NoJob}]
  /\ lease \in [Threads -> [slot : Slots \cup {None}, gen : Generations \cup {None}]]
  /\ held \in [Threads -> Event \cup Request \cup {NoItem}]
  /\ executor \in [Slots -> [gen : Generations,
                             state : {"idle", "running", "fence", "dead"},
                             job : Jobs \cup {NoJob}, fences : 0..MaxFences]]
  /\ restarting \in Slots \cup {None}
  /\ stuck \subseteq Slots
  /\ outcome \in [Jobs -> {"none", "COMPLETED", "FAILED"}]
  /\ executed \in [Jobs -> {"none", "COMPLETED", "FAILED"}]

Init ==
  /\ connection = [s \in Slots |-> 1]
  /\ generation = [s \in Slots |-> 1]
  /\ exited = [s \in Slots |-> None]
  /\ queue = [s \in Slots |-> s]
  /\ available = Slots
  /\ busy = {}
  /\ events = <<>>
  /\ requests = <<>>
  /\ responses = [s \in Slots |-> <<>>]
  /\ toExecutor = [s \in Slots |-> [g \in Generations |-> <<>>]]
  /\ toBroker = [s \in Slots |-> [g \in Generations |-> <<>>]]
  /\ pc = [th \in Threads |-> "idle"]
  /\ job = [th \in Threads |-> NoJob]
  /\ lease = [th \in Threads |-> NoLease]
  /\ held = [th \in Threads |-> NoItem]
  /\ executor = [s \in Slots |-> [gen |-> 1, state |-> "idle", job |-> NoJob, fences |-> 0]]
  /\ restarting = None
  /\ stuck = {}
  /\ outcome = [j \in Jobs |-> "none"]
  /\ executed = outcome

-----------------------------------------------------------------------------
\* Helpers

Goto(th, p) == pc' = [pc EXCEPT ![th] = p]
Started(j) == outcome[j] # "none" \/ \E th \in Threads : job[th] = j
Alive(s, g) == executor[s].gen = g /\ executor[s].state # "dead"

\* _mark_slot_available_locked
MarkAvailable(s) ==
  /\ available' = available \cup {s}
  /\ queue' = IF s \in available THEN queue ELSE Append(queue, s)

\* The body of _mark_slot_exited and _handle_executor_exited: slot.generation is
\* compared first, so only the current process's end is recorded.
MarkExited(s, g) ==
  IF generation[s] = g
  THEN /\ connection' = [connection EXCEPT ![s] = None]
       /\ exited' = [exited EXCEPT ![s] = g]
       /\ available' = available \ {s}
       /\ busy' = busy \ {s}
       /\ UNCHANGED <<generation, queue>>
  ELSE UNCHANGED slotVars

\* execute has its result: leave the try block for _release_slot.
Return(th, status) ==
  /\ outcome' = [outcome EXCEPT ![job[th]] = status]
  /\ Goto(th, "drain release")

-----------------------------------------------------------------------------
\* Broker threads: _drain_executor_events, called from three places

TakeEvent(th) ==
  /\ pc[th] \in Draining /\ held[th] = NoItem /\ events # <<>>
  /\ held' = [held EXCEPT ![th] = Head(events)]
  /\ events' = Tail(events)
  /\ UNCHANGED <<slotVars, fenceVars, pipeVars, pc, job, lease, processVars, resultVars>>

HandleExited(th) ==
  /\ pc[th] \in Draining /\ held[th].kind = "exited"
  /\ MarkExited(held[th].slot, held[th].gen)
  /\ held' = [held EXCEPT ![th] = NoItem]
  /\ UNCHANGED <<events, fenceVars, pipeVars, pc, job, lease, processVars, resultVars>>

\* Mutant of HandleStarted: the slot becomes available only when it is released.
HandleStartedSilently(th) ==
  /\ pc[th] \in Draining /\ held[th].kind = "started"
  /\ LET s == held[th].slot
         g == held[th].gen
     IN IF g <= generation[s] THEN UNCHANGED slotVars
        ELSE /\ connection' = [connection EXCEPT ![s] = g]
             /\ generation' = [generation EXCEPT ![s] = g]
             /\ exited' = [exited EXCEPT ![s] = None]
             /\ UNCHANGED <<available, queue, busy>>
  /\ held' = [held EXCEPT ![th] = NoItem]
  /\ UNCHANGED <<events, fenceVars, pipeVars, pc, job, lease, processVars, resultVars>>

HandleStarted(th) ==
  /\ pc[th] \in Draining /\ held[th].kind = "started"
  /\ LET s == held[th].slot
         g == held[th].gen
     IN IF g <= generation[s] THEN UNCHANGED slotVars
        ELSE /\ connection' = [connection EXCEPT ![s] = g]
             /\ generation' = [generation EXCEPT ![s] = g]
             /\ exited' = [exited EXCEPT ![s] = None]
             /\ IF s \in busy THEN UNCHANGED <<available, queue>> ELSE MarkAvailable(s)
             /\ UNCHANGED busy
  /\ held' = [held EXCEPT ![th] = NoItem]
  /\ UNCHANGED <<events, fenceVars, pipeVars, pc, job, lease, processVars, resultVars>>

Drained(th) ==
  /\ pc[th] \in Draining /\ held[th] = NoItem /\ events = <<>>
  /\ Goto(th, CASE pc[th] = "drain lease" -> "get"
                [] pc[th] = "drain wait" -> "check"
                [] pc[th] = "drain release" -> "release")
  /\ UNCHANGED <<slotVars, events, fenceVars, pipeVars, job, lease, held, processVars, resultVars>>

-----------------------------------------------------------------------------
\* Broker threads: execute

Execute(th) ==
  /\ pc[th] = "idle"
  /\ \E j \in Jobs : ~Started(j) /\ job' = [job EXCEPT ![th] = j]
  /\ Goto(th, "drain lease")
  /\ UNCHANGED <<slotVars, events, fenceVars, pipeVars, lease, held, processVars, resultVars>>

\* _lease_slot: take a slot from the queue, or drain again after the timeout
GetSlot(th) ==
  /\ pc[th] = "get"
  /\ \/ /\ queue # <<>>
        /\ lease' = [lease EXCEPT ![th] = [slot |-> Head(queue), gen |-> None]]
        /\ queue' = Tail(queue)
        /\ Goto(th, "lock")
     \/ queue = <<>> /\ Goto(th, "drain lease") /\ UNCHANGED <<lease, queue>>
  /\ UNCHANGED <<connection, generation, exited, available, busy, events, fenceVars,
                 pipeVars, job, held, processVars, resultVars>>

LeaseSlot(th) ==
  /\ pc[th] = "lock"
  /\ LET s == lease[th].slot
     IN IF s \notin available \/ connection[s] = None
        THEN /\ lease' = [lease EXCEPT ![th] = NoLease]
             /\ Goto(th, "drain lease")
             /\ UNCHANGED <<available, busy>>
        ELSE /\ lease' = [lease EXCEPT ![th].gen = connection[s]]
             /\ available' = available \ {s}
             /\ busy' = busy \cup {s}
             /\ Goto(th, "send")
  /\ UNCHANGED <<connection, generation, exited, queue, events, fenceVars, pipeVars, job,
                 held, processVars, resultVars>>

\* connection.send: a dead process's pipe breaks, or still buffers the assignment
Send(th) ==
  /\ pc[th] = "send"
  /\ LET s == lease[th].slot
         g == lease[th].gen
     IN \/ /\ toExecutor' = [toExecutor EXCEPT ![s][g] = Append(@, job[th])]
           /\ Goto(th, "fence")
           /\ UNCHANGED <<slotVars, outcome>>
        \/ ~Alive(s, g) /\ MarkExited(s, g) /\ Return(th, "FAILED") /\ UNCHANGED toExecutor
  /\ UNCHANGED <<events, fenceVars, toBroker, job, lease, held, processVars, executed>>

\* _wait_for_completion, first _drain_attempt_fence_requests ...
TakeRequest(th) ==
  /\ pc[th] = "fence"
  /\ \/ /\ requests # <<>>
        /\ held' = [held EXCEPT ![th] = Head(requests)]
        /\ requests' = Tail(requests)
        /\ Goto(th, "serve")
     \/ requests = <<>> /\ Goto(th, "drain wait") /\ UNCHANGED <<held, requests>>
  /\ UNCHANGED <<slotVars, events, responses, pipeVars, job, lease, processVars, resultVars>>

\* ... each of which asks Conductor and answers in the worker's response queue
ServeRequest(th) ==
  /\ pc[th] = "serve"
  /\ \E ok \in BOOLEAN :
       responses' = [responses EXCEPT ![held[th].slot] =
                       Append(@, [job |-> held[th].job, n |-> held[th].n, ok |-> ok])]
  /\ held' = [held EXCEPT ![th] = NoItem]
  /\ Goto(th, "fence")
  /\ UNCHANGED <<slotVars, events, requests, pipeVars, job, lease, processVars, resultVars>>

\* Mutant of CheckExited: a replacement that has started hides the exit before it.
CheckExitedOnly(th) ==
  /\ pc[th] = "check"
  /\ IF exited[lease[th].slot] = lease[th].gen
     THEN Return(th, "FAILED")
     ELSE Goto(th, "poll") /\ UNCHANGED outcome
  /\ UNCHANGED <<slotVars, events, fenceVars, pipeVars, job, lease, held, processVars, executed>>

\* Mutant of CheckExited: the attempt of a dead executor is dispatched once more.
CheckExitedAndRetry(th) ==
  /\ pc[th] = "check"
  /\ IF exited[lease[th].slot] = lease[th].gen \/ generation[lease[th].slot] # lease[th].gen
     THEN Goto(th, "drain lease") /\ lease' = [lease EXCEPT ![th] = NoLease]
     ELSE Goto(th, "poll") /\ UNCHANGED lease
  /\ UNCHANGED <<slotVars, events, fenceVars, pipeVars, job, held, processVars, resultVars>>

\* _slot_generation_exited
CheckExited(th) ==
  /\ pc[th] = "check"
  /\ LET s == lease[th].slot
         g == lease[th].gen
     IN IF exited[s] = g \/ generation[s] # g
        THEN Return(th, "FAILED")
        ELSE Goto(th, "poll") /\ UNCHANGED outcome
  /\ UNCHANGED <<slotVars, events, fenceVars, pipeVars, job, lease, held, processVars, executed>>

\* Mutant of BrokenPipe: a completion that takes too long counts as a broken pipe.
SlowPipe(th) ==
  /\ toBroker[lease[th].slot][lease[th].gen] = <<>>
  /\ MarkExited(lease[th].slot, lease[th].gen)
  /\ Return(th, "FAILED")

BrokenPipe(th) ==
  /\ toBroker[lease[th].slot][lease[th].gen] = <<>>
  /\ ~Alive(lease[th].slot, lease[th].gen)
  /\ MarkExited(lease[th].slot, lease[th].gen)
  /\ Return(th, "FAILED")

\* connection.poll(timeout)
PollPipe(th) ==
  /\ pc[th] = "poll"
  /\ \/ /\ toBroker[lease[th].slot][lease[th].gen] # <<>>
        /\ Goto(th, "recv")
        /\ UNCHANGED <<slotVars, outcome>>
     \/ /\ toBroker[lease[th].slot][lease[th].gen] = <<>>
        /\ Goto(th, "fence")
        /\ UNCHANGED <<slotVars, outcome>>
     \/ BrokenPipe(th)
  /\ UNCHANGED <<events, fenceVars, pipeVars, job, lease, held, processVars, executed>>

\* Mutant of Recv: any completion is taken for the thread's own.
RecvAny(th) ==
  /\ pc[th] = "recv"
  /\ LET s == lease[th].slot
         g == lease[th].gen
     IN /\ toBroker[s][g] # <<>>
        /\ toBroker' = [toBroker EXCEPT ![s][g] = Tail(@)]
        /\ Return(th, Head(toBroker[s][g]).status)
  /\ UNCHANGED <<slotVars, events, fenceVars, toExecutor, job, lease, held, processVars, executed>>

\* connection.recv and the checks of task_id and execution_id
Recv(th) ==
  /\ pc[th] = "recv"
  /\ LET s == lease[th].slot
         g == lease[th].gen
     IN \/ /\ toBroker[s][g] # <<>>
           /\ toBroker' = [toBroker EXCEPT ![s][g] = Tail(@)]
           /\ LET completion == Head(toBroker[s][g])
              IN Return(th, IF completion.job = job[th] THEN completion.status ELSE "FAILED")
           /\ UNCHANGED slotVars
        \/ BrokenPipe(th) /\ UNCHANGED toBroker
  /\ UNCHANGED <<events, fenceVars, toExecutor, job, lease, held, processVars, executed>>

\* _release_slot
Release(th) ==
  /\ pc[th] = "release"
  /\ LET s == lease[th].slot
     IN /\ busy' = busy \ {s}
        /\ IF connection[s] # None THEN MarkAvailable(s) ELSE UNCHANGED <<available, queue>>
  /\ job' = [job EXCEPT ![th] = NoJob]
  /\ lease' = [lease EXCEPT ![th] = NoLease]
  /\ Goto(th, "idle")
  /\ UNCHANGED <<connection, generation, exited, events, fenceVars, pipeVars, held,
                 processVars, resultVars>>

-----------------------------------------------------------------------------
\* Executor processes

SetExecutor(s, state, j, n) ==
  executor' = [executor EXCEPT ![s] = [gen |-> @.gen, state |-> state, job |-> j, fences |-> n]]

Complete(s, status) ==
  /\ toBroker' = [toBroker EXCEPT ![s][executor[s].gen] =
                    Append(@, [job |-> executor[s].job, status |-> status])]
  /\ executed' = [executed EXCEPT ![executor[s].job] = status]
  /\ SetExecutor(s, "idle", NoJob, 0)

ReceiveAssignment(s) ==
  /\ executor[s].state = "idle"
  /\ toExecutor[s][executor[s].gen] # <<>>
  /\ SetExecutor(s, "running", Head(toExecutor[s][executor[s].gen]), 0)
  /\ toExecutor' = [toExecutor EXCEPT ![s][executor[s].gen] = Tail(@)]
  /\ UNCHANGED <<slotVars, events, fenceVars, toBroker, threadVars, restarting, stuck, resultVars>>

\* load_current_attempt_via_broker: put the request, then block on the response
RequestSnapshot(s) ==
  /\ executor[s].state = "running" /\ executor[s].fences < MaxFences
  /\ LET n == executor[s].fences + 1
     IN /\ requests' = Append(requests, [slot |-> s, job |-> executor[s].job, n |-> n])
        /\ SetExecutor(s, "fence", executor[s].job, n)
  /\ UNCHANGED <<slotVars, events, responses, pipeVars, threadVars, restarting, stuck, resultVars>>

\* Mutant of GetSnapshot: the response's task id is not checked.
GetAnySnapshot(s) ==
  /\ executor[s].state = "fence" /\ s \notin stuck /\ responses[s] # <<>>
  /\ responses' = [responses EXCEPT ![s] = Tail(@)]
  /\ IF Head(responses[s]).ok
     THEN SetExecutor(s, "running", executor[s].job, executor[s].fences)
          /\ UNCHANGED <<toBroker, executed>>
     ELSE Complete(s, "FAILED")
  /\ UNCHANGED <<slotVars, events, requests, toExecutor, threadVars, restarting, stuck, outcome>>

GetSnapshot(s) ==
  /\ executor[s].state = "fence" /\ s \notin stuck /\ responses[s] # <<>>
  /\ responses' = [responses EXCEPT ![s] = Tail(@)]
  /\ LET response == Head(responses[s])
     IN \/ /\ response.job = executor[s].job /\ response.ok
           /\ SetExecutor(s, "running", executor[s].job, executor[s].fences)
           /\ UNCHANGED <<toBroker, executed>>
        \/ /\ response.job # executor[s].job \/ ~response.ok
           /\ Complete(s, "FAILED")
  /\ UNCHANGED <<slotVars, events, requests, toExecutor, threadVars, restarting, stuck, outcome>>

\* execute_polled_task returns and the completion goes into the pipe
FinishTask(s) ==
  /\ executor[s].state = "running"
  /\ \E status \in {"COMPLETED", "FAILED"} : Complete(s, status)
  /\ UNCHANGED <<slotVars, events, fenceVars, toExecutor, threadVars, restarting, stuck, outcome>>

\* The process is killed or crashes.
Die(s) ==
  /\ executor[s].state # "dead" /\ executor[s].gen < MaxGeneration
  /\ SetExecutor(s, "dead", NoJob, 0)
  /\ \/ UNCHANGED stuck
     \/ LockMayLeak /\ executor[s].state = "fence" /\ stuck' = stuck \cup {s}
  /\ UNCHANGED <<slotVars, events, fenceVars, pipeVars, threadVars, restarting, resultVars>>

-----------------------------------------------------------------------------
\* Supervisor: the restart loop of _run_worker_supervisor_locked

ReportExit(s) ==
  /\ restarting = None /\ executor[s].state = "dead"
  /\ events' = Append(events, [kind |-> "exited", slot |-> s, gen |-> executor[s].gen])
  /\ restarting' = s
  /\ UNCHANGED <<slotVars, fenceVars, pipeVars, threadVars, executor, stuck, resultVars>>

\* after the backoff: a new pipe and process for the same slot, then the event
StartReplacement(s) ==
  /\ restarting = s
  /\ LET g == executor[s].gen + 1
     IN /\ executor' = [executor EXCEPT ![s] =
                          [gen |-> g, state |-> "idle", job |-> NoJob, fences |-> 0]]
        /\ events' = Append(events, [kind |-> "started", slot |-> s, gen |-> g])
  /\ restarting' = None
  /\ UNCHANGED <<slotVars, fenceVars, pipeVars, threadVars, stuck, resultVars>>

-----------------------------------------------------------------------------
ThreadStep(th) ==
  \/ TakeEvent(th) \/ HandleExited(th) \/ HandleStarted(th) \/ Drained(th)
  \/ Execute(th) \/ GetSlot(th) \/ LeaseSlot(th) \/ Send(th)
  \/ TakeRequest(th) \/ ServeRequest(th) \/ CheckExited(th) \/ PollPipe(th) \/ Recv(th)
  \/ Release(th)

ExecutorStep(s) ==
  ReceiveAssignment(s) \/ RequestSnapshot(s) \/ GetSnapshot(s) \/ FinishTask(s)

SupervisorStep(s) == ReportExit(s) \/ StartReplacement(s)

\* All jobs have been executed; the broker waits for more.
Ended ==
  /\ \A j \in Jobs : outcome[j] # "none"
  /\ \A th \in Threads : pc[th] = "idle"
  /\ UNCHANGED vars

Next ==
  \/ \E th \in Threads : ThreadStep(th)
  \/ \E s \in Slots : ExecutorStep(s) \/ SupervisorStep(s) \/ Die(s)
  \/ Ended

Spec == Init /\ [][Next]_vars

\* Threads, processes and the supervisor keep running; tasks end.
Fairness ==
  /\ \A th \in Threads : WF_vars(ThreadStep(th))
  /\ \A s \in Slots : WF_vars(ExecutorStep(s)) /\ WF_vars(SupervisorStep(s))

FairSpec == Spec /\ Fairness

-----------------------------------------------------------------------------
\* Properties

Leased(th, s) == lease[th].slot = s /\ lease[th].gen # None

\* No executor slot is lost, in whatever order threads lease, release and apply
\* the supervisor's events: a slot with a pipe is available or some thread has
\* leased it, and an available slot is in the queue or about to be leased.
SlotNotLost ==
  \A s \in Slots :
    /\ connection[s] # None => s \in available \/ \E th \in Threads : Leased(th, s)
    /\ s \in available =>
         /\ connection[s] = generation[s]
         /\ \/ \E i \in 1..Len(queue) : queue[i] = s
            \/ \E th \in Threads : pc[th] = "lock" /\ lease[th].slot = s

\* Conductor hears COMPLETED of an attempt only if an executor completed that
\* very attempt, even when two threads read the same pipe.
OwnResultOnly == \A j \in Jobs : outcome[j] = "COMPLETED" => executed[j] = "COMPLETED"

\* The snapshot an executor takes for its attempt was loaded for the fence it
\* stands at, not for an earlier one: a response that is left over in the queue
\* never passes as fresh.
FreshSnapshotOnly ==
  \A s \in Slots :
    LET e == executor[s]
    IN e.state = "fence" /\ responses[s] # <<>> /\ Head(responses[s]).job = e.job =>
         Head(responses[s]).n = e.fences

\* When an attempt has been reported FAILED without its executor's word, no live
\* executor runs it, or will: Conductor's retry does not race it.
FailedMeansStopped ==
  \A j \in Jobs, s \in Slots :
    outcome[j] = "FAILED" /\ executed[j] = "none" /\ executor[s].state # "dead" =>
      LET assigned == toExecutor[s][executor[s].gen]
      IN executor[s].job # j /\ \A i \in 1..Len(assigned) : assigned[i] # j

\* docs/runtime/conductor.md: a broker thread leases an idle executor slot, so
\* two threads never hold the same process at the same time.
ExclusiveLease ==
  \A th, ot \in Threads :
    th # ot /\ lease[th].gen # None /\ lease[ot].gen # None => lease[th] # lease[ot]

\* Whatever becomes of the executors, execute returns for every attempt.
EveryExecuteReturns == \A j \in Jobs : Started(j) ~> outcome[j] # "none"

-----------------------------------------------------------------------------
\* Refinement: what dispatch is for, without its threads, slots and pipes

Elements(q) == {q[i] : i \in 1..Len(q)}
Unsent == {"drain lease", "get", "lock", "send"}

Polled == {j \in Jobs : Started(j)}
Unassigned == {job[th] : th \in {ot \in Threads : pc[ot] \in Unsent}}

\* Assignments that a live executor will read; those in the pipes of dead ones are lost.
Inbox(s) ==
  IF executor[s].state = "dead" THEN {} ELSE Elements(toExecutor[s][executor[s].gen])

Delivery == INSTANCE AttemptDelivery WITH
  Attempts <- Jobs, Places <- Slots, NoAttempt <- NoJob,
  polled <- Polled, waiting <- Unassigned,
  inbox <- [s \in Slots |-> Inbox(s)], running <- [s \in Slots |-> executor[s].job],
  result <- executed, report <- outcome

\* A polled attempt waits, or is with one executor, or has ended: it is in one of these
\* and at one executor, also while threads share a process or exits and replacements cross.
AttemptInOnePlace == Delivery!OnePlace

\* However threads lease, send and read and processes die, every attempt is handed
\* to one process at most and run once at most, and Conductor hears of it once: how
\* its own run ended, or FAILED. (FAILED may come while a live executor has it.)
DeliverySpec == Delivery!LooseSpec

\* The same, and FAILED without the executor's word comes only of an attempt that no
\* live executor runs, or will. Two threads with one process would break this part.
ExclusiveDeliverySpec == Delivery!Spec
=============================================================================
