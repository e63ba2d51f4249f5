# Formal models of perago

perago runs Conductor tasks in local worker processes. A *workspace task* takes a
LakeFS ref as input, works on a local copy of it, and publishes its changes to the
workflow's target branch as one commit. This directory holds TLA+ models of the parts
whose correctness depends on the order of events - publication, dispatch to executor
processes, shutdown, the workspace root lock, workspace collection - or on what exactly
is read, compared and written - the attempt flow, workspace synchronisation, the task's
declaration and what check, start and each worker process make of it -, TLC
configurations that check them on small instances, and TLAPS proofs for any instance.
Source paths below are relative to `src/perago/`, documentation paths to `docs/`.

## 1. Inventory

| Component | Source | State it keeps | Operations |
|---|---|---|---|
| Workspace publication protocol | `execution.py`, `lakefs_runtime.py`, `attempt.py`, `staging.py` | per attempt: staging branch, output ref; in LakeFS: commits, target branch head; in Conductor: task status, retry count, accepted outputs | download, run the body, first fence, stage, second fence, merge / replace / no-op / relocate, clean up, report |
| Process-mode dispatch | `conductor_runtime/workers.py`, `process_executor.py`, `process_ipc.py` | slots (connection, generation, exited generation), queue and set of available slots, set of busy slots, pipes, event / request / response queues | lease, send, serve fences, wait, receive, release, apply exit and start events |
| Supervisor loop and shutdown | `supervisor.py`, `conductor_runtime/runners.py`, `process_executor.py` | child processes, generations, restart counts, stop event, pipes' ends | start, watch, restart with backoff, stop sentinels, terminate, join, force-kill, sweep |
| Workspace root lock | `supervisor.py` | the lock file: inode and pid | create, stat, read, probe the pid, unlink a stale lock, release |
| Attempt workspaces and collectors | `workspace/lifecycle.py`, `workspace/gc.py`, `supervisor.py` | directories and their markers, active owner tokens, live executors | prepare, clean up, start sweep, GC loop, targeted collection, final sweep |
| Workspace synchronisation | `workspace/sync.py`, `workspace/paths.py`, `lakefs_runtime.py` | local tree, staging branch objects | download, snapshot, compare, delete and upload |
| Body invocation, results | `execution.py`, `result.py`, `failure_output.py`, `errors.py` | initial snapshot, result | both attempt functions, exception to Conductor status |
| Guardrails | `guards.py` | none | checks of a local tree |
| Task declaration, TaskDef | `task.py`, `taskdef.py`, `models.py`, `cli.py` | per process: the imported module; outside: the extracted file, the registered TaskDefs | validation at import, model graph, schemas, timeouts, check, extract |
| Worker start-up | `cli.py`, `supervisor.py`, `worker_runtime.py`, `config.py` | per process: the loaded task, the worker id | start, and what broker, executor and thread runner do before their first task |
| Thread-mode runner | `conductor_runtime/workers.py`, `runners.py` | busy gauge | the attempt flow in a thread of the SDK's runner |
| Conductor client, SDK mapping | `conductor_runtime/client.py`, `sdk_mapping.py` | none | get_task, field mapping |
| Metrics | `metrics/` | counters | recorded only |
| Configuration, logging | `config.py`, `runtime_logging.py` | none after start | parsing, `.env` precedence, log files |
| Smoke scripts | `scripts/` of the repository | none | drive a worker against real services |

How they interact. The supervisor takes the root lock, sweeps the root, starts the
broker and one executor per slot, and keeps a GC thread. The broker runs the Conductor
SDK's `TaskRunner`; each of its threads turns one polled task into an assignment in an
executor's pipe and waits for the completion. While it waits it also answers *fence*
requests: an executor asks, through a queue shared by all, for the current state of its
task, and reads the answer from its slot's response queue. The executor runs the attempt
flow against LakeFS. Executors that die are reported to the broker through an event
queue and replaced with a new pipe and a higher generation.

What is hard here:

* Conductor may time an attempt out and run its retry while the first one is still
  working; nothing is locked, and every check of the branch is older than the update
  that relies on it.
* A worker may die, or give up waiting for LakeFS, between an update of the branch and
  Conductor's acceptance of the result.
* Threads apply events, lease and release slots in any order; queues and pipes outlive
  the processes that used them.
* A stop arrives at any moment, for the supervisor alone or for the process group.
* Locks and workspaces of killed processes stay behind; the pid in a file says little.
* What a task is gets decided several times: at import, when its TaskDef is built, when
  start checks it, when each process of the runtime loads it, and by the schema that
  somebody registered earlier.

`PROJECT.json` lists each hazard at its line with the properties that would catch it.

What makes each component correct, in one line each: the branch head is always the last
accepted ref or one commit on top of it (publication); every polled task returns exactly
its own result and no slot is lost (dispatch); a shutdown ends, loses no finished work
and sweeps under nobody's feet (shutdown); one supervisor per root (lock); a running
attempt keeps its workspace, abandoned ones go (collectors); a task reads and publishes
exactly the files under its prefix (synchronisation); retries end only where the task's
code or its pre guardrails say so (results); what start has checked is enough for its
processes, and a worker takes what the schema of its TaskDef accepts (declaration and
start-up).

## 2. Modules and plan

| Module | Models | Proved about in |
|---|---|---|
| `Publication` | attempt flow against Conductor and LakeFS | `PublicationProofs` |
| `WorkspaceHistory` | abstract: what a reader of the branch is promised | refined by `Publication` |
| `PublicationInvariant` | the strengthened invariant of the proofs | `PublicationProofs` |
| `ProcessDispatch` | broker threads, slots, pipes, executors, restarts | `ProcessDispatchProofs` |
| `SupervisorShutdown` | supervisor loop, stop, drain, deadline | `SupervisorShutdownProofs` |
| `AttemptDelivery` | abstract: what happens to an attempt from the poll to the answer | refined by `ProcessDispatch` and `SupervisorShutdown`, proved about with them |
| `SupervisorLock` | lock acquisition and release, system call by system call | `SupervisorLockProofs` |
| `AttemptWorkspaces` | workspaces and their four collectors, both modes | `AttemptWorkspacesProofs` |
| `WorkspaceSync` | paths, listing, download, comparison, staging, guardrails, as operators | `WorkspaceSyncProofs` |
| `AttemptFlow` | attempts one after the other, with file trees and results | `AttemptFlowProofs` |
| `TaskDeclaration` | what `@task` accepts and what is derived from it, as operators | `WorkerStartupProofs` |
| `WorkerConfig` | environments, configuration and worker ids, as operators | `WorkerStartupProofs` |
| `WorkerStartup` | commands, registration, and the processes of a starting runtime | `WorkerStartupProofs` |
| `TaskSchema` | the schemas of a TaskDef, pass by pass, and payload validation, as operators | - |
| `TaskContract` | `WorkerStartup` and `TaskSchema` together: registered schema against running worker | - |
| `MC*` | set-valued constants for TLC | |

Definitions called *mutants* in the modules are not part of any specification: each is
its neighbour with a plausible mistake, kept to show that a property notices it.

The order in which the project was planned: publication (the program's purpose) with
its abstract history and the proof; dispatch; lock with proof; collectors; shutdown;
synchronisation and the attempt flow with proofs; the publish budget, task loading and
the contract between TaskDef and worker, with proofs; proofs about dispatch, shutdown,
collectors, and the lock with kills; the abstract delivery of attempts, and that dispatch
and shutdown implement it. What the plan still has: the busy gauge of the thread runner
(`conductor_runtime/workers.py:109`) and the lifetime of metric recorders across forks.

## 3. Publication

`Task` is a step of the workflow and a retry count; `Input(t)` is the ref the step
before completed with. A commit is named by the attempt that makes it: each attempt
makes at most one staging commit (`Staged`) and one squash-merge commit (`Merged`).
`phase[t]` is where `run_workspace_task_attempt` is, one value for each point at which
control waits for another system:

| phase | action | code |
|---|---|---|
| body | `Body` | validation, prepare, download, guards, task body |
| changed / unchanged | `FirstFence` | first `assert_current_attempt_snapshot` |
| stage, staging | `CreateStaging`, `CommitStaging` | `stage_workspace` |
| staged | `SecondFence` | second fence |
| publish | `PublishWorkspace` | head read, then merge, reset or fail closed |
| noop | `CompleteNoop` | head read, then nothing, reset or fail closed |
| request | `RequestReturns` | the merge or reset call returns, fails, times out |
| cleanup | `CleanupStaging` | `finally` block |
| report, exited | `Report` | result update, of the attempt or for a dead executor |

`request[t]` is the update LakeFS has received. It lives on when the worker stops
waiting (`Forget`), so that a slow server applies it late. `ApplyMerge`, `ApplyReset`
and `Reject` are LakeFS; `Poll`, `TimeOut`, `Retry`, `AcceptCompleted`, `AcceptFailed`
are Conductor. Both are modelled from how the code uses them.

*Operating rule.* The documentation (`architecture/publish-fences.md`) calls the publish
fence an operational soft fence: it is sound only while writes to one branch are serial.
`SerialWrites` is this rule - an attempt passes its last fence only when no other
attempt's publish window is open - and `WindowEnd` says when a window counts as closed:
with LakeFS's answer, or already when the worker's own timeout expires. The rule is a
guard of the model because it is a rule for operators, not code.

| Run | Instance | Shows |
|---|---|---|
| `publication` | 4 steps - writer, writer with a retry, reader, writer -, windows end with LakeFS's answer, fair | `TargetExplained`, `AcceptedLineage`, `PublishFenceHolds`, `UpdatesOfCurrentStep`, `HeldResultIsVisible`, refines `WorkspaceHistory` (`HistorySpec`), `WorkflowEnds`, `AbandonedIsResolved` |
| `publication_late_merge` | 1 step, windows end with the client's timeout | `TargetExplained` is violated |

Bounds: `Retries[s]` is the retry count of step s, at most `MaxRetries`
(`RetriesAssumption`). Two attempts of one step are the smallest instance in which an
attempt races its retry; a step before it, whose output the replacement must land on; a
step after it, which a stale attempt may outlive into; and a reader, which passes no
fence, between two writers. Retries of two steps at once would multiply the states of
the liveness properties by far more than they add, because a step begins only after its
predecessor was accepted; the invariants and the refinement are proved for all values.

*Fairness*: workers keep running, LakeFS answers, Conductor delivers, retries, and times
out what nobody works on. A worker's death, a timeout of a live attempt and errors are
never forced.

*Finding* `publication_late_merge`: the merge is bounded by a client-side
`_request_timeout` only. When it expires the attempt reports FAILED, and if LakeFS still
carries the merge out after the retry has replaced the head, the head becomes a commit
on top of the replacement: A -> H -> C, which
`lakefs-publication-protocol.md:70` excludes.

*Proved* (`PublicationProofs`, for every `Steps`, `MaxRetries`, `ReadOnlySteps`, under
`WindowEnd = "request"`): each safety property above and the refinement. The invariants
are not inductive alone: that the head stays explained needs that a merge on its way
finds the head its sender saw (`Requests`), which needs that windows of two attempts do
not overlap and belong to the current step (`Windows`), which needs that an attempt that
has updated the branch and is still in progress keeps everyone else out until Conductor
has accepted it (`Windows`, third conjunct, and `Held`), which needs that Conductor runs
one task at a time (`Schedule`) and that commits appear once, on the parent the protocol
gives them (`Commits`). `Inductive` is the conjunction. There is one lemma per action,
`InductiveNext` combines them. For the refinement, `HistoryStep` maps each step to
`Publish`, `Withdraw`, `Accept` or a stutter. `TypeOK` and `StagedIsCleaned` - whatever
`stage_workspace` returned has been cleaned up, or tried to, before the report - are
proved and not run.

## 4. Process-mode dispatch

`connection`, `generation`, `exited`, `queue`, `available`, `busy` are the fields of
`PeragoProcessDispatchWorker` and its slots; a pipe is a pair of sequences per slot and
generation. A thread's step is one critical section of `_slot_lock` or one operation on
a queue or pipe, so the gaps between `_available_slots.get` and the locked part of
`_lease_slot`, between `get_nowait` of an event and its handling, and between reading
`exited` and polling the pipe are all there. `Execute` is the call by the SDK.
`completion_timeout_seconds` is not set anywhere in the repository and is left out.

`AttemptDelivery` says what all this machinery is for, without it: a polled attempt waits,
is assigned to the executor at one place or lost, is begun and finished there or leaves
with its executor, and is answered once - with how its run ended (`Report`), or FAILED
because nobody has it and nobody will (`GiveUp`). `LooseSpec` also lets go of an attempt
that a live executor has. The mapping (end of `ProcessDispatch`): an attempt waits while
its thread has not sent it; the inbox of a slot is the pipe of the live process's
generation, so that what is written to an older pipe is lost; a place is a slot. Leases,
generations, events, fences and the two steps in which a thread looks at exit and pipe
are hidden.

| Run | Instance | Shows |
|---|---|---|
| `dispatch_threads` | 2 threads, 2 slots, 3 jobs, 2 generations, 1 fence, leaking reader lock | `AttemptInOnePlace`, `SlotNotLost`, `OwnResultOnly` |
| `dispatch_restarts` | 1 thread, 1 slot, 3 jobs, 3 generations, 2 fences, fair | `FreshSnapshotOnly`, `FailedMeansStopped`, `EveryExecuteReturns`, refines `AttemptDelivery` (`ExclusiveDeliverySpec`) |
| `dispatch_double_lease` | 2 threads, 2 slots, 4 jobs | `ExclusiveLease` is violated |

`dispatch_threads` does not check for deadlock: after a double lease a thread may stay
blocked in `recv`, which the finding is about. `MaxGeneration` also bounds deaths (the
last generation lives), so that liveness is not lost to the bound. *Fairness*: threads,
executors and the supervisor keep running and tasks end. The two liveness instances use
one slot or one thread because that is where no double lease can occur.
The strict delivery is checked there for the same reason. With two threads
`dispatch_threads` checks what the loose one implies of each state
(`AttemptInOnePlace`); the refinement itself (`DeliverySpec`) holds on that instance too,
but evaluating it at every step makes the longest run longer by half, and it is proved
below.

*Finding* `dispatch_double_lease`: `_release_slot` does not compare the generation it
leased, so a late release makes a replaced and re-leased slot available again.
`FreshSnapshotOnly` is about the response queue, which belongs to the slot and keeps the
answer to a dead executor's request (section 10): such an answer never lets a fence pass
on an old snapshot.

*Proved* (`ProcessDispatchProofs`, for any threads, slots, jobs, generations and fences,
with and without a leaking lock, `DispatchAssumption` only):

* `TypeOK` (not run), `SlotNotLost`, `OwnResultOnly`, from `DispatchInv`. A slot's availability
  and the queue are changed apart from each other, so `SlotNotLost` needs that a busy
  slot is leased by some thread and that a slot's pipe is that of its generation
  (`SlotInv`), which needs what a thread holds at each point of `execute`
  (`ThreadInv`). That a COMPLETED result is the attempt's own needs that the completion
  in a pipe says how its job ended (`TrueCompletions`), which lasts because no job is in
  two pipes, or in a pipe and an executor, or anywhere after it has ended (`OneRun`),
  which needs that no two threads have one job (`ThreadsApart`).
* `FreshSnapshotOnly`, from `AskedWhere` and `AskedOnce`: every request and every
  answer on its way - in the request queue, in a thread's hands, in a response queue -
  is for the fence at which its job's executor stands or at which it died, and there is
  one of it. Answers of dead executors stay in the queue, but their jobs run nowhere
  else, which is `OneRun` again.
* `BrokerLags`: the broker records an end only of a process that has died or been
  replaced, and no thread leases a generation ahead of what is recorded.
* `FailedMeansStopped` as long as `ExclusiveLease` holds (`FailedAttemptsStop`), and
  hence for one thread (`OneThreadStops`), the instance `dispatch_restarts` checks. By
  `PipesInv` what is in the pipes and in the executor of a leased process is its
  thread's job or nothing, and a process that may still be leased has empty pipes or is
  held by the thread that waits for it. `ExclusiveLease` is what the code does not keep:
  the finding above. The theorem says that nothing else stands between the code and the
  property.
* The refinement. `DeliversAttempts`: dispatch implements the loose delivery, whatever
  threads share. Besides `DispatchInv` it needs `FuturePipes`: pipes of generations that
  have not been started are empty, as no thread leases ahead of the broker's record
  (`BrokerLags`); a replacement then begins with an empty inbox. There is one lemma per
  abstract step (what a concrete step has to change to be that one) and one per group of
  concrete steps that takes it. `DeliversExclusively`: as long as `ExclusiveLease` holds,
  the strict delivery (`ExclusiveDeliverySpec`), because `FailedMeansStopped` holds after
  the step; `OneThreadDelivers` needs no hypothesis.
* What follows from the abstract specification alone: `RunOnceAtMost` - an attempt is in
  one place at a time, and after it has left its executor it is never run again and its
  result never changes, double lease or not - and, under `ExclusiveLease`,
  `AnswersAreFinal` - no live executor has an attempt that Conductor has an answer for.

`EveryExecuteReturns` is liveness and is checked by TLC only.

## 5. Shutdown

`SupervisorShutdown` follows the supervisor from its loop through the `finally` block.
A signal to the group may come before a child has installed its own handlers
(`ExecutorStarting`, `BrokerStarting`): a forked executor then runs the handler it has
inherited, which sets the shared stop event and lets it go on until it reads the
sentinel, and a broker is ended by the default action.
`told` is what the supervisor has put into the event queue, `known` what the broker has
drained; `pipe[s]` holds assignments and the stop sentinel in the order they were
written; `signalled` are executors that have seen a signal themselves. Leasing and
sending are one step: in between nothing looks at the job. An assignment to an earlier
generation goes to a pipe nobody reads. A process that is killed is gone at once.

The run `shutdown_drain` has 2 slots, 2 jobs (`JobCount`), 2 generations, one fence per job, one
child killed at any point, signals to the supervisor or to the whole group, and both
settings of `PERAGO_SHUTDOWN_FORCE_KILL_AFTER`. It shows that the model implements the
strict delivery of `AttemptDelivery` (`DeliverySpec`: leasing and sending are one step
here, so there is no double lease), in particular that an attempt answered FAILED
because its executor exited is at no live executor, also when the stop comes in between;
that the final sweep finds no
child alive (`SweepFindsNobody`); that a drain loses no finished work unless the loop
had still reported the executor's exit (`NoWorkLost`; the broker looks at exits before
it looks into the pipe, so work finished just before an exit is reported FAILED); that
with a deadline a shutdown ends whatever crashed (`DeadlineEnds`), and that without one
it hangs only if a child crashed or a job is stranded (`DrainEnds`). One fence is enough
because an executor blocks in each of them the same way. Deadlock is not checked: a
shutdown without a deadline may really hang, and a loop that has used up
`MaxGeneration` waits.

*Fairness*: threads and processes run, tasks end, a join returns at its deadline.
Signals, crashes and new tasks are not forced.

*Finding* `shutdown_hang` (no deadline, no crash): the sentinels are written before the
broker is told to stop polling. A task polled in between is sent behind the sentinel;
the executor exits without reading it; exits are not reported any more and the
supervisor's copies of the pipe keep it from breaking; the thread, the broker and the
supervisor wait for ever, although `runtime/worker-processes.md:109` has the supervisor
wait for its children to exit and then sweep.

*Proved* (`SupervisorShutdownProofs`, for any jobs, slots, fences, replacements and
crashes, `ShutdownAssumption` only): `TypeOK` (not run), `SweepFindsNobody`, `NoWorkLost`.
`NoWorkLost` looks at the end only; `ShutdownInv` says what leads there. What the broker
knows of a slot is never newer than what it was told, and what it was told is the
executor's present generation (`Views`), so that it can take an exit for that of the
process it sent a job to only if that exit was reported. Whatever an executor reads or
runs was sent, and once it has run its completion is under way until the thread has
returned; a job reported FAILED has a reported exit for it (`Accounted`). A broker that
ended by itself left no job in hand (`BrokerEnd`). `DeliversAttempts` is the refinement:
it needs `Handed`, that what a live executor has in its pipe or runs was sent to that
very process, and that no pipe has an attempt twice. `RunOnceAtMost` and
`AnswersAreFinal` follow as in section 4, here without hypothesis. `DeadlineEnds` and
`DrainEnds` are checked by TLC only.

## 6. Workspace root lock

One action per system call of `acquire_supervisor_workspace_lock`,
`_unlink_supervisor_workspace_lock_if_same` and `release`; the pid is written to the
inode the supervisor created, whatever the path names by then. Supervisors are named by
their pids and pids are not reused. Inode numbers are what the code knows a lock by, and a
file system may give the number of a removed lock to the next one at once. `numbers` is
the kind of file system under the root, chosen at the start: new files get a `fresh`
number, or may get one that has been `reused`, once no open file has it.

*Operating rule.* A lock that somebody may have looked at is dangerous once its holder is
gone: whoever saw it may take it for stale, and remove what is there by then. Without
reuse this is the lock of a killed supervisor; with reuse also one that was released in
order, because its number may name another lock. `Departed` are these supervisors, and
from the moment there is one (`MayDepart`) at most `MaxContenders` try for the lock at a
time; before, any number may. As in section 3 the rule is for operators, not code:
supervisors of one root are started one after the other, and on a file system that gives
numbers again none is stopped while two wait for its lock.

`lock_contention` (4 supervisors, 2 kills, both kinds of file system, `MaxContenders = 1`)
checks `OneSupervisor`, `HolderOwnsLock`, `RefusedForAnother` and `AcquireEnds`. Four are
enough for a holder, one that has seen its lock, one that creates the next lock, and one
more that comes upon it. *Fairness*: a supervisor that has started goes on; a run may last
for ever.

*Finding* `lock_stale_race`: with two contenders `OneSupervisor` fails, and nobody has to
be killed. p2 looks at p1's lock (stat and read); p1 ends and removes it; p2 finds p1's pid
dead; p3 starts and creates a lock with the same inode number; p2's comparison finds the
number it remembers, and p2 unlinks the lock of p3, which runs on, and creates its own. With
`InodeNumbers = {"fresh"}` the run needs a kill and violates the property too: two
supervisors find the same stale lock, one replaces it between the other's comparison and
unlink. Both halves of the rule are therefore needed - that it counts kills, and that it
counts ordinary ends where numbers come back -, and `runtime/worker-processes.md:72`
states no rule at all.

*Proved* (`SupervisorLockProofs`, any set of supervisors, any number of kills, both kinds
of file system): `TypeOK`, `HolderOwnsLock`, `OneSupervisor`, `RefusedForAnother`, under
`OperatingRule`: `MaxContenders <= 1`, or nobody is killed and no number comes back. In
both cases the file in the root belongs to a supervisor that is writing or holding it or
was killed (`FileOfCreator`), and once one has departed there is one contender (`Alone`).
Why a contender past the liveness probe is then safe has two different reasons, and the
invariant is one of two (`CreatorKeepsFile`). Without reuse the number tells whose lock
was seen: at the unlink the path still names that file, and its creator was killed
(`NumberInv`). With reuse the number tells nothing, but the owner that was read does: while
somebody looks at it nobody else can have got the lock, and once it is found dead nobody
has it (`OwnerInv`). `AcquireEnds` is checked by TLC only.

## 7. Attempt workspaces

A directory is absent, unmarked (made, marker not yet written), marked or gone; ages are
"older than the TTL or not". Collectors read markers and owners first and then visit the
directories one by one, re-reading each marker; `rmtree` of a directory that is gone
raises, which the GC loop logs and the main thread does not survive. `mode` is chosen at
each start of a supervisor.

`workspaces_kept` (2 slots, 2 attempts, 2 processes per slot, both modes, one kill of a
thread-mode supervisor, fair) checks `RunningWorkspaceKept`, `StoppedIsSwept` and
`AbandonedIsCollected`. Kills of a process-mode supervisor alone are excluded
(`KillModes`), see below. *Fairness*: what has begun goes on and time passes.

*Proved* (`AttemptWorkspacesProofs`, for any attempts, slots, starts and kills):
`TypeOK` (not run), whatever is killed, and `RunningWorkspaceKept` and `StoppedIsSwept` under the
rule just named, `"process" \notin KillModes`. A collector decides on a workspace long
before it removes it. The invariant therefore says of every workspace on a list or being
removed that its attempt began to run and that its owner is not among those that work or
may work (`Condemned`); this lasts because a process is started once (`Started`) and the
collectors' list of live owners leaves out at most the replacement that has just been
started and is not entered in `executors` yet, which owns nothing old (`Roster`,
`Aging`). `Sweeping` says that the final sweep's list has every marked workspace.
`AbandonedIsCollected` is checked by TLC only.

## 8. Attempt flow and workspace synchronisation

`Publication` follows the branch and leaves out what is in a workspace. `AttemptFlow`
is the complement: one attempt at a time, from the polled input to the reported result,
with the objects of the input ref (`content`), the attempt workspace (`tree`), the first
snapshot (`initial`), the staging branch (`staging`) and the result. A fence passes or
raises, LakeFS does what it is asked or raises; a completed attempt's output is the next
task's input. The two meet in the order of steps, which both take from
`run_workspace_task_attempt`.

| pc | action | code |
|---|---|---|
| idle | `Poll` | `execute_polled_task` |
| input, download | `PrepareWorkspace`, `Download` | input validation, `prepare_attempt_workspace`, `download_workspace`, first snapshot |
| pre, body, post | `CheckPre`, `RunBody`, `CheckPost` | `invoke_workspace_task_body` |
| checked | `CompleteReadOnly`, `CompareWorkspace` | read-only completion; second snapshot, first fence |
| noop | `CompleteNoop` | `complete_noop_workspace` |
| create ... commit | `CreateStaging`, `DeleteStale`, `Upload`, `CommitStaging` | `stage_workspace` |
| publish | `Publish` | second fence, `publish_workspace` |
| free | `RunWorkspaceFree` | `run_workspace_free_task_attempt` |
| cleanup, report | `CleanUp`, `Report` | `finally`, result update |

Every step also has its failing twin, which classifies the exception with `ResultFor`.

`WorkspaceSync` holds the operators. A path is the sequence of its segments; a prefix is
one too, `<<>>` for `"/"`. Strings that matter as strings are told apart by sets of
segments: `Forbidden` ("", ".", "..", a backslash), `DriveLike` ("C:"), and `Extends`,
which says that one segment's string begins with another's, because LakeFS lists by
string prefix. A ref is a function from object paths to contents, a tree one from local
paths to contents, directories and links. A glob pattern stands for the set of paths it
matches. Links point to files.

The run `attempt_flow` has workflows of two tasks with one retry each, out of five
declarations (a writer of `p` with guardrails, one of the whole repository, one with a
prefix like a drive, a reader, a task without workspace) and five input refs (a sibling
`pq`, an object named like the marker, one equal to the prefix, paths that are no local
paths, a path that is both file and directory). A body may leave any of 124 trees
behind: `a` as a file, link or directory, `d` with and without a file in it or one named
like the marker, the marker missing or overwritten or a directory, an odd name. Two
tasks are needed for a task to read what another published; contents are told apart by
two values because only equality is ever looked at.

* `BodySeesInput`: the body finds exactly the input's objects under the prefix.
* `CompletedIsPublished`: what a writable task leaves is what its output ref has there,
  also when the comparison found nothing to publish.
* `OutsideUntouched`: nothing else changes.
* `NoEmptyCommit`: what is committed differs from the input. The comparison and the
  publication scan the tree with rules of their own; this is where they must agree.
* `PublishedMeetsPost`: files the post guardrails require are in the ref, files they
  forbid are not. `is_file` follows links; that publication refuses them makes it true.
* `DownloadableAgain`: what was published can be downloaded with the same prefix, except
  after one of three kinds of names, each of which TLC reaches (section 10).
* `TerminalForCause`: retries end where the task's own code - its body, or a validator of
  one of its models, before or after it - raises `TaskTerminalError` or the exported
  `PreGuardrailViolation`, or where the input ref fails a pre guardrail; never for LakeFS,
  a fence, a post guardrail or a rejected input or result.
* `TerminalIsReported`: a `TaskTerminalError` ends them, whatever its author does with the
  metadata afterwards, short of replacing it in the exception.

Deadlock is not checked because a workflow ends. There is no liveness property: the flow
is sequential, and waiting is `Publication`'s and `ProcessDispatch`'s subject.

*Proved*, for any segments, contents, declarations, trees, steps and retries. The
assumptions are `SyncAssumption` (the marker is an ordinary name) and `FlowAssumption`
(declarations are valid, and in the trees a body leaves, what has an entry below it is a
directory). `WorkspaceSyncProofs` has the laws of the operators: `LocalPath` inverts
`ObjectPath` on the paths a scan may find; a download is the projection of the ref
(`DownloadIsProjection`); deletes and uploads make the branch what the tree is under the
prefix and nothing else (`StagingIsExact`); what has been staged can be downloaded
(`StagedIsDownloadable`). `AttemptFlowProofs` proves the eight properties above and the
type invariant from `FlowInv`, which adds what each point of the flow knows: until the
body runs the tree is the download, and `initial` its snapshot (`Fetched`); when the
flow goes on to stage, the two snapshots differ (`Compared`); the staging branch is the
input ref, `AfterDeletes` or `AfterUploads`, by `pc` (`Staged`); a completed result has
the properties of its ref until it is reported (`Completed`). The properties themselves
say nothing about the steps before the result and are not inductive.

## 9. Task declaration, configuration and start-up

`TaskDeclaration` is what `@task` accepts (`ValidDeclaration`, with the four forms of a
task function) and what the program derives from it: the models reachable from its
payloads, the response timeout and its warning, the LakeFS merge timeout. `WorkerConfig`
says which environments make a configuration. A variable's text is a class - absent,
blank, `replace-me`, malformed, given, a mode - and each parser is the set of classes it
takes. `WorkerStartup` is the state machine over both:

| State | Code |
|---|---|
| `module`, `edits` | the text of the task module, which its author may change |
| `extracted`, `registered` | the TaskDef file, and what Conductor holds under each name; both stand for the declaration they were made from |
| `warned` | declarations a command has printed a budget warning for |
| `runtime` | task, configuration and own worker id of the running supervisor |
| `child` | broker or thread runner (slot 0) and executors: what each has loaded, the id it has resolved |

| Action | Code |
|---|---|
| `EditModule`, `Register` | author and operator (external) |
| `Check`, `Extract`, `Start` | the commands of `cli.py`; one that fails changes nothing and is no step |
| `BrokerStarts`, `ExecutorStarts`, `ThreadRunnerStarts` | the first lines of the three `_main` functions, which load the task and check the configuration again |
| `ExecutorExits`, `Stop` | restart of an executor; end of the runtime |

A forked child has its parent's imported module, a spawned one imports the text it finds
(`method`, `ChildTask`). Every command reads an environment and a `.env` of its own
(`Readings`).

`TaskSchema` follows `schema_for_model` pass by pass - strip the model's metadata, inline
references, strip titles except under `properties`, set `additionalProperties` - on JSON
trees, and has what a JSON schema accepts and what a model validates as external
definitions. Texts are told apart as far as schemas and validators do: empty, white space,
the literal `commit`, any other. `Validated` names the fields with a validator that
refuses blank texts, as `WorkspaceRef` has for `repository`, `branch` and
`ref` (`models.py:417`); a type whose values are more special than its schema says is the
same to the model. `TaskContract` states the contract between the two.

The run `worker_startup` has 49 module texts (11 valid tasks; 13 with one mistake each;
the four signatures with metadata that do not go with them, and ten more signatures; no
task, two tasks, a broken import), one change of the text, 3
shell environments by 5 `.env` files, both start methods, one executor and the broker.
One edit is enough for a registered or running declaration to differ from the module's;
executors do not interact while they start, and the proofs have any number of them. The
payloads are 1677 JSON values with dicts and lists up to two levels inside a dict, over
keys that include `title` and `properties`, as deep as the deepest model, some with blank
and empty texts; each is tried with no workspace and with six of them - in order, blank
or empty in a field, one field short, one too many, another `refType` -, in 11741 inputs,
against each of the 12 declarations a TaskDef can be built for.

* `ChildrenComeUp`: what start has checked is enough for every process it starts, under
  the id by which the supervisor keeps its queues; only a spawned child over another
  module text can fail.
* `CalledAsDeclared`: a body gets exactly the parameters its function declares. The
  validation looks at the signature, the call site at `workspace` and `metrics`.
* `BudgetIsAnnounced`: a publish budget is in force and within the response timeout of
  the registered TaskDef, or a warning has been printed.
* `ServedAsRegistered`: when the TaskDef was registered from the task a worker runs, the
  worker lets every input to the body that the registered schema accepts, and of each
  result it returns that schema is true. Two exceptions, for inputs only: a validator
  refuses a text, and a params model that contains itself. Both are in the run - one task
  has validators in params and result, every workspace task has those of `WorkspaceInput`,
  two have a recursive params model - and without either exception it fails. That the
  schema accepts whatever the worker would take is not claimed: Pydantic converts.
* `SupersetIsServed`: if the registered params model extends the worker's, the worker
  still takes every input the schema accepts, unless it has strict params
  (`concepts/task-contract.md:73`). The same two exceptions; the two declarations of the
  recursive task, which differ in their results, refute it without the second.

There is no liveness property: commands are the operator's, and a child that fails is
restarted for ever. Deadlock is not checked, because after the last edit a broken module
without a runtime leaves nothing to do.

*Proved* (`WorkerStartupProofs`, for any modules, environments, models and number of
executors; from `StartupAssumption`, `DeclarationAssumption` and `DataAssumption`, which
say that sets contain what they are sets of): `TypeOK`, `ChildrenComeUp`,
`CalledAsDeclared`, `BudgetIsAnnounced`. `StartupInv` adds to the type that a running
runtime's task is valid and served by its configuration (`RuntimeAccepted`), which a
child's success rests on; that whatever is extracted or registered has been warned about
if it should be (`TaskDefsAnnounced`), because the warning is printed before the TaskDef
exists; and for each child that it has a valid declaration when it is up, the parent's
when it was forked (`ChildAccounted`). `TaskSchema` is recursive over JSON and is checked
by TLC only.

## 10. Disagreements with the documentation that no run shows

Met while modelling; each is visible in a model but has no run of its own.

* `lakefs_runtime.py:71`: `stage_workspace` creates its branch and may then raise. The
  attempt gets no `StagedWorkspace` and deletes nothing, while
  `lakefs-publication-protocol.md:106` asks for a best-effort deletion whenever the
  branch exists. In `Publication` such an attempt ends with `staging[t] = "open"`.
* `supervisor.py:422`: a supervisor killed between creating the lock and writing its pid
  leaves an empty file that every later one takes for invalid JSON and is refused by,
  although `runtime/worker-processes.md:72` has the lock of a dead pid removed.
* `supervisor.py:211`: executors outlive a supervisor that is killed alone; the next
  one's start sweep has ttl 0 and no process owners and removes the workspaces they work
  in. With `"process" \in KillModes`, `RunningWorkspaceKept` fails.
* `supervisor.py:326`: the targeted collection is not guarded against the GC loop
  removing the same directory; the error ends the supervisor's loop and stops the
  runtime (`stopped = "error"`).
* `process_executor.py:117`: the response queue belongs to the slot. The answer to a
  request of an executor that died is taken by its replacement, although
  `runtime/worker-processes.md:30` has it go to "that" executor: the replacement fails an
  attempt of its own and stays one answer behind, so every later fenced attempt fails.
* `workspace/sync.py:70`: the path of a scanned file is a `PurePath`, of which
  `_canonical_workspace_path` looks at ".." only. A file named `a\b`, or a directory `C:`
  at the top of the workspace, is published, against `workspace/sync.py:43` (raises "if a
  scanned relative path cannot be represented as a safe workspace object path"); every
  later download of the prefix raises, whatever is retried.
* `models.py:393`: a prefix that begins like a drive (`C:/x`) is accepted, its objects are
  written, and cannot be listed again.
* A body that replaces the marker by a directory publishes what is in it and makes the
  next download fail at `lakefs_runtime.py:57`; its own cleanup finds no marker file
  (`workspace/lifecycle.py:73`), and no collector looks at the directory again.
* `result.py:305`: `PreGuardrailViolation` is exported (`__init__.py:8`), and a body or a
  model's validator that raises it, by way of a guardrail of its own for instance, ends the
  retries, also after the body has worked in the workspace, although
  `reference/failure-classification.md:21` says of this class that the body has not run
  yet. `TerminalForCause` names it as a cause.
* `lakefs_runtime.py:53`: a malformed object of a sibling whose name begins with the
  prefix's string fails downloads of the prefix, although it is outside of it.
* `result.py:304`: failure metadata replaced in a raised exception is validated again in
  the `except` clause; the `ValidationError` leaves the attempt without a result, and
  `TaskTerminalError` is retried.
* `process_executor.py:117`: an executor killed inside `response_queue.get()` keeps the
  queue's reader lock; its slot never passes a fence again (`LockMayLeak`).
* `models.py:417`: the published schema of a workspace asks for texts of length 1 or more,
  the worker's validator for texts that are not blank: Conductor accepts an input with a
  `ref` of white space, and every attempt of it fails.
* `taskdef.py:311`: a params or output model that contains itself is a `$ref` with
  `$defs` at the top of its schema; `_strip_model_schema_metadata` drops the `$ref`, and
  the published schema accepts anything, although `reference/conductor-taskdef.md:106`
  has it come from the model, with references inlined. `ServedAsRegistered` and
  `SupersetIsServed` name such params models as their exception. A model that contains one below the top never stops inlining: check and
  extract end with an uncaught `RecursionError`.
* `taskdef.py:296`: under a field named `properties` of a nested model the keyword
  `title` is taken for a field's name and kept in the schema; harmless to validation.
* `task.py:190`: a module whose import fails after its `@task` has been executed leaves
  the definition registered; a second import in the same process finds two.
* `cli.py:103`: start asks whether a TaskDef of the name exists, not whether it is this
  task's. `ServedAsRegistered` and `BudgetIsAnnounced` are about TaskDefs that are;
  `SupersetIsServed` is about those that are not.
* `supervisor.py:620`: children started with spawn or forkserver import the module as it
  is by then. What they load was checked by nobody as a TaskDef, and if it cannot be
  loaded they are restarted for ever.
* `config.py:300`: a blank `PERAGO_WORKSPACE_ROOT` is the current directory, not the
  default.
* `conductor_runtime/workers.py:109`: threads set the busy gauge after they have counted,
  outside the lock, so that a later count may be overwritten by an earlier one.

## 11. Not modelled

Metrics and logging decide nothing the models depend on, and the smoke scripts are tests
of real services. Of the declaration: Pydantic's lax coercions, and validators and
serializers that convert (payload values are of the type they look like, and a result is
dumped as it was validated), the warning about `ConfigDict`, the type checks of the decorator's
own arguments, and control fields that are only copied. Of the configuration: the syntax
of `.env`, of sizes and of durations, and module targets without an ASCII letter or digit.
Warnings of commands that fail afterwards are not recorded. Framing of messages in a pipe
is below the models' grain, and so are reasons and log messages. In `Publication` payload
validation is an alternative of the step that does it.

Not proved, and checked by TLC only: liveness (`WorkflowEnds`, `AbandonedIsResolved`,
`EveryExecuteReturns`, `DeadlineEnds`, `DrainEnds`, `AcquireEnds`,
`AbandonedIsCollected`), because the provers used here do not reason about `ENABLED`;
and `ServedAsRegistered` and `SupersetIsServed` of `TaskContract`, because schemas are
built and payloads validated by recursion over JSON, which the provers cannot do
induction over.

## 12. Running

    tlc -config Publication.cfg MCPublication.tla
    tlapm PublicationProofs.tla

The runs and their configurations are listed in `PROJECT.json`; the longest take about
three minutes on two cores.
