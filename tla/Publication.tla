---------------------------- MODULE Publication ----------------------------
(***************************************************************************)
(* The publication protocol of writable workspace tasks: the attempt flow  *)
(* of execution.py (run_workspace_task_attempt), the LakeFS operations of  *)
(* lakefs_runtime.py and the attempt fence of attempt.py, run against the  *)
(* two services they talk to.  Conductor (task lifecycle, retries) and     *)
(* LakeFS (commits, branches, server-side merge and reset) are external:   *)
(* they are modelled from how the code uses them.                          *)
(*                                                                         *)
(* One workflow runs Steps tasks in sequence on one target branch.  Task   *)
(* <<s, r>> is the attempt of step s with retry count r; its workspace     *)
(* input is the ref step s - 1 completed with.                             *)
(***************************************************************************)
EXTENDS Naturals

CONSTANTS
  Steps,          \* number of workflow steps that use the workspace branch
  MaxRetries,     \* the largest retryCount of the steps' TaskDefs
  Retries,        \* Retries[s]: retryCount of step s's TaskDef
  ReadOnlySteps,  \* steps whose task declares WorkspaceSpec(read_only=True)
  WindowEnd       \* when the operating rule says a publish window is over:
                  \*   "request": LakeFS is finished with the request
                  \*   "client":  the worker has its answer, or gave up on it

ASSUME PublicationAssumption ==
  /\ Steps \in Nat \ {0}
  /\ MaxRetries \in Nat
  /\ ReadOnlySteps \subseteq 1..Steps
  /\ WindowEnd \in {"request", "client"}

ASSUME RetriesAssumption == Retries \in [1..Steps -> 0..MaxRetries]

Task == (1..Steps) \X (0..MaxRetries)
StepOf(t) == t[1]
RetryCount(t) == t[2]

\* Every attempt makes at most one staging commit and one merge commit.
Root      == <<"root", <<0, 0>>>>
NoCommit  == <<"none", <<0, 0>>>>
Staged(t) == <<"staged", t>>
Merged(t) == <<"merged", t>>
Commit    == {Root} \cup ({"staged", "merged"} \X Task)

VARIABLES
  \* Conductor
  workflow,   \* "RUNNING", "COMPLETED" or "FAILED"
  step,       \* the step being run; Steps + 1 when all are completed
  retry,      \* retry count of the step's current attempt
  status,     \* status[t]: the task status Conductor reports for t
  refs,       \* refs[s]: workspace.ref of step s's accepted output; refs[0] is the start
  \* LakeFS
  parent,     \* parent[c]: first parent of commit c, NoCommit if c does not exist
  target,     \* head of the target branch
  staging,    \* staging[t]: the staging branch of t's execution
  request,    \* request[t]: the target-branch update t's execution sent last
  \* workers
  phase,      \* phase[t]: how far t's execution has come
  result      \* result[t]: the RuntimeTaskResult it holds

conductorVars == <<workflow, step, retry, status, refs>>
lakefsVars    == <<parent, target, staging, request>>
vars == <<workflow, step, retry, status, refs, parent, target, staging, request,
          phase, result>>

Request == [op : {"none", "merge", "reset", "applied", "rejected"},
            ref : Commit \cup {NoCommit}]
Result  == [status : {"none", "COMPLETED", "FAILED", "FAILED_WITH_TERMINAL_ERROR"},
            ref : Commit \cup {NoCommit}]
NoRequest == [op |-> "none", ref |-> NoCommit]
NoResult  == [status |-> "none", ref |-> NoCommit]

Status == {"ABSENT", "SCHEDULED", "IN_PROGRESS", "COMPLETED", "FAILED",
           "FAILED_WITH_TERMINAL_ERROR", "TIMED_OUT"}
Phase  == {"idle", "body", "changed", "unchanged", "stage", "staging", "staged",
           "publish", "noop", "request", "cleanup", "report", "exited", "lost", "done"}

(* What holds of the variables' types. *)
TypeOK ==
  /\ workflow \in {"RUNNING", "COMPLETED", "FAILED"}
  /\ step \in 1..(Steps + 1)
  /\ retry \in 0..MaxRetries
  /\ status \in [Task -> Status]
  /\ refs \in [0..Steps -> Commit \cup {NoCommit}]
  /\ parent \in [Commit -> Commit \cup {NoCommit}]
  /\ target \in Commit
  /\ staging \in [Task -> {"absent", "open", "committed", "deleted", "undeleted"}]
  /\ request \in [Task -> Request]
  /\ phase \in [Task -> Phase]
  /\ result \in [Task -> Result]

Init ==
  /\ workflow = "RUNNING"
  /\ step = 1
  /\ retry = 0
  /\ status = [t \in Task |-> IF t = <<1, 0>> THEN "SCHEDULED" ELSE "ABSENT"]
  /\ refs = [s \in 0..Steps |-> IF s = 0 THEN Root ELSE NoCommit]
  /\ parent = [c \in Commit |-> NoCommit]
  /\ target = Root
  /\ staging = [t \in Task |-> "absent"]
  /\ request = [t \in Task |-> NoRequest]
  /\ phase = [t \in Task |-> "idle"]
  /\ result = [t \in Task |-> NoResult]

-----------------------------------------------------------------------------
\* Helpers

Current == <<step, retry>>                   \* the attempt Conductor scheduled last
Input(t) == refs[StepOf(t) - 1]              \* workspace.ref of t's input
ReadOnly(t) == StepOf(t) \in ReadOnlySteps
InFlight(t) == request[t].op \in {"merge", "reset"}
Goto(t, p) == phase' = [phase EXCEPT ![t] = p]

\* The interval between the attempt's last fence and the end of its update of
\* the target branch, within which another writer would go unnoticed.
Window(t) ==
  \/ phase[t] \in {"publish", "noop"}
  \/ WindowEnd = "request" /\ InFlight(t)
  \/ WindowEnd = "client" /\ phase[t] = "request"

\* The operational soft fence: workspace writes to one branch are serial and
\* the final LakeFS operation is short, so publish windows do not overlap.
SerialWrites(t) == \A u \in Task \ {t} : ~Window(u)

\* assert_current_attempt_snapshot of a fresh load_current_attempt: Conductor
\* never rewrites workflow, task id and retry count of a task, so the snapshot
\* differs from the polled one in its status only.
CurrentSnapshot(t) == status[t] = "IN_PROGRESS"

\* The attempt returns: the finally block deletes the staging branch if
\* stage_workspace returned one.
Finish(t, st, ref) ==
  /\ result' = [result EXCEPT ![t] = [status |-> st, ref |-> ref]]
  /\ Goto(t, IF staging[t] = "committed" THEN "cleanup" ELSE "report")

\* Nobody waits for the answer to t's request any more; one the server has yet to
\* carry out stays in flight.
Forget(t) ==
  request' = [request EXCEPT ![t] = IF InFlight(t) THEN request[t] ELSE NoRequest]

\* One of the calls of run_workspace_task_attempt raises.
Raise(t) == Finish(t, "FAILED", NoCommit)

-----------------------------------------------------------------------------
\* The attempt

\* input validation, prepare, download, snapshot, guardrails and task body
Body(t) ==
  /\ phase[t] = "body"
  /\ \/ Raise(t)
     \/ Finish(t, "FAILED_WITH_TERMINAL_ERROR", NoCommit)
     \/ ReadOnly(t) /\ Finish(t, "COMPLETED", Input(t))
     \/ /\ ~ReadOnly(t)
        /\ \/ Goto(t, "changed")
           \/ Goto(t, "unchanged")
        /\ UNCHANGED result
  /\ UNCHANGED <<conductorVars, lakefsVars>>

\* Mutant of FirstFence: the attempt does not look at its status.
FirstFenceUnchecked(t) ==
  /\ phase[t] \in {"changed", "unchanged"}
  /\ phase[t] = "unchanged" => SerialWrites(t)
  /\ Goto(t, IF phase[t] = "changed" THEN "stage" ELSE "noop")
  /\ UNCHANGED <<conductorVars, lakefsVars, result>>

\* first attempt fence, before staging or the no-op completion
FirstFence(t) ==
  /\ phase[t] \in {"changed", "unchanged"}
  /\ \/ Raise(t)
     \/ /\ CurrentSnapshot(t)
        /\ phase[t] = "unchanged" => SerialWrites(t)
        /\ Goto(t, IF phase[t] = "changed" THEN "stage" ELSE "noop")
        /\ UNCHANGED result
  /\ UNCHANGED <<conductorVars, lakefsVars>>

\* stage_workspace: create the staging branch from the input ref ...
CreateStaging(t) ==
  /\ phase[t] = "stage"
  /\ \/ Raise(t) /\ UNCHANGED staging
     \/ /\ staging[t] = "absent"
        /\ staging' = [staging EXCEPT ![t] = "open"]
        /\ Goto(t, "staging")
        /\ UNCHANGED result
  /\ UNCHANGED <<conductorVars, parent, target, request>>

\* Mutant of CommitStaging: the staging branch was created from the target branch
\* instead of the input ref.
CommitStagingOnHead(t) ==
  /\ phase[t] = "staging"
  /\ staging' = [staging EXCEPT ![t] = "committed"]
  /\ parent' = [parent EXCEPT ![Staged(t)] = target]
  /\ Goto(t, "staged")
  /\ UNCHANGED <<conductorVars, target, request, result>>

\* ... delete and upload objects, and commit
CommitStaging(t) ==
  /\ phase[t] = "staging"
  /\ \/ Raise(t) /\ UNCHANGED <<staging, parent>>
     \/ /\ staging' = [staging EXCEPT ![t] = "committed"]
        /\ parent' = [parent EXCEPT ![Staged(t)] = Input(t)]
        /\ Goto(t, "staged")
        /\ UNCHANGED result
  /\ UNCHANGED <<conductorVars, target, request>>

\* Mutant of SecondFence: one fence per attempt is taken to be enough.
SecondFenceUnchecked(t) ==
  /\ phase[t] = "staged"
  /\ SerialWrites(t)
  /\ Goto(t, "publish")
  /\ UNCHANGED <<conductorVars, lakefsVars, result>>

\* second attempt fence, after staging
SecondFence(t) ==
  /\ phase[t] = "staged"
  /\ \/ Raise(t)
     \/ /\ CurrentSnapshot(t)
        /\ SerialWrites(t)
        /\ Goto(t, "publish")
        /\ UNCHANGED result
  /\ UNCHANGED <<conductorVars, lakefsVars>>

Send(t, op, ref) ==
  /\ request' = [request EXCEPT ![t] = [op |-> op, ref |-> ref]]
  /\ Goto(t, "request")
  /\ UNCHANGED result

\* Mutant of PublishWorkspace: an abandoned head is merged onto, not replaced.
PublishOntoHead(t) ==
  /\ phase[t] = "publish"
  /\ target = Input(t) \/ parent[target] = Input(t)
  /\ Send(t, "merge", NoCommit)
  /\ UNCHANGED <<conductorVars, parent, target, staging>>

\* publish_workspace: read the head, then merge, replace or fail closed
PublishWorkspace(t) ==
  /\ phase[t] = "publish"
  /\ \/ target = Input(t) /\ Send(t, "merge", NoCommit)
     \/ target # Input(t) /\ parent[target] = Input(t) /\ Send(t, "reset", Staged(t))
     \/ Raise(t) /\ UNCHANGED request
  /\ UNCHANGED <<conductorVars, parent, target, staging>>

\* Mutant of CompleteNoop: an unchanged workspace never touches the branch.
CompleteNoopInPlace(t) ==
  /\ phase[t] = "noop"
  /\ target = Input(t) \/ parent[target] = Input(t)
  /\ Finish(t, "COMPLETED", Input(t))
  /\ UNCHANGED <<conductorVars, lakefsVars>>

\* complete_noop_workspace: read the head, then accept it, relocate or fail closed
CompleteNoop(t) ==
  /\ phase[t] = "noop"
  /\ \/ target = Input(t) /\ Finish(t, "COMPLETED", Input(t)) /\ UNCHANGED request
     \/ target # Input(t) /\ parent[target] = Input(t) /\ Send(t, "reset", Input(t))
     \/ Raise(t) /\ UNCHANGED request
  /\ UNCHANGED <<conductorVars, parent, target, staging>>

\* Mutant of RequestReturns: an error of LakeFS is swallowed.
RequestReturnsAnyway(t) ==
  /\ phase[t] = "request"
  /\ request[t].op \in {"applied", "rejected"}
  /\ Finish(t, "COMPLETED", IF request[t].op = "applied" THEN request[t].ref ELSE Staged(t))
  /\ Forget(t)
  /\ UNCHANGED <<conductorVars, parent, target, staging>>

\* the client call returns, raises LakeFS's error, or runs into its timeout
RequestReturns(t) ==
  /\ phase[t] = "request"
  /\ \/ request[t].op = "applied" /\ Finish(t, "COMPLETED", request[t].ref)
     \/ Raise(t)
  /\ Forget(t)
  /\ UNCHANGED <<conductorVars, parent, target, staging>>

\* _cleanup_staging_safely: deleting the branch may fail, the result stands
CleanupStaging(t) ==
  /\ phase[t] = "cleanup"
  /\ \E s \in {"deleted", "undeleted"} : staging' = [staging EXCEPT ![t] = s]
  /\ Goto(t, "report")
  /\ UNCHANGED <<conductorVars, parent, target, request, result>>

\* The executor process dies before the broker has its completion, or before the
\* broker reads it from the pipe: the broker reports FAILED.
ExecutorExits(t) ==
  /\ phase[t] \notin {"idle", "exited", "lost", "done"}
  /\ Goto(t, "exited")
  /\ result' = [result EXCEPT ![t] = [status |-> "FAILED", ref |-> NoCommit]]
  /\ Forget(t)
  /\ UNCHANGED <<conductorVars, parent, target, staging>>

\* The whole worker dies, or its result never reaches Conductor.
WorkerLost(t) ==
  /\ phase[t] \notin {"idle", "lost", "done"}
  /\ Goto(t, "lost")
  /\ result' = [result EXCEPT ![t] = NoResult]
  /\ Forget(t)
  /\ UNCHANGED <<conductorVars, parent, target, staging>>

-----------------------------------------------------------------------------
\* LakeFS (external)

\* The server is finished with t's request; the worker may have stopped waiting.
Answer(t, op, ref) ==
  request' = [request EXCEPT ![t] =
                IF phase[t] = "request" THEN [op |-> op, ref |-> ref] ELSE NoRequest]

\* A squash merge of the staging branch onto whatever the head is by then.
ApplyMerge(t) ==
  /\ request[t].op = "merge"
  /\ staging[t] \in {"committed", "undeleted"}
  /\ parent' = [parent EXCEPT ![Merged(t)] = target]
  /\ target' = Merged(t)
  /\ Answer(t, "applied", Merged(t))
  /\ UNCHANGED <<conductorVars, staging, phase, result>>

\* A hard reset of the head, whatever it is by then.
ApplyReset(t) ==
  /\ request[t].op = "reset"
  /\ target' = request[t].ref
  /\ Answer(t, "applied", request[t].ref)
  /\ UNCHANGED <<conductorVars, parent, staging, phase, result>>

\* The server refuses the request, or it never arrives.
Reject(t) ==
  /\ InFlight(t)
  /\ Answer(t, "rejected", NoCommit)
  /\ UNCHANGED <<conductorVars, parent, target, staging, phase, result>>

-----------------------------------------------------------------------------
\* Conductor (external)

Poll(t) ==
  /\ status[t] = "SCHEDULED"
  /\ status' = [status EXCEPT ![t] = "IN_PROGRESS"]
  /\ Goto(t, "body")
  /\ UNCHANGED <<workflow, step, retry, refs, lakefsVars, result>>

\* the response timeout expires: the worker is lost, or only slow
TimeOut(t) ==
  /\ status[t] = "IN_PROGRESS"
  /\ status' = [status EXCEPT ![t] = "TIMED_OUT"]
  /\ UNCHANGED <<workflow, step, retry, refs, lakefsVars, phase, result>>

Retry ==
  /\ workflow = "RUNNING"
  /\ status[Current] \in {"FAILED", "TIMED_OUT"}
  /\ \/ /\ retry < Retries[step]
        /\ retry' = retry + 1
        /\ status' = [status EXCEPT ![<<step, retry + 1>>] = "SCHEDULED"]
        /\ UNCHANGED workflow
     \/ /\ retry >= Retries[step]
        /\ workflow' = "FAILED"
        /\ UNCHANGED <<retry, status>>
  /\ UNCHANGED <<step, refs, lakefsVars, phase, result>>

\* The step completes with this output and the next step is scheduled.
AcceptCompleted(t) ==
  /\ result[t].status = "COMPLETED"
  /\ refs' = [refs EXCEPT ![step] = result[t].ref]
  /\ step' = step + 1
  /\ retry' = 0
  /\ IF step = Steps
     THEN /\ workflow' = "COMPLETED"
          /\ status' = [status EXCEPT ![t] = "COMPLETED"]
     ELSE /\ status' = [status EXCEPT ![t] = "COMPLETED", ![<<step + 1, 0>>] = "SCHEDULED"]
          /\ UNCHANGED workflow

AcceptFailed(t) ==
  /\ result[t].status # "COMPLETED"
  /\ status' = [status EXCEPT ![t] = result[t].status]
  /\ workflow' = IF result[t].status = "FAILED" THEN workflow ELSE "FAILED"
  /\ UNCHANGED <<step, retry, refs>>

\* Mutant of Report: nobody reports for an executor that died.
ReportOfLiveExecutor(t) ==
  /\ phase[t] = "report"
  /\ \/ status[t] = "IN_PROGRESS" /\ (AcceptCompleted(t) \/ AcceptFailed(t))
     \/ status[t] # "IN_PROGRESS" /\ UNCHANGED conductorVars
  /\ Goto(t, "done")
  /\ result' = [result EXCEPT ![t] = NoResult]
  /\ UNCHANGED lakefsVars

\* The worker's result reaches Conductor, which drops it unless the task is
\* still in progress.
Report(t) ==
  /\ phase[t] \in {"report", "exited"}
  /\ \/ status[t] = "IN_PROGRESS" /\ (AcceptCompleted(t) \/ AcceptFailed(t))
     \/ status[t] # "IN_PROGRESS" /\ UNCHANGED conductorVars
  /\ Goto(t, "done")
  /\ result' = [result EXCEPT ![t] = NoResult]
  /\ UNCHANGED lakefsVars

-----------------------------------------------------------------------------
WorkerStep(t) ==
  \/ Body(t) \/ FirstFence(t) \/ CreateStaging(t) \/ CommitStaging(t)
  \/ SecondFence(t) \/ PublishWorkspace(t) \/ CompleteNoop(t)
  \/ RequestReturns(t) \/ CleanupStaging(t)

LakeFSStep(t) == ApplyMerge(t) \/ ApplyReset(t) \/ Reject(t)

TaskStep(t) ==
  \/ WorkerStep(t) \/ ExecutorExits(t) \/ WorkerLost(t) \/ LakeFSStep(t)
  \/ Poll(t) \/ TimeOut(t) \/ Report(t)

\* Everything has ended; the final state repeats.
Ended ==
  /\ workflow # "RUNNING"
  /\ \A t \in Task : phase[t] \in {"idle", "lost", "done"} /\ ~InFlight(t)
  /\ UNCHANGED vars

Next == (\E t \in Task : TaskStep(t)) \/ Retry \/ Ended

Spec == Init /\ [][Next]_vars

\* Workers keep running, LakeFS answers, Conductor delivers, times out what
\* nobody works on any more and retries.
Fairness ==
  /\ \A t \in Task :
       /\ WF_vars(WorkerStep(t))
       /\ WF_vars(LakeFSStep(t))
       /\ WF_vars(Poll(t))
       /\ WF_vars(Report(t))
       /\ WF_vars(phase[t] = "lost" /\ TimeOut(t))
  /\ WF_vars(Retry)

FairSpec == Spec /\ Fairness

-----------------------------------------------------------------------------
\* Properties

Accepted == refs[step - 1]     \* the ref the workflow continues from

\* The visible head of the target branch is the accepted ref A or one commit on
\* top of it, whatever attempts crashed, stalled or were retried: a replaced
\* publication H never stays below its replacement (A -> H -> C).
TargetExplained == target = Accepted \/ parent[target] = Accepted

\* The outputs Conductor accepted form a chain: each completed step leaves its
\* input ref or one commit directly on top of it, so no step's work is built on
\* an abandoned publication or skips the result of the step before.
AcceptedLineage ==
  \A s \in 1..(step - 1) : refs[s] = refs[s - 1] \/ parent[refs[s]] = refs[s - 1]

\* An attempt that may still update the target branch finds a head it can
\* explain: under the operating rules the publish fence rejects nobody, not even
\* a stale attempt that raced its own retry.
PublishFenceHolds ==
  \A t \in Task : phase[t] \in {"publish", "noop"} =>
                   target = Input(t) \/ parent[target] = Input(t)

\* No update of an earlier step's attempt is still on its way to the target
\* branch when Conductor has gone on to the next step.
UpdatesOfCurrentStep == \A t \in Task : Window(t) => StepOf(t) = step

\* Between the end of its update and Conductor's acceptance an attempt holds an
\* output ref that stays the visible head, although nothing is locked; a
\* read-only attempt, which no fence checks, holds its input ref likewise.
HeldResultIsVisible ==
  \A t \in Task : status[t] = "IN_PROGRESS" /\ result[t].status = "COMPLETED" =>
                   target = result[t].ref

\* Whatever stage_workspace returned is cleaned up before the attempt reports,
\* on every path through run_workspace_task_attempt that runs its finally block.
StagedIsCleaned ==
  \A t \in Task : phase[t] = "report" => staging[t] # "committed"

\* Crashes, timeouts and lost results never leave the workflow hanging: it
\* completes or fails.
WorkflowEnds == <>(workflow # "RUNNING")

\* A publication whose attempt never completed does not stay visible: a retry
\* replaces, relocates or completes it, unless the workflow fails.
AbandonedIsResolved ==
  target # Accepted ~> (target = Accepted \/ workflow = "FAILED")

\* What a reader of the branch is promised (WorkspaceHistory): accepted refs are
\* appended one by one, each being the head that is visible at that moment.
AcceptedRefs == [s \in 1..step |-> refs[s - 1]]
PendingHead ==
  IF target = Accepted THEN <<>>
  ELSE IF parent[target] = Accepted THEN <<target>>
  ELSE <<parent[target], target>>

History == INSTANCE WorkspaceHistory WITH accepted <- AcceptedRefs, pending <- PendingHead
HistorySpec == History!Spec
=============================================================================
