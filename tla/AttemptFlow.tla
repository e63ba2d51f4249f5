---------------------------- MODULE AttemptFlow ----------------------------
(***************************************************************************)
(* One attempt after the other, from the polled input to the reported      *)
(* result: run_workspace_task_attempt and run_workspace_free_task_attempt  *)
(* (execution.py) with the data that Publication leaves out - what is in   *)
(* the workspace, what the body does to it, and which result each failure  *)
(* becomes (result.py, errors.py).                                         *)
(*                                                                         *)
(* The branch, the fences' answers and concurrent attempts are             *)
(* Publication's subject: here a fence passes or raises, a publication     *)
(* returns or raises, and a completed attempt's output is the next input.  *)
(* What a failing cleanup leaves behind is not followed.                   *)
(***************************************************************************)
EXTENDS WorkspaceSync

CONSTANTS
  TaskSpecs,       \* task declarations the workflow is made of
  InitialContents, \* contents of the first input ref
  BodyTrees,       \* trees task bodies leave behind
  MaxSteps,        \* bound: tasks of a workflow
  MaxRetries       \* TaskControls.retry.count

\* Failure metadata: none, finite JSON, anything else.
Metadata == {"none", "json", "other"}

\* What a task's own code does: the body returns a result its model accepts or
\* rejects, or the code exits the process or raises an exception - any, also the one
\* with which the runtime reports its pre guardrails, which the package exports.  A
\* task-authored failure gets metadata, and afterwards its author may change the
\* object passed, or the attribute itself.
NoOutcome == [kind |-> "none", given |-> "none", changed |-> "no"]
BodyOutcomes ==
  [kind : {"valid", "invalid", "exit", "Exception", "PreGuardrailViolation"}, given : {"none"},
   changed : {"no"}]
    \cup [kind : {"TaskFailed", "TaskTerminalError"}, given : Metadata,
          changed : {"no", "argument", "attribute"}]

IsTaskSpec(s) ==
  /\ DOMAIN s = {"workspace", "prefix", "pre", "post", "readOnly"}
  /\ s.workspace \in BOOLEAN /\ s.readOnly \in BOOLEAN
  /\ s.prefix \in Prefix
  /\ \A i \in DOMAIN s.prefix : s.prefix[i] \notin Forbidden
  /\ \A g \in s.pre \cup s.post : ValidGuardrail(g)

ASSUME FlowAssumption ==
  /\ \A s \in TaskSpecs : IsTaskSpec(s)
  /\ \A c \in InitialContents : IsContent(c)
  /\ \A t \in BodyTrees : IsTree(t) /\ IsClosed(t)
  /\ MaxSteps \in Nat \ {0}
  /\ MaxRetries \in Nat

VARIABLES
  workflow,   \* "running", "completed" or "failed"
  step, retry,
  task,       \* declaration of the step's task
  content,    \* objects of the step's input ref
  pc,         \* where the attempt is
  tree,       \* its attempt workspace
  initial,    \* initial_snapshot
  outcome,    \* what the task's code did in it
  staging,    \* objects on its staging branch
  result      \* what it will report

workflowVars == <<workflow, step, retry, task, content>>
attemptVars == <<pc, tree, initial, outcome, staging, result>>
vars == <<workflow, step, retry, task, content, pc, tree, initial, outcome, staging, result>>

Nothing == [p \in {} |-> MarkerText]   \* the empty function

\* status "lost": the attempt ends with an exception instead of a result.
Result(status, output, ref) == [status |-> status, output |-> output, ref |-> ref]
NoResult == Result("none", "none", Nothing)

Locations ==
  {"idle", "free", "input", "download", "pre", "body", "post", "checked", "noop",
   "create", "delete", "upload", "commit", "publish", "cleanup", "report"}

(* What holds of the variables' types; whatever is reported is finite JSON. *)
TypeOK ==
  /\ workflow \in {"running", "completed", "failed"}
  /\ step \in 1..MaxSteps
  /\ retry \in 0..MaxRetries
  /\ task \in TaskSpecs
  /\ IsContent(content)
  /\ pc \in Locations
  /\ IsTree(tree)
  /\ IsTree(initial)
  /\ outcome \in BodyOutcomes \cup {NoOutcome}
  /\ IsContent(staging)
  /\ result.status \in {"none", "lost", "COMPLETED", "FAILED", "FAILED_WITH_TERMINAL_ERROR"}
  /\ result.output \in {"none", "json"}
  /\ IsContent(result.ref)

Init ==
  /\ workflow = "running"
  /\ step = 1
  /\ retry = 0
  /\ task \in TaskSpecs
  /\ content \in InitialContents
  /\ pc = "idle"
  /\ tree = Nothing
  /\ initial = Nothing
  /\ outcome = NoOutcome
  /\ staging = Nothing
  /\ result = NoResult

-----------------------------------------------------------------------------
\* Results

\* snapshot_failure_output rejects what is not finite JSON.
IsJson(m) == m \in {"none", "json"}

\* failed_result and terminal_failed_result: RuntimeTaskResult checks the metadata
\* once more, and an exception raised by the except clause leaves the attempt.
Failure(status, output) ==
  IF IsJson(output) THEN Result(status, output, Nothing) ELSE Result("lost", "none", Nothing)

\* Mutant: tests for GuardrailViolation, the base class.
ResultForBaseClass(exception, output) ==
  CASE exception \in {"TaskTerminalError", "PreGuardrailViolation", "PostGuardrailViolation"} ->
         Failure("FAILED_WITH_TERMINAL_ERROR", output)
    [] OTHER -> Failure("FAILED", output)

\* result_for_exception; the reason is cut to its maximal length.
ResultFor(exception, output) ==
  CASE exception \in {"TaskTerminalError", "PreGuardrailViolation"} ->
         Failure("FAILED_WITH_TERMINAL_ERROR", output)
    [] OTHER -> Failure("FAILED", output)

\* TaskExecutionError.__init__ raises TypeError for metadata that is not JSON and
\* else keeps a copy of it.
Raised(o) == IF IsJson(o.given) THEN o.kind ELSE "TypeError"

\* Mutant: keeps the caller's object.
CapturedAlias(o) ==
  IF ~IsJson(o.given) THEN "none"
  ELSE IF o.changed # "no" /\ o.given = "json" THEN "other" ELSE o.given

Captured(o) ==
  IF ~IsJson(o.given) THEN "none"
  ELSE IF o.changed = "attribute" THEN "other" ELSE o.given

End(r) == result' = r /\ pc' = "cleanup"
Raise(exception) == End(ResultFor(exception, "none"))
Complete(c) == End(Result("COMPLETED", "json", c))

-----------------------------------------------------------------------------
\* An attempt's steps

Go(from, to) == pc = from /\ pc' = to

\* The SDK polls a task of the workflow (Conductor: the step's next attempt).
Poll ==
  /\ workflow = "running"
  /\ Go("idle", IF task.workspace THEN "input" ELSE "free")
  /\ outcome' = NoOutcome
  /\ result' = NoResult
  /\ UNCHANGED <<tree, initial, staging>>
  /\ UNCHANGED workflowVars

\* A step that LakeFS, Conductor or the disk fails, or for which the input or the
\* body's result is not what the contract asks for.  What it has half done is in
\* the workspace or the staging branch only, which nothing reads any more.
Fail(exception) ==
  /\ Raise(exception)
  /\ UNCHANGED <<tree, initial, outcome, staging>>
  /\ UNCHANGED workflowVars

PrepareWorkspace ==
  /\ Go("input", "download")
  /\ tree' = Prepared
  /\ UNCHANGED <<initial, outcome, staging, result>>
  /\ UNCHANGED workflowVars

RejectInput == pc = "input" /\ Fail("TaskInputError")

\* download_workspace and the first snapshot.
Download ==
  /\ Go("download", "pre")
  /\ ~DownloadRaises(task.prefix, content)
  /\ tree' = Downloaded(task.prefix, content)
  /\ initial' = IF task.readOnly THEN Nothing ELSE Snapshot(tree')
  /\ UNCHANGED <<outcome, staging, result>>
  /\ UNCHANGED workflowVars

DownloadFails == pc = "download" /\ Fail("Exception")

\* invoke_workspace_task_body up to the call of task.fn.
CheckPre ==
  /\ Go("pre", "body")
  /\ CheckGuardrails(task.pre, tree)
  /\ UNCHANGED <<tree, initial, outcome, staging, result>>
  /\ UNCHANGED workflowVars

\* The task's code ends without a result: the body, or a validator of one of its models.
Escapes(o) ==
  \/ o.kind = "exit" /\ End(Result("lost", "none", Nothing))
  \/ o.kind \in {"Exception", "PreGuardrailViolation"} /\ Raise(o.kind)
  \/ o.kind \in {"TaskFailed", "TaskTerminalError"} /\ End(ResultFor(Raised(o), Captured(o)))

CheckPreFails ==
  /\ pc = "pre"
  /\ \/ Fail("ValidationError")
     \/ /\ \E o \in BodyOutcomes : outcome' = o /\ Escapes(o)
        /\ UNCHANGED <<tree, initial, staging>>
        /\ UNCHANGED workflowVars
     \/ ~CheckGuardrails(task.pre, tree) /\ Fail("PreGuardrailViolation")

RunBody ==
  /\ pc = "body"
  /\ \E o \in BodyOutcomes, t \in BodyTrees :
       /\ outcome' = o
       /\ tree' = t
       /\ \/ o.kind \in {"valid", "invalid"} /\ pc' = "post" /\ UNCHANGED result
          \/ Escapes(o)
  /\ UNCHANGED <<initial, staging>>
  /\ UNCHANGED workflowVars

\* _validate_result and the post guardrails.
CheckPost ==
  /\ Go("post", "checked")
  /\ outcome.kind = "valid"
  /\ CheckGuardrails(task.post, tree)
  /\ UNCHANGED <<tree, initial, outcome, staging, result>>
  /\ UNCHANGED workflowVars

CheckPostFails ==
  /\ pc = "post"
  /\ \/ outcome.kind = "invalid" /\ Fail("ValidationError")
     \/ /\ outcome.kind = "valid"
        /\ ~CheckGuardrails(task.post, tree)
        /\ Fail("PostGuardrailViolation")

CompleteReadOnly ==
  /\ pc = "checked"
  /\ task.readOnly
  /\ Complete(content)
  /\ UNCHANGED <<tree, initial, outcome, staging>>
  /\ UNCHANGED workflowVars

\* The comparison and the first fence.
CompareWorkspace ==
  /\ ~task.readOnly
  /\ Go("checked", IF Snapshot(tree) = initial THEN "noop" ELSE "create")
  /\ UNCHANGED <<tree, initial, outcome, staging, result>>
  /\ UNCHANGED workflowVars

FenceRaises == pc = "checked" /\ ~task.readOnly /\ Fail("StaleAttemptError")

CompleteNoop ==
  /\ pc = "noop"
  /\ Complete(content)
  /\ UNCHANGED <<tree, initial, outcome, staging>>
  /\ UNCHANGED workflowVars

NoopRaises == pc = "noop" /\ Fail("PublishFenceError")

\* stage_workspace: branch, plan and deletes, uploads, commit.
CreateStaging ==
  /\ Go("create", "delete")
  /\ staging' = content
  /\ UNCHANGED <<tree, initial, outcome, result>>
  /\ UNCHANGED workflowVars

DeleteStale ==
  /\ Go("delete", "upload")
  /\ ~PlanRaises(task.prefix, staging, tree)
  /\ staging' = AfterDeletes(task.prefix, staging, tree)
  /\ UNCHANGED <<tree, initial, outcome, result>>
  /\ UNCHANGED workflowVars

Upload ==
  /\ Go("upload", "commit")
  /\ staging' = AfterUploads(task.prefix, staging, tree)
  /\ UNCHANGED <<tree, initial, outcome, result>>
  /\ UNCHANGED workflowVars

CommitStaging ==
  /\ Go("commit", "publish")
  /\ UNCHANGED <<tree, initial, outcome, staging, result>>
  /\ UNCHANGED workflowVars

StageRaises == pc \in {"create", "delete", "upload", "commit"} /\ Fail("Exception")

\* The second fence and publish_workspace.
Publish ==
  /\ pc = "publish"
  /\ Complete(staging)
  /\ UNCHANGED <<tree, initial, outcome, staging>>
  /\ UNCHANGED workflowVars

PublishRaises ==
  pc = "publish" /\ \E e \in {"StaleAttemptError", "PublishFenceError", "Exception"} : Fail(e)

\* run_workspace_free_task_attempt
RunWorkspaceFree ==
  /\ pc = "free"
  /\ \/ Fail("TaskInputError")
     \/ /\ \E o \in BodyOutcomes :
             /\ outcome' = o
             /\ \/ o.kind = "valid" /\ Complete(content)
                \/ o.kind = "invalid" /\ Raise("ValidationError")
                \/ Escapes(o)
        /\ UNCHANGED <<tree, initial, staging>>
        /\ UNCHANGED workflowVars

\* The finally clause.
CleanUp ==
  /\ Go("cleanup", "report")
  /\ tree' = Nothing
  /\ initial' = Nothing
  /\ staging' = Nothing
  /\ UNCHANGED <<outcome, result>>
  /\ UNCHANGED workflowVars

-----------------------------------------------------------------------------
\* Conductor

\* The next task of the workflow takes the output as its input.
Accept ==
  /\ result.status = "COMPLETED"
  /\ content' = result.ref
  /\ retry' = 0
  /\ IF step < MaxSteps
     THEN step' = step + 1 /\ task' \in TaskSpecs /\ UNCHANGED workflow
     ELSE workflow' = "completed" /\ UNCHANGED <<step, task>>

\* A failed attempt is repeated with the same input; one that reported nothing is
\* failed by the broker, or timed out.
RetryOrGiveUp ==
  /\ result.status \in {"FAILED", "lost"}
  /\ IF retry < MaxRetries
     THEN retry' = retry + 1 /\ UNCHANGED workflow
     ELSE workflow' = "failed" /\ UNCHANGED retry
  /\ UNCHANGED <<step, task, content>>

GiveUp ==
  /\ result.status = "FAILED_WITH_TERMINAL_ERROR"
  /\ workflow' = "failed"
  /\ UNCHANGED <<step, retry, task, content>>

Report ==
  /\ Go("report", "idle")
  /\ Accept \/ RetryOrGiveUp \/ GiveUp
  /\ UNCHANGED <<tree, initial, outcome, staging, result>>

Next ==
  \/ Poll \/ PrepareWorkspace \/ RejectInput \/ Download \/ DownloadFails
  \/ CheckPre \/ CheckPreFails \/ RunBody \/ CheckPost \/ CheckPostFails
  \/ CompleteReadOnly \/ CompareWorkspace \/ FenceRaises
  \/ CompleteNoop \/ NoopRaises
  \/ CreateStaging \/ DeleteStale \/ Upload \/ CommitStaging \/ StageRaises
  \/ Publish \/ PublishRaises \/ RunWorkspaceFree \/ CleanUp \/ Report

Spec == Init /\ [][Next]_vars

-----------------------------------------------------------------------------
\* Properties

Published ==
  pc = "cleanup" /\ result.status = "COMPLETED" /\ task.workspace /\ ~task.readOnly

(* The body finds the input ref's objects under its prefix, no others, and nothing
   that an earlier attempt left. *)
BodySeesInput == pc = "body" => Files(tree) = Projected(task.prefix, content)

(* Every file a completed writable task leaves is in the ref it reports, with that
   content, and what it removed is not: also when nothing is published because
   the two snapshots are equal. *)
CompletedIsPublished == Published => Projected(task.prefix, result.ref) = Files(tree)

(* A task changes nothing outside its prefix, neither siblings whose names begin
   with the prefix's string nor objects named like the marker. *)
OutsideUntouched ==
  [][content' # content => Outside(task.prefix, content') = Outside(task.prefix, content)]_vars

(* What is committed differs from the input ref: a difference that publication does
   not carry - directories, the marker - never leads to an empty commit. *)
NoEmptyCommit == pc = "publish" => staging # content

(* What the post guardrails promised of files holds of the ref that is reported: a
   required file is in it, although is_file also accepts a link, and no file that
   a forbidden pattern matches. *)
PublishedMeetsPost ==
  Published => \A g \in task.post :
    LET files == DOMAIN Projected(task.prefix, result.ref)
    IN /\ g.kind = "require_file" => {p \in g.paths : ~MarkerNamed(p)} \subseteq files
       /\ g.kind = "forbid_glob" => files \cap g.paths = {}

(* What a task publishes can be downloaded again by a task with the same prefix.
   Three ways of naming are let through that cannot: a file with a name no path
   string may have, a prefix like a drive, a directory in the marker's place. *)
DownloadableAgain ==
  Published /\ DownloadRaises(task.prefix, result.ref) =>
    \/ \E p \in Regular(tree) : ~Canonical(p) \/ (p[1] = Marker /\ Len(p) > 1)
    \/ task.prefix # <<>> /\ task.prefix[1] \in DriveLike

(* The retries are given up only where the task says so, by raising one of the two
   exceptions that stand for it, or where the input ref itself fails a pre guardrail
   and no code of the task has ended the attempt: never for what LakeFS, a fence, a
   post guardrail or a rejected input or result raises. *)
TerminalForCause ==
  pc = "cleanup" /\ result.status = "FAILED_WITH_TERMINAL_ERROR" =>
    \/ outcome.kind \in {"TaskTerminalError", "PreGuardrailViolation"}
    \/ /\ outcome = NoOutcome
       /\ task.workspace
       /\ ~CheckGuardrails(task.pre, Downloaded(task.prefix, content))

(* A body's verdict that retrying is pointless reaches Conductor, also when its
   author goes on to change the metadata it passed; only metadata that never was
   JSON, or was replaced in the exception, loses it. *)
TerminalIsReported ==
  pc = "cleanup" /\ outcome.kind = "TaskTerminalError" =>
    \/ result.status = "FAILED_WITH_TERMINAL_ERROR" /\ result.output = outcome.given
    \/ outcome.given = "other" \/ outcome.changed = "attribute"
=============================================================================
