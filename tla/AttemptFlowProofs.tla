-------------------------- MODULE AttemptFlowProofs --------------------------
(***************************************************************************)
(* Proofs about the attempt flow: for any segments and contents, any task  *)
(* declarations, any trees bodies may leave behind, and any number of      *)
(* tasks and retries.                                                      *)
(***************************************************************************)
EXTENDS AttemptFlow, WorkspaceSyncProofs

Before == {"input", "download", "pre", "body", "free"}
Staging == {"create", "delete", "upload", "commit", "publish"}
Writing == {"noop"} \cup Staging
InWorkspace == {"input", "download", "pre", "body", "post", "checked"} \cup Writing

\* What has been downloaded is what is compared against, and what the pre guardrails
\* and the body see.
Fetched ==
  LET downloaded == Downloaded(task.prefix, content)
  IN /\ pc \in {"pre", "body"} => tree = downloaded
     /\ pc \in {"pre", "body", "post", "checked"} \cup Writing /\ ~task.readOnly =>
          initial = Snapshot(downloaded)
     /\ pc \in {"pre", "body", "post", "checked"} \cup Writing =>
          ~DownloadRaises(task.prefix, content)

\* Who writes has compared, and satisfied the post guardrails.
Compared ==
  /\ pc \in Writing => ~task.readOnly
  /\ pc \in {"checked"} \cup Writing => CheckGuardrails(task.post, tree)
  /\ pc = "noop" => Snapshot(tree) = initial
  /\ pc \in Staging => Snapshot(tree) # initial

\* How far the staging branch has come.
Staged ==
  LET deleted == AfterDeletes(task.prefix, content, tree)
  IN /\ pc = "delete" => staging = content
     /\ pc = "upload" => staging = deleted
     /\ pc \in {"commit", "publish"} => staging = AfterUploads(task.prefix, deleted, tree)
     /\ pc \in {"upload", "commit", "publish"} => Links(tree) = {}

\* The ref of a completed attempt, until it is reported.
Completed ==
  /\ CompletedIsPublished
  /\ PublishedMeetsPost
  /\ DownloadableAgain
  /\ pc \in {"cleanup", "report"} /\ result.status = "COMPLETED" =>
       Outside(task.prefix, result.ref) = Outside(task.prefix, content)

FlowInv ==
  /\ TypeOK
  /\ pc \in InWorkspace => task.workspace
  /\ pc = "free" => ~task.workspace
  /\ pc \in Before => outcome = NoOutcome
  /\ pc \in {"post", "checked"} \cup Writing =>
       outcome.kind \in {"valid", "invalid"} /\ tree \in BodyTrees
  /\ Fetched
  /\ Compared
  /\ Staged
  /\ Completed
  /\ TerminalForCause
  /\ TerminalIsReported

-----------------------------------------------------------------------------
LEMMA NothingIs == IsContent(Nothing) /\ IsTree(Nothing)
BY DEF Nothing, IsContent, IsTree, Restrict

LEMMA PreparedIsTree == IsTree(Prepared)
BY MarkerIsPath, SyncAssumption DEF Prepared, IsTree, Restrict

\* Which result an exception becomes.
LEMMA FailureResult ==
  ASSUME NEW exception, NEW output \in Metadata
  PROVE  LET r == ResultFor(exception, output)
         IN /\ r.status \in {"lost", "FAILED", "FAILED_WITH_TERMINAL_ERROR"}
            /\ r.output \in {"none", "json"}
            /\ IsContent(r.ref)
            /\ r.status = "FAILED_WITH_TERMINAL_ERROR" =>
                 exception \in {"TaskTerminalError", "PreGuardrailViolation"}
            /\ IsJson(output) /\ exception = "TaskTerminalError" =>
                 r.status = "FAILED_WITH_TERMINAL_ERROR" /\ r.output = output
<1>1. /\ \A status : Result(status, output, Nothing).status = status
      /\ \A status : Result(status, output, Nothing).output = output
      /\ \A status : Result(status, output, Nothing).ref = Nothing
      /\ Result("lost", "none", Nothing) = [status |-> "lost", output |-> "none", ref |-> Nothing]
  BY DEF Result
<1>2. CASE exception \in {"TaskTerminalError", "PreGuardrailViolation"}
  BY <1>1, <1>2, NothingIs DEF ResultFor, Failure, IsJson, Metadata
<1>3. CASE exception \notin {"TaskTerminalError", "PreGuardrailViolation"}
  BY <1>1, <1>3, NothingIs DEF ResultFor, Failure, IsJson, Metadata
<1>. QED
  BY <1>2, <1>3

LEMMA SpecPrefix ==
  ASSUME NEW s \in TaskSpecs
  PROVE  s.prefix \in Prefix /\ s.workspace \in BOOLEAN /\ s.readOnly \in BOOLEAN
BY FlowAssumption DEF IsTaskSpec

\* A tree without links that satisfies a guardrail about files has, as far as it is
\* published, the files it asks for and not those it forbids.
LEMMA FilesMeetPost ==
  ASSUME NEW s \in TaskSpecs, NEW t, IsTree(t), Links(t) = {}, CheckGuardrails(s.post, t),
         NEW g \in s.post
  PROVE  /\ g.kind = "require_file" => {p \in g.paths : ~MarkerNamed(p)} \subseteq DOMAIN Files(t)
         /\ g.kind = "forbid_glob" => DOMAIN Files(t) \cap g.paths = {}
<1>1. DOMAIN Files(t) = Regular(t) /\ Regular(t) \subseteq DOMAIN t
  BY DEF Files, Restrict, Regular
<1>2. ValidGuardrail(g) /\ Holds(g, t)
  BY FlowAssumption DEF IsTaskSpec, CheckGuardrails
<1>3. ASSUME g.kind = "require_file", NEW p \in g.paths, ~MarkerNamed(p)
      PROVE  p \in Regular(t)
  <2>1. g.paths = {p}
    BY <1>2, <1>3 DEF ValidGuardrail
  <2>2. \E q \in DOMAIN t \cap g.paths : t[q] # Dir
    BY <1>2, <1>3 DEF Holds
  <2>3. p \in DOMAIN t /\ t[p] # Dir
    BY <2>1, <2>2
  <2>. QED
    BY <1>3, <2>3 DEF IsTree, Links, Regular
<1>4. g.kind = "forbid_glob" => DOMAIN t \cap g.paths = {}
  BY <1>2 DEF Holds
<1>. QED
  BY <1>1, <1>3, <1>4

-----------------------------------------------------------------------------
\* The invariant's steps.  Every definition that only looks at pc is expanded;
\* what is in trees and refs is left to the lemmas.

LEMMA FlowInit == Init => FlowInv
BY NothingIs, FlowAssumption
   DEF Init, FlowInv, TypeOK, InWorkspace, Before, Writing, Staging, Fetched, Compared, Staged,
       Completed, CompletedIsPublished, PublishedMeetsPost, DownloadableAgain, Published,
       TerminalForCause,
       TerminalIsReported, NoResult, Result, Locations, NoOutcome

\* An attempt that is under way, and fails with an exception of the runtime.
LEMMA FailStep ==
  ASSUME FlowInv, NEW exception, Fail(exception),
         pc \in InWorkspace \cup {"free"},
         exception # "TaskTerminalError",
         exception = "PreGuardrailViolation" =>
           pc = "pre" /\ ~CheckGuardrails(task.pre, tree)
  PROVE  FlowInv'
<1> DEFINE r == ResultFor(exception, "none")
<1>1. /\ result' = r /\ pc' = "cleanup"
      /\ UNCHANGED <<tree, initial, outcome, staging, workflow, step, retry, task, content>>
  BY DEF Fail, Raise, End, workflowVars
<1>2. /\ r.status \in {"lost", "FAILED", "FAILED_WITH_TERMINAL_ERROR"}
      /\ r.output \in {"none", "json"}
      /\ IsContent(r.ref)
      /\ r.status = "FAILED_WITH_TERMINAL_ERROR" => exception = "PreGuardrailViolation"
  BY FailureResult DEF Metadata
<1>3. outcome.kind # "TaskTerminalError"
  BY DEF FlowInv, InWorkspace, Before, NoOutcome, Writing, Staging
<1>4. TypeOK'
  BY <1>1, <1>2 DEF FlowInv, TypeOK, Locations
<1>5. TerminalForCause'
  <2>1. exception = "PreGuardrailViolation" =>
          outcome = NoOutcome /\ task.workspace /\ tree = Downloaded(task.prefix, content)
    BY DEF FlowInv, Fetched, Before, InWorkspace
  <2>. QED
    BY <1>1, <1>2, <2>1 DEF TerminalForCause
<1>6. TerminalIsReported'
  BY <1>1, <1>3 DEF TerminalIsReported
<1>7. Completed'
  BY <1>1, <1>2
     DEF Completed, CompletedIsPublished, PublishedMeetsPost, DownloadableAgain, Published
<1>. QED
  BY <1>1, <1>4, <1>5, <1>6, <1>7
     DEF FlowInv, InWorkspace, Before, Writing, Staging, Fetched, Compared, Staged

\* Code of the task that raises or exits, or returns, without a workspace, what is no
\* result.
LEMMA EscapeStep ==
  ASSUME FlowInv, NEW o \in BodyOutcomes, outcome' = o, IsTree(tree'),
         Escapes(o) \/ (o.kind = "invalid" /\ Raise("ValidationError")),
         UNCHANGED <<initial, staging, workflow, step, retry, task, content>>
  PROVE  FlowInv'
<1>1. PICK r : /\ result' = r /\ pc' = "cleanup"
               /\ \/ o.kind = "exit" /\ r = Result("lost", "none", Nothing)
                  \/ /\ o.kind \in {"Exception", "PreGuardrailViolation"}
                     /\ r = ResultFor(o.kind, "none")
                  \/ o.kind = "invalid" /\ r = ResultFor("ValidationError", "none")
                  \/ /\ o.kind \in {"TaskFailed", "TaskTerminalError"}
                     /\ r = ResultFor(Raised(o), Captured(o))
  BY DEF Escapes, End, Raise
<1>2. /\ o.given \in Metadata
      /\ o.kind \in {"valid", "invalid", "exit", "Exception", "PreGuardrailViolation",
                    "TaskFailed", "TaskTerminalError"}
  BY DEF BodyOutcomes, Metadata
<1>3. Captured(o) \in Metadata
  BY <1>2 DEF Captured, Metadata
<1>4. Raised(o) \in {o.kind, "TypeError"}
  BY DEF Raised
<1>5. /\ r.status \in {"lost", "FAILED", "FAILED_WITH_TERMINAL_ERROR"}
      /\ r.output \in {"none", "json"}
      /\ IsContent(r.ref)
      /\ r.status = "FAILED_WITH_TERMINAL_ERROR" =>
           o.kind \in {"TaskTerminalError", "PreGuardrailViolation"}
  <2>1. CASE o.kind = "exit" /\ r = Result("lost", "none", Nothing)
    BY <2>1, NothingIs DEF Result
  <2>2. CASE \/ o.kind \in {"Exception", "PreGuardrailViolation"} /\ r = ResultFor(o.kind, "none")
             \/ r = ResultFor("ValidationError", "none")
    BY <2>2, FailureResult DEF Metadata
  <2>3. CASE /\ o.kind \in {"TaskFailed", "TaskTerminalError"}
             /\ r = ResultFor(Raised(o), Captured(o))
    BY <1>3, <1>4, <2>3, FailureResult
  <2>. QED
    BY <1>1, <2>1, <2>2, <2>3
<1>6. o.kind = "TaskTerminalError" =>
        \/ r.status = "FAILED_WITH_TERMINAL_ERROR" /\ r.output = o.given
        \/ o.given = "other" \/ o.changed = "attribute"
  <2> SUFFICES ASSUME o.kind = "TaskTerminalError", o.given # "other", o.changed # "attribute"
               PROVE  r.status = "FAILED_WITH_TERMINAL_ERROR" /\ r.output = o.given
    OBVIOUS
  <2>1. IsJson(o.given)
    BY <1>2 DEF IsJson, Metadata
  <2>2. Captured(o) = o.given /\ Raised(o) = "TaskTerminalError"
    BY <2>1 DEF Captured, Raised
  <2>. QED
    BY <1>1, <1>2, <2>1, <2>2, FailureResult
<1>7. TypeOK'
  BY <1>1, <1>5 DEF FlowInv, TypeOK, Locations
<1>8. TerminalForCause' /\ TerminalIsReported'
  BY <1>1, <1>5, <1>6 DEF TerminalForCause, TerminalIsReported
<1>9. Completed'
  BY <1>1, <1>5
     DEF Completed, CompletedIsPublished, PublishedMeetsPost, DownloadableAgain, Published
<1>. QED
  BY <1>1, <1>7, <1>8, <1>9
     DEF FlowInv, InWorkspace, Before, Writing, Staging, Fetched, Compared, Staged

\* The steps that only move the attempt on.
LEMMA StartStep ==
  ASSUME FlowInv, Poll \/ PrepareWorkspace
  PROVE  FlowInv'
<1> USE DEF FlowInv, TypeOK, Locations, InWorkspace, Before, Writing, Staging, Fetched, Compared,
            Staged, Completed, CompletedIsPublished, PublishedMeetsPost, DownloadableAgain,
            Published,
            TerminalForCause, TerminalIsReported, Go, workflowVars
<1>1. CASE Poll
  BY <1>1, NothingIs DEF Poll, NoResult, Result
<1>2. CASE PrepareWorkspace
  BY <1>2, PreparedIsTree DEF PrepareWorkspace
<1>. QED
  BY <1>1, <1>2

LEMMA DownloadStep ==
  ASSUME FlowInv, Download
  PROVE  FlowInv'
<1> USE DEF FlowInv, TypeOK, Locations, InWorkspace, Before, Writing, Staging, Fetched, Compared,
            Staged, Completed, CompletedIsPublished, PublishedMeetsPost, DownloadableAgain,
            Published,
            TerminalForCause, TerminalIsReported
<1> DEFINE downloaded == Downloaded(task.prefix, content)
<1>1. /\ pc = "download" /\ pc' = "pre"
      /\ tree' = downloaded
      /\ initial' = IF task.readOnly THEN Nothing ELSE Snapshot(downloaded)
      /\ UNCHANGED <<outcome, staging, result, workflow, step, retry, task, content>>
      /\ ~DownloadRaises(task.prefix, content)
  BY DEF Download, Go, workflowVars
<1>2. IsTree(downloaded) /\ IsTree(Snapshot(downloaded))
  BY SpecPrefix, DownloadIsProjection, SnapshotIsTree
<1>. QED
  BY <1>1, <1>2, NothingIs

LEMMA CheckStep ==
  ASSUME FlowInv, CheckPre \/ CheckPost
  PROVE  FlowInv'
<1> USE DEF FlowInv, TypeOK, Locations, InWorkspace, Before, Writing, Staging, Fetched, Compared,
            Staged, Completed, CompletedIsPublished, PublishedMeetsPost, DownloadableAgain,
            Published,
            TerminalForCause, TerminalIsReported, Go, workflowVars
<1>1. CASE CheckPre
  BY <1>1 DEF CheckPre
<1>2. CASE CheckPost
  BY <1>2 DEF CheckPost
<1>. QED
  BY <1>1, <1>2

LEMMA BodyStep ==
  ASSUME FlowInv, RunBody
  PROVE  FlowInv'
<1>1. PICK o \in BodyOutcomes, t \in BodyTrees :
        /\ pc = "body"
        /\ outcome' = o /\ tree' = t
        /\ \/ o.kind \in {"valid", "invalid"} /\ pc' = "post" /\ UNCHANGED result
           \/ Escapes(o)
        /\ UNCHANGED <<initial, staging, workflow, step, retry, task, content>>
  BY DEF RunBody, workflowVars
<1>2. IsTree(t)
  BY FlowAssumption
<1>3. CASE Escapes(o)
  BY <1>1, <1>2, <1>3, EscapeStep
<1>4. CASE o.kind \in {"valid", "invalid"} /\ pc' = "post" /\ UNCHANGED result
  BY <1>1, <1>2, <1>4
     DEF FlowInv, TypeOK, Locations, InWorkspace, Before, Writing, Staging, Fetched, Compared,
         Staged, Completed, CompletedIsPublished, PublishedMeetsPost, DownloadableAgain, Published,
         TerminalForCause, TerminalIsReported
<1>. QED
  BY <1>1, <1>3, <1>4

\* Which files a downloaded tree's snapshot stands for.
LEMMA ComparedFiles ==
  ASSUME NEW s \in TaskSpecs, NEW c, IsContent(c), NEW t,
         Snapshot(t) = Snapshot(Downloaded(s.prefix, c))
  PROVE  Files(t) = Projected(s.prefix, c) /\ Links(t) = {}
BY SpecPrefix, DownloadIsProjection, SnapshotTells

\* The names that publication lets through and a download does not.
OddNames ==
  \/ \E p \in Regular(tree) : ~Canonical(p) \/ (p[1] = Marker /\ Len(p) > 1)
  \/ task.prefix # <<>> /\ task.prefix[1] \in DriveLike

\* A completed attempt of a task that may write: what it needs to have done.
LEMMA CompleteStep ==
  ASSUME FlowInv, NEW c, Complete(c), IsContent(c),
         pc \in {"checked", "noop", "publish", "free"},
         UNCHANGED <<tree, staging, initial, workflow, step, retry, task, content>>,
         outcome' \in BodyOutcomes \cup {NoOutcome}, outcome'.kind # "TaskTerminalError",
         Outside(task.prefix, c) = Outside(task.prefix, content),
         task.workspace /\ ~task.readOnly =>
           /\ Projected(task.prefix, c) = Files(tree)
           /\ Links(tree) = {}
           /\ CheckGuardrails(task.post, tree)
           /\ DownloadRaises(task.prefix, c) => OddNames
  PROVE  FlowInv'
<1>1. /\ pc' = "cleanup"
      /\ result' = [status |-> "COMPLETED", output |-> "json", ref |-> c]
  BY DEF Complete, End, Result
<1>2. task \in TaskSpecs /\ IsTree(tree)
  BY DEF FlowInv, TypeOK
<1>3. TypeOK'
  BY <1>1 DEF FlowInv, TypeOK, Locations
<1>4. CompletedIsPublished'
  BY <1>1 DEF CompletedIsPublished, Published
<1>5. PublishedMeetsPost'
  <2> SUFFICES ASSUME task.workspace, ~task.readOnly, NEW g \in task.post
               PROVE  LET files == DOMAIN Projected(task.prefix, c)
                      IN /\ g.kind = "require_file" => {p \in g.paths : ~MarkerNamed(p)} \subseteq files
                         /\ g.kind = "forbid_glob" => files \cap g.paths = {}
    BY <1>1 DEF PublishedMeetsPost, Published
  <2>. QED
    BY <1>2, FilesMeetPost
<1>6. DownloadableAgain'
  BY <1>1 DEF DownloadableAgain, Published, OddNames
<1>7. Completed'
  BY <1>1, <1>4, <1>5, <1>6 DEF Completed
<1>. QED
  BY <1>1, <1>3, <1>7
     DEF FlowInv, InWorkspace, Before, Writing, Staging, Fetched, Compared, Staged,
         TerminalForCause, TerminalIsReported

LEMMA EndStep ==
  ASSUME FlowInv, CompleteReadOnly \/ CompleteNoop \/ Publish
  PROVE  FlowInv'
<1>1. /\ task \in TaskSpecs /\ IsContent(content) /\ IsTree(tree) /\ IsContent(staging)
      /\ outcome \in BodyOutcomes \cup {NoOutcome}
  BY DEF FlowInv, TypeOK
<1>2. pc \in {"checked", "noop", "publish"} => outcome.kind # "TaskTerminalError"
  BY DEF FlowInv, Writing, Staging
<1>3. CASE CompleteReadOnly
  BY <1>1, <1>2, <1>3, CompleteStep DEF CompleteReadOnly, workflowVars
<1>4. CASE CompleteNoop
  <2>1. Projected(task.prefix, content) = Files(tree) /\ Links(tree) = {}
    <3>1. ~task.readOnly /\ Snapshot(tree) = Snapshot(Downloaded(task.prefix, content))
      BY <1>4 DEF CompleteNoop, FlowInv, Compared, Fetched, Writing, Staging
    <3>. QED
      BY <1>1, <3>1, ComparedFiles
  <2>2. CheckGuardrails(task.post, tree) /\ ~DownloadRaises(task.prefix, content)
    BY <1>4 DEF CompleteNoop, FlowInv, Compared, Fetched, Writing, Staging
  <2>. QED
    BY <1>1, <1>2, <1>4, <2>1, <2>2, CompleteStep DEF CompleteNoop, workflowVars
<1>5. CASE Publish
  <2>1. /\ Projected(task.prefix, staging) = Files(tree)
        /\ Outside(task.prefix, staging) = Outside(task.prefix, content)
    BY <1>1, <1>5, SpecPrefix, StagingIsExact DEF Publish, FlowInv, Staged
  <2>2. CheckGuardrails(task.post, tree) /\ Links(tree) = {}
    BY <1>5 DEF Publish, FlowInv, Compared, Staged, Writing, Staging
  <2>3. DownloadRaises(task.prefix, staging) => OddNames
    <3> SUFFICES ASSUME ~OddNames
                 PROVE  ~DownloadRaises(task.prefix, staging)
      OBVIOUS
    <3>1. /\ staging = AfterUploads(task.prefix, AfterDeletes(task.prefix, content, tree), tree)
          /\ ~DownloadRaises(task.prefix, content)
          /\ tree \in BodyTrees
      BY <1>5 DEF Publish, FlowInv, Staged, Fetched, Writing, Staging
    <3>2. IsClosed(tree)
      BY <3>1, FlowAssumption
    <3>3. task.prefix \in Prefix /\ \A i \in DOMAIN task.prefix : task.prefix[i] \notin Forbidden
      BY <1>1, FlowAssumption DEF IsTaskSpec
    <3>. QED
      BY <1>1, <3>1, <3>2, <3>3, StagedIsDownloadable DEF OddNames
  <2>. QED
    BY <1>1, <1>2, <1>5, <2>1, <2>2, <2>3, CompleteStep DEF Publish, workflowVars
<1>. QED
  BY <1>3, <1>4, <1>5

LEMMA StagingStep ==
  ASSUME FlowInv, CompareWorkspace \/ CreateStaging \/ DeleteStale \/ Upload \/ CommitStaging
  PROVE  FlowInv'
<1> USE DEF FlowInv, TypeOK, Locations, InWorkspace, Before, Writing, Staging, Fetched, Compared,
            Staged, Completed, CompletedIsPublished, PublishedMeetsPost, DownloadableAgain,
            Published,
            TerminalForCause, TerminalIsReported, Go, workflowVars
<1>1. /\ IsContent(AfterDeletes(task.prefix, content, tree))
      /\ IsContent(AfterUploads(task.prefix, AfterDeletes(task.prefix, content, tree), tree))
  BY SpecPrefix, StagingIsExact
<1>2. CASE CompareWorkspace
  BY <1>2 DEF CompareWorkspace
<1>3. CASE CreateStaging
  BY <1>3 DEF CreateStaging
<1>4. CASE DeleteStale
  BY <1>1, <1>4 DEF DeleteStale, PlanRaises
<1>5. CASE Upload
  BY <1>1, <1>5 DEF Upload
<1>6. CASE CommitStaging
  BY <1>6 DEF CommitStaging
<1>. QED
  BY <1>2, <1>3, <1>4, <1>5, <1>6

\* What a failing step raises.
LEMMA FailingStep ==
  ASSUME FlowInv,
         \/ RejectInput \/ DownloadFails \/ CheckPreFails \/ CheckPostFails
         \/ FenceRaises \/ NoopRaises \/ StageRaises \/ PublishRaises
  PROVE  FlowInv'
<1> USE FailStep DEF InWorkspace, Writing, Staging
<1>1. CASE RejectInput \/ DownloadFails
  BY <1>1 DEF RejectInput, DownloadFails
<1>2. CASE CheckPreFails
  <2>1. CASE Fail("ValidationError") \/ (~CheckGuardrails(task.pre, tree) /\ Fail("PreGuardrailViolation"))
    BY <1>2, <2>1 DEF CheckPreFails
  <2>2. ASSUME NEW o \in BodyOutcomes, outcome' = o, Escapes(o),
               UNCHANGED <<tree, initial, staging, workflowVars>>
        PROVE  FlowInv'
    <3>1. IsTree(tree')
      BY <2>2 DEF FlowInv, TypeOK
    <3>. QED
      BY <2>2, <3>1, EscapeStep DEF workflowVars
  <2>. QED
    BY <1>2, <2>1, <2>2 DEF CheckPreFails
<1>3. CASE CheckPostFails
  BY <1>3 DEF CheckPostFails
<1>4. CASE FenceRaises \/ NoopRaises \/ StageRaises
  BY <1>4 DEF FenceRaises, NoopRaises, StageRaises
<1>5. CASE PublishRaises
  BY <1>5 DEF PublishRaises
<1>. QED
  BY <1>1, <1>2, <1>3, <1>4, <1>5

LEMMA FreeStep ==
  ASSUME FlowInv, RunWorkspaceFree
  PROVE  FlowInv'
<1>1. pc = "free" /\ ~task.workspace
  BY DEF RunWorkspaceFree, FlowInv
<1>2. CASE Fail("TaskInputError")
  BY <1>1, <1>2, FailStep
<1>3. ASSUME NEW o \in BodyOutcomes, outcome' = o,
            UNCHANGED <<tree, initial, staging, workflowVars>>,
             Escapes(o) \/ (o.kind = "invalid" /\ Raise("ValidationError"))
      PROVE  FlowInv'
  <2>1. IsTree(tree')
    BY <1>3 DEF FlowInv, TypeOK
  <2>. QED
    BY <1>3, <2>1, EscapeStep DEF workflowVars
<1>4. ASSUME NEW o \in BodyOutcomes, outcome' = o,
            UNCHANGED <<tree, initial, staging, workflowVars>>,
             o.kind = "valid", Complete(content)
      PROVE  FlowInv'
  <2>1. IsContent(content)
    BY DEF FlowInv, TypeOK
  <2>. QED
    BY <1>1, <1>4, <2>1, CompleteStep DEF workflowVars
<1>. QED
  BY <1>2, <1>3, <1>4 DEF RunWorkspaceFree

\* What a completed attempt reports has the rest of the input ref in it.
LEMMA ReportStep ==
  ASSUME FlowInv, CleanUp \/ Report
  PROVE  FlowInv'
<1> USE DEF FlowInv, TypeOK, Locations, InWorkspace, Before, Writing, Staging, Fetched, Compared,
            Staged, Completed, CompletedIsPublished, PublishedMeetsPost, DownloadableAgain,
            Published,
            TerminalForCause, TerminalIsReported, Go, workflowVars
<1>1. CASE CleanUp
  BY <1>1, NothingIs DEF CleanUp
<1>2. CASE Report /\ Accept
  BY <1>2, FlowAssumption DEF Report, Accept
<1>3. CASE Report /\ (RetryOrGiveUp \/ GiveUp)
  BY <1>3, FlowAssumption DEF Report, RetryOrGiveUp, GiveUp
<1>. QED
  BY <1>1, <1>2, <1>3 DEF Report

LEMMA FlowNext ==
  ASSUME FlowInv, [Next]_vars
  PROVE  FlowInv'
<1>1. CASE UNCHANGED vars
  BY <1>1 DEF vars, FlowInv, TypeOK, InWorkspace, Before, Writing, Staging, Fetched, Compared,
              Staged, Completed, CompletedIsPublished, PublishedMeetsPost, DownloadableAgain,
              Published,
              TerminalForCause, TerminalIsReported
<1>. QED
  BY <1>1, StartStep, DownloadStep, CheckStep, BodyStep, EndStep, StagingStep, FailingStep,
     FreeStep, ReportStep DEF Next

-----------------------------------------------------------------------------
(* The strengthened invariant holds throughout. *)
THEOREM FlowInvHolds == Spec => []FlowInv
<1>1. Init => FlowInv
  BY FlowInit
<1>2. FlowInv /\ [Next]_vars => FlowInv'
  BY FlowNext
<1>. QED
  BY <1>1, <1>2, PTL DEF Spec

(* Every variable keeps its type, and what is reported is finite JSON. *)
THEOREM FlowTypeCorrect == Spec => []TypeOK
<1>1. FlowInv => TypeOK
  BY DEF FlowInv
<1>. QED
  BY <1>1, FlowInvHolds, PTL

(* A body finds the files of its input ref under its prefix, and no others. *)
THEOREM BodyInput == Spec => []BodySeesInput
<1>1. FlowInv => BodySeesInput
  BY SpecPrefix, DownloadIsProjection DEF FlowInv, TypeOK, Fetched, BodySeesInput
<1>. QED
  BY <1>1, FlowInvHolds, PTL

(* The ref a writing task completes with has exactly the files the task left under
   its prefix, whether it was published or the input ref was kept. *)
THEOREM CompletedAsLeft == Spec => []CompletedIsPublished
<1>1. FlowInv => CompletedIsPublished
  BY DEF FlowInv, Completed
<1>. QED
  BY <1>1, FlowInvHolds, PTL

(* What the post guardrails say of files holds of that ref. *)
THEOREM GuardrailsPublished == Spec => []PublishedMeetsPost
<1>1. FlowInv => PublishedMeetsPost
  BY DEF FlowInv, Completed
<1>. QED
  BY <1>1, FlowInvHolds, PTL

(* What a task publishes can be downloaded again, up to the three kinds of names. *)
THEOREM PublishedIsReadable == Spec => []DownloadableAgain
<1>1. FlowInv => DownloadableAgain
  BY DEF FlowInv, Completed
<1>. QED
  BY <1>1, FlowInvHolds, PTL

(* The two ways of scanning a tree agree: who publishes has something to commit. *)
THEOREM SomethingToCommit == Spec => []NoEmptyCommit
<1>1. FlowInv => NoEmptyCommit
  <2> SUFFICES ASSUME FlowInv, pc = "publish", staging = content
               PROVE  FALSE
    BY DEF NoEmptyCommit
  <2> DEFINE downloaded == Downloaded(task.prefix, content)
  <2>1. task \in TaskSpecs /\ IsContent(content) /\ IsTree(tree)
    BY DEF FlowInv, TypeOK
  <2>2. Snapshot(tree) # Snapshot(downloaded) /\ Links(tree) = {}
    BY DEF FlowInv, Fetched, Compared, Staged, Writing, Staging
  <2>3. Projected(task.prefix, content) = Files(tree)
    BY <2>1, SpecPrefix, StagingIsExact DEF FlowInv, Staged
  <2>4. Files(downloaded) = Files(tree) /\ Links(downloaded) = {}
    BY <2>1, <2>3, SpecPrefix, DownloadIsProjection
  <2>. QED
    BY <2>2, <2>4, SnapshotIsFiles
<1>. QED
  BY <1>1, FlowInvHolds, PTL

(* A task's output differs from its input under the task's prefix only. *)
THEOREM NothingElseChanges == Spec => OutsideUntouched
<1>1. FlowInv /\ [Next]_vars =>
        [content' # content => Outside(task.prefix, content') = Outside(task.prefix, content)]_vars
  <2> SUFFICES ASSUME FlowInv, Next, content' # content
               PROVE  Outside(task.prefix, content') = Outside(task.prefix, content)
    OBVIOUS
  <2>1. Report /\ Accept
    BY DEF Next, Poll, PrepareWorkspace, RejectInput, Download, DownloadFails, CheckPre,
           CheckPreFails, RunBody, CheckPost, CheckPostFails, CompleteReadOnly, CompareWorkspace,
           FenceRaises, CompleteNoop, NoopRaises, CreateStaging, DeleteStale, Upload,
           CommitStaging, StageRaises, Publish, PublishRaises, RunWorkspaceFree, CleanUp, Fail,
           Report, RetryOrGiveUp, GiveUp, workflowVars
  <2>. QED
    BY <2>1 DEF Report, Accept, Go, FlowInv, Completed
<1>. QED
  BY <1>1, FlowInvHolds, PTL DEF Spec, OutsideUntouched

(* The retries end only where the task's own code or the input ref gives the cause. *)
THEOREM TerminalHasCause == Spec => []TerminalForCause
<1>1. FlowInv => TerminalForCause
  BY DEF FlowInv
<1>. QED
  BY <1>1, FlowInvHolds, PTL

(* A body's verdict that retrying is pointless is reported, with its metadata. *)
THEOREM VerdictIsReported == Spec => []TerminalIsReported
<1>1. FlowInv => TerminalIsReported
  BY DEF FlowInv
<1>. QED
  BY <1>1, FlowInvHolds, PTL
=============================================================================
