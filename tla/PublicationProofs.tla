------------------------- MODULE PublicationProofs -------------------------
(***************************************************************************)
(* Proofs about the publication protocol, for any number of steps and      *)
(* retries, any set of read-only steps.                                    *)
(***************************************************************************)
EXTENDS PublicationInvariant, Sequences, TLAPS

-----------------------------------------------------------------------------
\* Tasks and commits

\* Tasks are pairs of a step and a retry count.
LEMMA TaskFacts ==
  /\ \A t \in Task : StepOf(t) \in 1..Steps /\ RetryCount(t) \in 0..MaxRetries
  /\ \A t \in Task : t = <<StepOf(t), RetryCount(t)>>
  /\ \A s \in 1..Steps, r \in 0..MaxRetries :
       <<s, r>> \in Task /\ StepOf(<<s, r>>) = s /\ RetryCount(<<s, r>>) = r
BY DEF Task, StepOf, RetryCount

\* The names of commits are distinct.
LEMMA CommitFacts ==
  /\ Root \in Commit /\ NoCommit \notin Commit
  /\ \A t \in Task : Staged(t) \in Commit /\ Merged(t) \in Commit
  /\ \A t, u \in Task : Staged(t) # Merged(u)
  /\ \A t, u \in Task : Staged(t) = Staged(u) => t = u
  /\ \A t, u \in Task : Merged(t) = Merged(u) => t = u
  /\ \A t \in Task : Staged(t) # Root /\ Merged(t) # Root
BY DEF Commit, Root, NoCommit, Staged, Merged, Task

-----------------------------------------------------------------------------
\* Type correctness

USE PublicationAssumption

\* Requests and results are built from their parts.
LEMMA RecordFacts ==
  /\ \A op \in {"none", "merge", "reset", "applied", "rejected"}, c \in Commit \cup {NoCommit} :
       [op |-> op, ref |-> c] \in Request
  /\ \A st \in {"none", "COMPLETED", "FAILED", "FAILED_WITH_TERMINAL_ERROR"},
        c \in Commit \cup {NoCommit} : [status |-> st, ref |-> c] \in Result
  /\ NoRequest \in Request /\ NoResult \in Result
  /\ \A q \in Request : q.ref \in Commit \cup {NoCommit}
  /\ \A q \in Result : /\ q.ref \in Commit \cup {NoCommit}
                       /\ q.status \in {"none", "COMPLETED", "FAILED",
                                        "FAILED_WITH_TERMINAL_ERROR"}
BY DEF Request, Result, NoRequest, NoResult


LEMMA TypeInit == Init => TypeOK
BY TaskFacts, CommitFacts, RecordFacts
   DEF Init, TypeOK, Status, Phase

\* Moving on and finishing keep the types of phase and result.
LEMMA FinishType ==
  ASSUME TypeOK, NEW t \in Task,
         NEW st \in {"COMPLETED", "FAILED", "FAILED_WITH_TERMINAL_ERROR"},
         NEW c \in Commit \cup {NoCommit}, Finish(t, st, c)
  PROVE  phase' \in [Task -> Phase] /\ result' \in [Task -> Result]
<1>1. [status |-> st, ref |-> c] \in Result
  BY RecordFacts
<1> QED
  BY <1>1 DEF TypeOK, Finish, Goto, Phase

\* Each action of an execution keeps the types.
LEMMA WorkerType ==
  ASSUME TypeOK, NEW t \in Task, WorkerStep(t) \/ ExecutorExits(t) \/ WorkerLost(t)
  PROVE  TypeOK'
<1>1. Input(t) \in Commit \cup {NoCommit}
  BY TaskFacts DEF Input, TypeOK
<1>2. CASE Body(t)
  <2>1. phase' \in [Task -> Phase] /\ result' \in [Task -> Result]
    BY <1>1, <1>2, FinishType DEF Body, Raise, Goto, Phase, TypeOK
  <2> QED
    BY <1>2, <2>1 DEF Body, TypeOK, conductorVars, lakefsVars
<1>3. CASE FirstFence(t)
  <2>1. phase' \in [Task -> Phase] /\ result' \in [Task -> Result]
    BY <1>3, FinishType DEF FirstFence, Raise, Goto, Phase, TypeOK
  <2> QED
    BY <1>3, <2>1 DEF FirstFence, TypeOK, conductorVars, lakefsVars
<1>4. CASE CreateStaging(t)
  <2>1. phase' \in [Task -> Phase] /\ result' \in [Task -> Result]
    BY <1>4, FinishType DEF CreateStaging, Raise, Goto, Phase, TypeOK
  <2> QED
    BY <1>4, <2>1 DEF CreateStaging, TypeOK, conductorVars
<1>5. CASE CommitStaging(t)
  <2>1. phase' \in [Task -> Phase] /\ result' \in [Task -> Result]
    BY <1>5, FinishType DEF CommitStaging, Raise, Goto, Phase, TypeOK
  <2>2. parent' \in [Commit -> Commit \cup {NoCommit}]
    BY <1>1, <1>5 DEF CommitStaging, TypeOK
  <2> QED
    BY <1>5, <2>1, <2>2 DEF CommitStaging, TypeOK, conductorVars
<1>6. CASE SecondFence(t)
  <2>1. phase' \in [Task -> Phase] /\ result' \in [Task -> Result]
    BY <1>6, FinishType DEF SecondFence, Raise, Goto, Phase, TypeOK
  <2> QED
    BY <1>6, <2>1 DEF SecondFence, TypeOK, conductorVars, lakefsVars
<1>7. CASE PublishWorkspace(t)
  <2>1. phase' \in [Task -> Phase] /\ result' \in [Task -> Result]
    BY <1>7, FinishType DEF PublishWorkspace, Send, Raise, Goto, Phase, TypeOK
  <2>2. request' \in [Task -> Request]
    BY <1>7, RecordFacts, CommitFacts DEF PublishWorkspace, Send, TypeOK
  <2> QED
    BY <1>7, <2>1, <2>2 DEF PublishWorkspace, TypeOK, conductorVars
<1>8. CASE CompleteNoop(t)
  <2>1. phase' \in [Task -> Phase] /\ result' \in [Task -> Result]
    BY <1>1, <1>8, FinishType DEF CompleteNoop, Send, Raise, Goto, Phase, TypeOK
  <2>2. request' \in [Task -> Request]
    BY <1>1, <1>8, RecordFacts DEF CompleteNoop, Send, TypeOK
  <2> QED
    BY <1>8, <2>1, <2>2 DEF CompleteNoop, TypeOK, conductorVars
<1>9. ASSUME Forget(t) PROVE request' \in [Task -> Request]
  BY <1>9, RecordFacts DEF Forget, TypeOK
<1>10. CASE RequestReturns(t)
  <2>1. request[t].ref \in Commit \cup {NoCommit}
    BY RecordFacts DEF TypeOK
  <2>2. phase' \in [Task -> Phase] /\ result' \in [Task -> Result]
    BY <1>10, <2>1, FinishType DEF RequestReturns, Raise
  <2> QED
    BY <1>9, <1>10, <2>2 DEF RequestReturns, TypeOK, conductorVars
<1>11. CASE CleanupStaging(t)
  BY <1>11 DEF CleanupStaging, Goto, Phase, TypeOK, conductorVars
<1>12. CASE ExecutorExits(t)
  <2>1. result' \in [Task -> Result]
    BY <1>12, RecordFacts DEF ExecutorExits, TypeOK
  <2> QED
    BY <1>9, <1>12, <2>1 DEF ExecutorExits, Goto, Phase, TypeOK, conductorVars
<1>13. CASE WorkerLost(t)
  <2>1. result' \in [Task -> Result]
    BY <1>13, RecordFacts DEF WorkerLost, TypeOK
  <2> QED
    BY <1>9, <1>13, <2>1 DEF WorkerLost, Goto, Phase, TypeOK, conductorVars
<1> QED
  BY <1>2, <1>3, <1>4, <1>5, <1>6, <1>7, <1>8, <1>10, <1>11, <1>12, <1>13 DEF WorkerStep

-----------------------------------------------------------------------------
\* The inductive invariant

\* What a step that moves neither the branch nor Conductor leaves alone.
LEMMA BranchUnchanged ==
  ASSUME Inductive, UNCHANGED <<conductorVars, parent, target>>
  PROVE  /\ Lineage' /\ TargetExplained'
         /\ (step \in ReadOnlySteps \cup {Steps + 1} => target = Accepted)'
BY DEF Inductive, Lineage, TargetExplained, Held, Exists, Accepted, AcceptedLineage, conductorVars

\* The task in Conductor's hands belongs to the step being run.
LEMMA CurrentTask ==
  ASSUME Inductive, NEW t \in Task, status[t] \in {"SCHEDULED", "IN_PROGRESS"}
  PROVE  /\ StepOf(t) = step /\ RetryCount(t) = retry
         /\ step \in 1..Steps /\ Input(t) = Accepted
BY TaskFacts DEF Inductive, Schedule, Current, Input, Accepted

\* An attempt that may update the branch has the accepted ref as its input.
LEMMA WindowInput ==
  ASSUME Inductive, NEW t \in Task, Window(t)
  PROVE  /\ StepOf(t) = step /\ Input(t) = Accepted
         /\ Input(t) \in Commit /\ Exists(Input(t))
<1>1. StepOf(t) = step /\ step \in 1..Steps
  BY TaskFacts DEF Inductive, Windows, UpdatesOfCurrentStep
<1>2. refs[step - 1] \in Commit /\ Exists(refs[step - 1])
  BY <1>1 DEF Inductive, Lineage
<1> QED
  BY <1>1, <1>2 DEF Input, Accepted

\* Held survives a step that completes nothing and leaves the branch alone.
LEMMA HeldUnchanged ==
  ASSUME Inductive, UNCHANGED <<status, target>>,
         \A u \in Task : Completed(u)' => Completed(u) /\ HeldRef(u)' = HeldRef(u)
  PROVE  \A u \in Task : status'[u] = "IN_PROGRESS" /\ Completed(u)' => target' = HeldRef(u)'
BY DEF Inductive, Held

\* Windows survives a step that opens no publish window.
LEMMA WindowsUnchanged ==
  ASSUME Inductive, UNCHANGED <<status, step>>,
         \A u \in Task : Window(u)' => Window(u),
         \A u \in Task : Committed(u)' => Committed(u)
  PROVE  Windows'
BY DEF Inductive, Windows, UpdatesOfCurrentStep, SerialWrites, ReadOnly

\* Passing the last fence opens the only publish window.
LEMMA WindowOpens ==
  ASSUME Inductive, NEW t \in Task, CurrentSnapshot(t), SerialWrites(t), ~ReadOnly(t),
         UNCHANGED <<status, step>>,
         \A u \in Task \ {t} : Window(u)' => Window(u),
         \A u \in Task \ {t} : Committed(u)' => Committed(u)
  PROVE  Windows'
<1>1. StepOf(t) = step
  BY CurrentTask DEF CurrentSnapshot
<1>2. \A u \in Task \ {t} : ~Window(u)'
  BY DEF SerialWrites
<1>3. \A u \in Task \ {t} : status'[u] # "IN_PROGRESS"
  BY DEF CurrentSnapshot, Inductive, Schedule
<1> QED
  BY <1>1, <1>2, <1>3 DEF Windows, UpdatesOfCurrentStep, SerialWrites, ReadOnly

LEMMA BodyStep ==
  ASSUME Inductive, WindowEnd = "request", NEW t \in Task, Body(t)
  PROVE  Inductive'
<1> USE TaskFacts, CommitFacts DEF Inductive, Body, Raise, Finish, Goto, conductorVars, lakefsVars
<1>1. TypeOK'
  BY WorkerType DEF WorkerStep
<1>2. Lineage' /\ TargetExplained' /\ (step \in ReadOnlySteps \cup {Steps + 1} => target = Accepted)'
  BY BranchUnchanged
<1>3. Schedule'
  BY DEF Schedule, TypeOK, Current
<1>4. Progress'
  BY DEF Progress, TypeOK, ReadOnly, InFlight, NoRequest, NoResult
<1>5. Commits'
  BY DEF Commits, Progress, TypeOK, Input, Exists, NoRequest
<1>6. Requests'
  BY DEF Requests, Progress, Commits, Lineage, TypeOK, Input, Exists, NoRequest
<1>7. Windows'
  BY CurrentTask DEF Windows, Progress, TypeOK, Window, SerialWrites, InFlight, Committed, Completed, UpdatesOfCurrentStep, ReadOnly, Current, NoRequest, NoResult
<1>8. \A u \in Task : status'[u] = "IN_PROGRESS" /\ Completed(u)' => target' = HeldRef(u)'
  <2>1. CASE UNCHANGED target /\ ReadOnly(t) /\ Finish(t, "COMPLETED", Input(t))
    <3>1. ASSUME status[t] = "IN_PROGRESS" PROVE target = Input(t)
      BY <2>1, <3>1, CurrentTask DEF Held, ReadOnly
    <3> QED
      BY <2>1, <3>1 DEF Held, Progress, TypeOK, Completed, HeldRef
  <2>2. CASE ~(ReadOnly(t) /\ Finish(t, "COMPLETED", Input(t)))
    <3>1. \A u \in Task : Completed(u)' => Completed(u) /\ HeldRef(u)' = HeldRef(u)
      BY <2>2 DEF TypeOK, Completed, HeldRef
    <3> QED
      BY <3>1, HeldUnchanged
  <2> QED
    BY <2>1, <2>2
<1> QED
  BY <1>1, <1>2, <1>3, <1>4, <1>5, <1>6, <1>7, <1>8 DEF Held

LEMMA FirstFenceStep ==
  ASSUME Inductive, WindowEnd = "request", NEW t \in Task, FirstFence(t)
  PROVE  Inductive'
<1> USE TaskFacts, CommitFacts DEF Inductive, FirstFence, Raise, Finish, Goto, CurrentSnapshot, conductorVars, lakefsVars
<1>1. TypeOK'
  BY WorkerType DEF WorkerStep
<1>2. Lineage' /\ TargetExplained' /\ (step \in ReadOnlySteps \cup {Steps + 1} => target = Accepted)'
  BY BranchUnchanged
<1>3. Schedule'
  BY DEF Schedule, TypeOK, Current
<1>4. Progress'
  BY DEF Progress, TypeOK, ReadOnly, InFlight, NoRequest, NoResult
<1>5. Commits'
  BY DEF Commits, Progress, TypeOK, Input, Exists, NoRequest
<1>6. Requests'
  BY DEF Requests, Progress, Commits, Lineage, TypeOK, Input, Exists, NoRequest
<1>7. Windows'
  <2>1. \A u \in Task \ {t} : Window(u)' => Window(u)
    BY DEF TypeOK, Window, InFlight
  <2>2. \A u \in Task \ {t} : Committed(u)' => Committed(u)
    BY <2>1 DEF TypeOK, Committed, Completed
  <2>3. CASE CurrentSnapshot(t) /\ SerialWrites(t)
    <3>1. ~ReadOnly(t)
      BY DEF Progress
    <3> QED
      BY <2>1, <2>2, <2>3, <3>1, WindowOpens
  <2>4. CASE phase[t] # "unchanged" \/ Raise(t)
    <3>1. ~Window(t)' /\ (Committed(t)' => Committed(t))
      BY <2>4 DEF TypeOK, Progress, Window, InFlight, Committed, Completed, NoRequest
    <3> QED
      BY <2>1, <2>2, <3>1, WindowsUnchanged
  <2> QED
    BY <2>3, <2>4
<1>8. \A u \in Task : status'[u] = "IN_PROGRESS" /\ Completed(u)' => target' = HeldRef(u)'
  <2>1. CASE Raise(t)
    <3>1. \A u \in Task : Completed(u)' => Completed(u) /\ HeldRef(u)' = HeldRef(u)
      BY <2>1 DEF TypeOK, Completed, HeldRef
    <3> QED
      BY <3>1, HeldUnchanged
  <2>2. CASE UNCHANGED result
    <3>1. \A u \in Task : Completed(u)' => Completed(u) /\ HeldRef(u)' = HeldRef(u)
      BY <2>2 DEF TypeOK, Completed, HeldRef
    <3> QED
      BY <3>1, HeldUnchanged
  <2> QED
    BY <2>1, <2>2
<1> QED
  BY <1>1, <1>2, <1>3, <1>4, <1>5, <1>6, <1>7, <1>8 DEF Held

LEMMA CreateStagingStep ==
  ASSUME Inductive, WindowEnd = "request", NEW t \in Task, CreateStaging(t)
  PROVE  Inductive'
<1> USE TaskFacts, CommitFacts DEF Inductive, CreateStaging, Raise, Finish, Goto, conductorVars
<1>1. TypeOK'
  BY WorkerType DEF WorkerStep
<1>2. Lineage' /\ TargetExplained' /\ (step \in ReadOnlySteps \cup {Steps + 1} => target = Accepted)'
  BY BranchUnchanged
<1>3. Schedule'
  BY DEF Schedule, TypeOK, Current
<1>4. Progress'
  BY DEF Progress, TypeOK, ReadOnly, InFlight, NoRequest, NoResult
<1>5. Commits'
  BY DEF Commits, Progress, TypeOK, Input, Exists, NoRequest
<1>6. Requests'
  BY DEF Requests, Progress, Commits, Lineage, TypeOK, Input, Exists, NoRequest
<1>7. Windows'
  BY CurrentTask DEF Windows, Progress, TypeOK, Window, SerialWrites, InFlight, Committed, Completed, UpdatesOfCurrentStep, ReadOnly, Current, NoRequest, NoResult
<1>8. \A u \in Task : status'[u] = "IN_PROGRESS" /\ Completed(u)' => target' = HeldRef(u)'
  <2>1. CASE Raise(t)
    <3>1. \A u \in Task : Completed(u)' => Completed(u) /\ HeldRef(u)' = HeldRef(u)
      BY <2>1 DEF TypeOK, Completed, HeldRef
    <3> QED
      BY <3>1, HeldUnchanged
  <2>2. CASE UNCHANGED result
    <3>1. \A u \in Task : Completed(u)' => Completed(u) /\ HeldRef(u)' = HeldRef(u)
      BY <2>2 DEF TypeOK, Completed, HeldRef
    <3> QED
      BY <3>1, HeldUnchanged
  <2> QED
    BY <2>1, <2>2
<1> QED
  BY <1>1, <1>2, <1>3, <1>4, <1>5, <1>6, <1>7, <1>8 DEF Held

LEMMA SecondFenceStep ==
  ASSUME Inductive, WindowEnd = "request", NEW t \in Task, SecondFence(t)
  PROVE  Inductive'
<1> USE TaskFacts, CommitFacts DEF Inductive, SecondFence, Raise, Finish, Goto, CurrentSnapshot, conductorVars, lakefsVars
<1>1. TypeOK'
  BY WorkerType DEF WorkerStep
<1>2. Lineage' /\ TargetExplained' /\ (step \in ReadOnlySteps \cup {Steps + 1} => target = Accepted)'
  BY BranchUnchanged
<1>3. Schedule'
  BY DEF Schedule, TypeOK, Current
<1>4. Progress'
  BY DEF Progress, TypeOK, ReadOnly, InFlight, NoRequest, NoResult
<1>5. Commits'
  BY DEF Commits, Progress, TypeOK, Input, Exists, NoRequest
<1>6. Requests'
  BY DEF Requests, Progress, Commits, Lineage, TypeOK, Input, Exists, NoRequest
<1>7. Windows'
  <2>1. \A u \in Task \ {t} : Window(u)' => Window(u)
    BY DEF TypeOK, Window, InFlight
  <2>2. \A u \in Task \ {t} : Committed(u)' => Committed(u)
    BY <2>1 DEF TypeOK, Committed, Completed
  <2>3. CASE CurrentSnapshot(t) /\ SerialWrites(t)
    <3>1. ~ReadOnly(t)
      BY DEF Progress
    <3> QED
      BY <2>1, <2>2, <2>3, <3>1, WindowOpens
  <2>4. CASE Raise(t)
    <3>1. ~Window(t)' /\ (Committed(t)' => Committed(t))
      BY <2>4 DEF TypeOK, Progress, Window, InFlight, Committed, Completed, NoRequest
    <3> QED
      BY <2>1, <2>2, <3>1, WindowsUnchanged
  <2> QED
    BY <2>3, <2>4
<1>8. \A u \in Task : status'[u] = "IN_PROGRESS" /\ Completed(u)' => target' = HeldRef(u)'
  <2>1. CASE Raise(t)
    <3>1. \A u \in Task : Completed(u)' => Completed(u) /\ HeldRef(u)' = HeldRef(u)
      BY <2>1 DEF TypeOK, Completed, HeldRef
    <3> QED
      BY <3>1, HeldUnchanged
  <2>2. CASE UNCHANGED result
    <3>1. \A u \in Task : Completed(u)' => Completed(u) /\ HeldRef(u)' = HeldRef(u)
      BY <2>2 DEF TypeOK, Completed, HeldRef
    <3> QED
      BY <3>1, HeldUnchanged
  <2> QED
    BY <2>1, <2>2
<1> QED
  BY <1>1, <1>2, <1>3, <1>4, <1>5, <1>6, <1>7, <1>8 DEF Held

LEMMA PublishWorkspaceStep ==
  ASSUME Inductive, WindowEnd = "request", NEW t \in Task, PublishWorkspace(t)
  PROVE  Inductive'
<1> USE TaskFacts, CommitFacts DEF Inductive, PublishWorkspace, Send, Raise, Finish, Goto, conductorVars
<1>1. TypeOK'
  BY WorkerType DEF WorkerStep
<1>2. Lineage' /\ TargetExplained' /\ (step \in ReadOnlySteps \cup {Steps + 1} => target = Accepted)'
  BY BranchUnchanged
<1>3. Schedule'
  BY DEF Schedule, TypeOK, Current
<1>4. Progress'
  BY DEF Progress, TypeOK, ReadOnly, InFlight, NoRequest, NoResult
<1>5. Commits'
  BY DEF Commits, Progress, TypeOK, Input, Exists, NoRequest
<1>6. Requests'
  <2>1. Window(t)
    BY DEF Window
  <2>2. CASE target = Input(t) /\ Send(t, "merge", NoCommit)
    BY <2>2 DEF Requests, TypeOK, Input, Exists
  <2>3. CASE Send(t, "reset", Staged(t))
    <3>1. parent[Staged(t)] = Input(t)
      BY DEF Commits, Progress
    <3> QED
      BY <2>1, <2>3, <3>1, WindowInput DEF Requests, TypeOK, Input, Exists
  <2>4. CASE Raise(t) /\ UNCHANGED request
    BY <2>4 DEF Requests, Input, Exists
  <2> QED
    BY <2>2, <2>3, <2>4
<1>7. Windows'
  <2>1. \A u \in Task : Window(u)' => Window(u)
    <3>1. CASE Send(t, "merge", NoCommit)
      BY <3>1 DEF TypeOK, Window, InFlight
    <3>2. CASE Send(t, "reset", Staged(t))
      BY <3>2 DEF TypeOK, Window, InFlight
    <3>3. CASE Raise(t) /\ UNCHANGED request
      BY <3>3 DEF TypeOK, Window, InFlight
    <3> QED
      BY <3>1, <3>2, <3>3
  <2>2. \A u \in Task : Committed(u)' => Committed(u)
    <3>1. CASE Send(t, "merge", NoCommit)
      BY <2>1, <3>1 DEF TypeOK, Window, Committed, Completed
    <3>2. CASE Send(t, "reset", Staged(t))
      BY <2>1, <3>2 DEF TypeOK, Window, Committed, Completed
    <3>3. CASE Raise(t) /\ UNCHANGED request
      BY <2>1, <3>3 DEF TypeOK, Window, Committed, Completed
    <3> QED
      BY <3>1, <3>2, <3>3
  <2> QED
    BY <2>1, <2>2, WindowsUnchanged
<1>8. \A u \in Task : status'[u] = "IN_PROGRESS" /\ Completed(u)' => target' = HeldRef(u)'
  <2>1. request[t] = NoRequest
    BY DEF Progress
  <2>2. CASE Send(t, "merge", NoCommit)
    <3>1. \A u \in Task : Completed(u)' => Completed(u) /\ HeldRef(u)' = HeldRef(u)
      BY <2>1, <2>2 DEF TypeOK, Progress, Completed, HeldRef, NoRequest
    <3> QED
      BY <3>1, HeldUnchanged
  <2>3. CASE Send(t, "reset", Staged(t))
    <3>1. \A u \in Task : Completed(u)' => Completed(u) /\ HeldRef(u)' = HeldRef(u)
      BY <2>1, <2>3 DEF TypeOK, Progress, Completed, HeldRef, NoRequest
    <3> QED
      BY <3>1, HeldUnchanged
  <2>4. CASE Raise(t) /\ UNCHANGED request
    <3>1. \A u \in Task : Completed(u)' => Completed(u) /\ HeldRef(u)' = HeldRef(u)
      BY <2>1, <2>4 DEF TypeOK, Progress, Completed, HeldRef, NoRequest
    <3> QED
      BY <3>1, HeldUnchanged
  <2> QED
    BY <2>2, <2>3, <2>4
<1> QED
  BY <1>1, <1>2, <1>3, <1>4, <1>5, <1>6, <1>7, <1>8 DEF Held

LEMMA CompleteNoopStep ==
  ASSUME Inductive, WindowEnd = "request", NEW t \in Task, CompleteNoop(t)
  PROVE  Inductive'
<1> USE TaskFacts, CommitFacts DEF Inductive, CompleteNoop, Send, Raise, Finish, Goto, conductorVars
<1>1. TypeOK'
  BY WorkerType DEF WorkerStep
<1>2. Lineage' /\ TargetExplained' /\ (step \in ReadOnlySteps \cup {Steps + 1} => target = Accepted)'
  BY BranchUnchanged
<1>3. Schedule'
  BY DEF Schedule, TypeOK, Current
<1>4. Progress'
  BY DEF Progress, TypeOK, ReadOnly, InFlight, NoRequest, NoResult
<1>5. Commits'
  BY DEF Commits, Progress, TypeOK, Input, Exists, NoRequest
<1>6. Requests'
  <2>1. Window(t)
    BY DEF Window
  <2>2. CASE Send(t, "reset", Input(t))
    BY <2>1, <2>2, WindowInput DEF Requests, TypeOK, Input, Exists
  <2>3. CASE UNCHANGED request
    BY <2>3 DEF Requests, Input, Exists
  <2> QED
    BY <2>2, <2>3
<1>7. Windows'
  <2>1. \A u \in Task : Window(u)' => Window(u)
    <3>1. CASE Finish(t, "COMPLETED", Input(t)) /\ UNCHANGED request
      BY <3>1 DEF TypeOK, Window, InFlight
    <3>2. CASE Send(t, "reset", Input(t))
      BY <3>2 DEF TypeOK, Window, InFlight
    <3>3. CASE Raise(t) /\ UNCHANGED request
      BY <3>3 DEF TypeOK, Window, InFlight
    <3> QED
      BY <3>1, <3>2, <3>3
  <2>2. \A u \in Task : Committed(u)' => Committed(u)
    <3>1. CASE Finish(t, "COMPLETED", Input(t)) /\ UNCHANGED request
      BY <2>1, <3>1 DEF TypeOK, Window, Committed, Completed
    <3>2. CASE Send(t, "reset", Input(t))
      BY <2>1, <3>2 DEF TypeOK, Window, Committed, Completed
    <3>3. CASE Raise(t) /\ UNCHANGED request
      BY <2>1, <3>3 DEF TypeOK, Window, Committed, Completed
    <3> QED
      BY <3>1, <3>2, <3>3
  <2> QED
    BY <2>1, <2>2, WindowsUnchanged
<1>8. \A u \in Task : status'[u] = "IN_PROGRESS" /\ Completed(u)' => target' = HeldRef(u)'
  <2>1. request[t] = NoRequest
    BY DEF Progress
  <2>2. CASE Send(t, "reset", Input(t))
    <3>1. \A u \in Task : Completed(u)' => Completed(u) /\ HeldRef(u)' = HeldRef(u)
      BY <2>1, <2>2 DEF TypeOK, Progress, Completed, HeldRef, NoRequest
    <3> QED
      BY <3>1, HeldUnchanged
  <2>3. CASE Raise(t) /\ UNCHANGED request
    <3>1. \A u \in Task : Completed(u)' => Completed(u) /\ HeldRef(u)' = HeldRef(u)
      BY <2>1, <2>3 DEF TypeOK, Progress, Completed, HeldRef, NoRequest
    <3> QED
      BY <3>1, HeldUnchanged
  <2>4. CASE target = Input(t) /\ Finish(t, "COMPLETED", Input(t)) /\ UNCHANGED request
    BY <2>1, <2>4 DEF Held, TypeOK, Completed, HeldRef, NoRequest
  <2> QED
    BY <2>2, <2>3, <2>4
<1> QED
  BY <1>1, <1>2, <1>3, <1>4, <1>5, <1>6, <1>7, <1>8 DEF Held

LEMMA RequestReturnsStep ==
  ASSUME Inductive, WindowEnd = "request", NEW t \in Task, RequestReturns(t)
  PROVE  Inductive'
<1> USE TaskFacts, CommitFacts DEF Inductive, RequestReturns, Forget, Raise, Finish, Goto, conductorVars
<1>1. TypeOK'
  BY WorkerType DEF WorkerStep
<1>2. Lineage' /\ TargetExplained' /\ (step \in ReadOnlySteps \cup {Steps + 1} => target = Accepted)'
  BY BranchUnchanged
<1>3. Schedule'
  BY DEF Schedule, TypeOK, Current
<1>4. Progress'
  BY DEF Progress, TypeOK, ReadOnly, InFlight, NoRequest, NoResult
<1>5. Commits'
  BY DEF Commits, Progress, TypeOK, Input, Exists, NoRequest
<1>6. Requests'
  BY DEF Requests, Progress, Commits, Lineage, TypeOK, Input, Exists, NoRequest
<1>7. Windows'
  BY CurrentTask DEF Windows, Progress, TypeOK, Window, SerialWrites, InFlight, Committed, Completed, UpdatesOfCurrentStep, ReadOnly, Current, NoRequest, NoResult
<1>8. \A u \in Task : status'[u] = "IN_PROGRESS" /\ Completed(u)' => target' = HeldRef(u)'
  BY CurrentTask DEF Held, Windows, Windows, Schedule, Progress, TypeOK, Completed, HeldRef, Window, InFlight, Input, ReadOnly, Accepted, Current, NoRequest, NoResult
<1> QED
  BY <1>1, <1>2, <1>3, <1>4, <1>5, <1>6, <1>7, <1>8 DEF Held

LEMMA CleanupStagingStep ==
  ASSUME Inductive, WindowEnd = "request", NEW t \in Task, CleanupStaging(t)
  PROVE  Inductive'
<1> USE TaskFacts, CommitFacts DEF Inductive, CleanupStaging, Goto, conductorVars
<1>1. TypeOK'
  BY WorkerType DEF WorkerStep
<1>2. Lineage' /\ TargetExplained' /\ (step \in ReadOnlySteps \cup {Steps + 1} => target = Accepted)'
  BY BranchUnchanged
<1>3. Schedule'
  BY DEF Schedule, TypeOK, Current
<1>4. Progress'
  BY DEF Progress, TypeOK, ReadOnly, InFlight, NoRequest, NoResult
<1>5. Commits'
  <2>1. staging[t] \notin {"absent", "open"}
    BY DEF Progress
  <2> QED
    BY <2>1 DEF Commits, TypeOK, Input, Exists
<1>6. Requests'
  BY DEF Requests, Progress, Commits, Lineage, TypeOK, Input, Exists, NoRequest
<1>7. Windows'
  BY CurrentTask DEF Windows, Progress, TypeOK, Window, SerialWrites, InFlight, Committed, Completed, UpdatesOfCurrentStep, ReadOnly, Current, NoRequest, NoResult
<1>8. \A u \in Task : status'[u] = "IN_PROGRESS" /\ Completed(u)' => target' = HeldRef(u)'
  BY CurrentTask DEF Held, Windows, Windows, Schedule, Progress, TypeOK, Completed, HeldRef, Window, InFlight, Input, ReadOnly, Accepted, Current, NoRequest, NoResult
<1> QED
  BY <1>1, <1>2, <1>3, <1>4, <1>5, <1>6, <1>7, <1>8 DEF Held

LEMMA ExecutorExitsStep ==
  ASSUME Inductive, WindowEnd = "request", NEW t \in Task, ExecutorExits(t)
  PROVE  Inductive'
<1> USE TaskFacts, CommitFacts DEF Inductive, ExecutorExits, Forget, Goto, conductorVars
<1>1. TypeOK'
  BY WorkerType DEF WorkerStep
<1>2. Lineage' /\ TargetExplained' /\ (step \in ReadOnlySteps \cup {Steps + 1} => target = Accepted)'
  BY BranchUnchanged
<1>3. Schedule'
  BY DEF Schedule, TypeOK, Current
<1>4. Progress'
  BY DEF Progress, TypeOK, ReadOnly, InFlight, NoRequest, NoResult
<1>5. Commits'
  BY DEF Commits, Progress, TypeOK, Input, Exists, NoRequest
<1>6. Requests'
  BY DEF Requests, Progress, Commits, Lineage, TypeOK, Input, Exists, NoRequest
<1>7. Windows'
  BY CurrentTask DEF Windows, Progress, TypeOK, Window, SerialWrites, InFlight, Committed, Completed, UpdatesOfCurrentStep, ReadOnly, Current, NoRequest, NoResult
<1>8. \A u \in Task : status'[u] = "IN_PROGRESS" /\ Completed(u)' => target' = HeldRef(u)'
  BY CurrentTask DEF Held, Windows, Windows, Schedule, Progress, TypeOK, Completed, HeldRef, Window, InFlight, Input, ReadOnly, Accepted, Current, NoRequest, NoResult
<1> QED
  BY <1>1, <1>2, <1>3, <1>4, <1>5, <1>6, <1>7, <1>8 DEF Held

LEMMA WorkerLostStep ==
  ASSUME Inductive, WindowEnd = "request", NEW t \in Task, WorkerLost(t)
  PROVE  Inductive'
<1> USE TaskFacts, CommitFacts DEF Inductive, WorkerLost, Forget, Goto, conductorVars
<1>1. TypeOK'
  BY WorkerType DEF WorkerStep
<1>2. Lineage' /\ TargetExplained' /\ (step \in ReadOnlySteps \cup {Steps + 1} => target = Accepted)'
  BY BranchUnchanged
<1>3. Schedule'
  BY DEF Schedule, TypeOK, Current
<1>4. Progress'
  BY DEF Progress, TypeOK, ReadOnly, InFlight, NoRequest, NoResult
<1>5. Commits'
  BY DEF Commits, Progress, TypeOK, Input, Exists, NoRequest
<1>6. Requests'
  BY DEF Requests, Progress, Commits, Lineage, TypeOK, Input, Exists, NoRequest
<1>7. Windows'
  BY CurrentTask DEF Windows, Progress, TypeOK, Window, SerialWrites, InFlight, Committed, Completed, UpdatesOfCurrentStep, ReadOnly, Current, NoRequest, NoResult
<1>8. \A u \in Task : status'[u] = "IN_PROGRESS" /\ Completed(u)' => target' = HeldRef(u)'
  BY CurrentTask DEF Held, Windows, Windows, Schedule, Progress, TypeOK, Completed, HeldRef, Window, InFlight, Input, ReadOnly, Accepted, Current, NoRequest, NoResult
<1> QED
  BY <1>1, <1>2, <1>3, <1>4, <1>5, <1>6, <1>7, <1>8 DEF Held

LEMMA CommitStagingStep ==
  ASSUME Inductive, WindowEnd = "request", NEW t \in Task, CommitStaging(t)
  PROVE  Inductive'
<1> USE TaskFacts, CommitFacts DEF Inductive, CommitStaging, Raise, Finish, Goto, conductorVars
<1>1. TypeOK'
  BY WorkerType DEF WorkerStep
<1>2. Lineage' /\ TargetExplained' /\ (step \in ReadOnlySteps \cup {Steps + 1} => target = Accepted)'
  <2>1. parent[Staged(t)] = NoCommit
    BY DEF Progress, Commits
  <2>2. \A c \in Commit : Exists(c) => parent'[c] = parent[c]
    BY <2>1 DEF Exists, TypeOK
  <2> QED
    BY <2>1, <2>2 DEF Lineage, TargetExplained, Held, Exists, Commits, Accepted, AcceptedLineage, TypeOK
<1>3. Schedule'
  BY DEF Schedule, TypeOK, Current
<1>4. Progress'
  BY DEF Progress, Commits, TypeOK, ReadOnly, InFlight, NoRequest, NoResult
<1>5. Commits'
  <2>1. \A s \in 0..Steps : refs'[s] = refs[s]
    OBVIOUS
  <2>2. CASE Raise(t) /\ UNCHANGED <<staging, parent>>
    BY <2>2 DEF Commits, Input, Exists
  <2>3. CASE /\ staging' = [staging EXCEPT ![t] = "committed"]
             /\ parent' = [parent EXCEPT ![Staged(t)] = Input(t)]
    <3>1. \A u \in Task : Input(u)' = Input(u)
      BY DEF Input
    <3>2. target # Staged(t)
      BY DEF Commits, Progress, Exists
    <3> QED
      BY <2>3, <3>1, <3>2 DEF Commits, TypeOK, Exists
  <2> QED
    BY <2>2, <2>3
<1>6. Requests'
  BY DEF Requests, Progress, Commits, Lineage, TypeOK, Input, Exists, NoRequest
<1>7. Windows'
  <2>1. \A u \in Task : Window(u)' => Window(u)
    <3>1. CASE Raise(t)
      BY <3>1 DEF TypeOK, Window, InFlight
    <3>2. CASE Goto(t, "staged")
      BY <3>2 DEF TypeOK, Window, InFlight
    <3> QED
      BY <3>1, <3>2
  <2>2. \A u \in Task : Committed(u)' => Committed(u)
    <3>1. CASE Raise(t)
      BY <2>1, <3>1 DEF TypeOK, Committed, Completed
    <3>2. CASE Goto(t, "staged") /\ UNCHANGED result
      BY <2>1, <3>2 DEF TypeOK, Committed, Completed
    <3> QED
      BY <3>1, <3>2
  <2> QED
    BY <2>1, <2>2, WindowsUnchanged
<1>8. \A u \in Task : status'[u] = "IN_PROGRESS" /\ Completed(u)' => target' = HeldRef(u)'
  BY DEF Held, Completed, HeldRef, TypeOK
<1> QED
  BY <1>1, <1>2, <1>3, <1>4, <1>5, <1>6, <1>7, <1>8 DEF Held

LEMMA ApplyMergeStep ==
  ASSUME Inductive, WindowEnd = "request", NEW t \in Task, ApplyMerge(t)
  PROVE  Inductive'
<1> USE TaskFacts, CommitFacts DEF Inductive, ApplyMerge, Answer, conductorVars
<1>1. TypeOK'
  BY RecordFacts DEF TypeOK
<1>2. Lineage' /\ TargetExplained' /\ (step \in ReadOnlySteps \cup {Steps + 1} => target = Accepted)'
  <2>1. Window(t)
    BY DEF Window, InFlight
  <2>2. step \notin ReadOnlySteps \cup {Steps + 1}
    BY <2>1, WindowInput DEF Windows, ReadOnly
  <2>3. \A c \in Commit : Exists(c) => parent'[c] = parent[c]
    BY DEF Exists, Commits, TypeOK
  <2>4. target = Accepted /\ parent'[Merged(t)] = target
    BY <2>1, WindowInput DEF Requests, TypeOK
  <2>5. Lineage'
    BY <2>3 DEF Lineage, Exists, AcceptedLineage, TypeOK
  <2>6. TargetExplained'
    BY <2>3, <2>4 DEF TargetExplained, Accepted
  <2> QED
    BY <2>2, <2>5, <2>6
<1>3. Schedule'
  BY DEF Schedule, TypeOK, Current
<1>4. Progress'
  BY DEF Progress, Commits, TypeOK, ReadOnly, InFlight, NoRequest, NoResult
<1>5. Commits'
  <2>1. \A u \in Task : Input(u)' = Input(u)
    BY DEF Input
  <2>2. \A u \in Task \ {t} : request[u].op # "merge"
    BY DEF Windows, SerialWrites, Window, InFlight
  <2>3. request'[t].op # "merge"
    BY DEF TypeOK, NoRequest
  <2>4. \A u \in Task \ {t} : request'[u] = request[u]
    BY DEF TypeOK
  <2>5. Exists(target)'
    BY DEF Requests, Exists, TypeOK
  <2> QED
    BY <2>1, <2>2, <2>3, <2>4, <2>5 DEF Commits, TypeOK
<1>6. Requests'
  <2>1. \A u \in Task \ {t} : ~InFlight(u)
    BY DEF Windows, SerialWrites, Window, InFlight
  <2>2. request'[t].op \notin {"merge", "reset"}
    BY DEF TypeOK, NoRequest
  <2>3. \A u \in Task \ {t} : request'[u] = request[u]
    BY DEF TypeOK
  <2> QED
    BY <2>1, <2>2, <2>3 DEF Requests, InFlight
<1>7. Windows'
  <2>1. \A u \in Task : Window(u)' => Window(u)
    BY DEF TypeOK, Progress, Window, InFlight, NoRequest
  <2>2. \A u \in Task : Committed(u)' => Committed(u)
    BY <2>1 DEF TypeOK, Progress, Committed, Completed, Window, InFlight, NoRequest
  <2> QED
    BY <2>1, <2>2, WindowsUnchanged
<1>8. \A u \in Task : status'[u] = "IN_PROGRESS" /\ Completed(u)' => target' = HeldRef(u)'
  <2>1. Completed(t)' => target' = HeldRef(t)'
    BY DEF TypeOK, Progress, Completed, HeldRef, InFlight, NoRequest
  <2>2. ASSUME NEW u \in Task \ {t}, status[u] = "IN_PROGRESS" PROVE ~Completed(u)
    <3>1. Window(t)
      BY DEF Window, InFlight
    <3> QED
      BY <2>2, <3>1 DEF Windows, SerialWrites, Committed
  <2>3. \A u \in Task \ {t} : Completed(u)' => Completed(u)
    BY DEF TypeOK, Completed
  <2>4. \A u \in Task : status'[u] = status[u]
    OBVIOUS
  <2> QED
    BY <2>1, <2>2, <2>3, <2>4
<1> QED
  BY <1>1, <1>2, <1>3, <1>4, <1>5, <1>6, <1>7, <1>8 DEF Held

LEMMA ApplyResetStep ==
  ASSUME Inductive, WindowEnd = "request", NEW t \in Task, ApplyReset(t)
  PROVE  Inductive'
<1> USE TaskFacts, CommitFacts DEF Inductive, ApplyReset, Answer, conductorVars
<1>1. TypeOK'
  BY RecordFacts DEF TypeOK, Requests
<1>2. Lineage' /\ TargetExplained' /\ (step \in ReadOnlySteps \cup {Steps + 1} => target = Accepted)'
  <2>1. Window(t)
    BY DEF Window, InFlight
  <2>2. step \notin ReadOnlySteps \cup {Steps + 1}
    BY <2>1, WindowInput DEF Windows, ReadOnly
  <2>4. request[t].ref = Accepted \/ parent[request[t].ref] = Accepted
    BY <2>1, WindowInput DEF Requests
  <2>5. Lineage'
    BY DEF Lineage, Exists, AcceptedLineage, TypeOK
  <2>6. TargetExplained'
    BY <2>4 DEF TargetExplained, Accepted
  <2> QED
    BY <2>2, <2>5, <2>6
<1>3. Schedule'
  BY DEF Schedule, TypeOK, Current
<1>4. Progress'
  BY DEF Progress, Commits, TypeOK, ReadOnly, InFlight, NoRequest, NoResult
<1>5. Commits'
  <2>1. \A u \in Task : Input(u)' = Input(u)
    BY DEF Input
  <2>2. \A u \in Task \ {t} : request[u].op # "merge"
    BY DEF Windows, SerialWrites, Window, InFlight
  <2>3. request'[t].op # "merge"
    BY DEF TypeOK, NoRequest
  <2>4. \A u \in Task \ {t} : request'[u] = request[u]
    BY DEF TypeOK
  <2>5. Exists(target)'
    BY DEF Requests, Exists, TypeOK
  <2> QED
    BY <2>1, <2>2, <2>3, <2>4, <2>5 DEF Commits, TypeOK
<1>6. Requests'
  <2>1. \A u \in Task \ {t} : ~InFlight(u)
    BY DEF Windows, SerialWrites, Window, InFlight
  <2>2. request'[t].op \notin {"merge", "reset"}
    BY DEF TypeOK, NoRequest
  <2>3. \A u \in Task \ {t} : request'[u] = request[u]
    BY DEF TypeOK
  <2> QED
    BY <2>1, <2>2, <2>3 DEF Requests, InFlight
<1>7. Windows'
  <2>1. \A u \in Task : Window(u)' => Window(u)
    BY DEF TypeOK, Progress, Window, InFlight, NoRequest
  <2>2. \A u \in Task : Committed(u)' => Committed(u)
    BY <2>1 DEF TypeOK, Progress, Committed, Completed, Window, InFlight, NoRequest
  <2> QED
    BY <2>1, <2>2, WindowsUnchanged
<1>8. \A u \in Task : status'[u] = "IN_PROGRESS" /\ Completed(u)' => target' = HeldRef(u)'
  <2>1. Completed(t)' => target' = HeldRef(t)'
    BY DEF TypeOK, Progress, Completed, HeldRef, InFlight, NoRequest
  <2>2. ASSUME NEW u \in Task \ {t}, status[u] = "IN_PROGRESS" PROVE ~Completed(u)
    <3>1. Window(t)
      BY DEF Window, InFlight
    <3> QED
      BY <2>2, <3>1 DEF Windows, SerialWrites, Committed
  <2>3. \A u \in Task \ {t} : Completed(u)' => Completed(u)
    BY DEF TypeOK, Completed
  <2>4. \A u \in Task : status'[u] = status[u]
    OBVIOUS
  <2> QED
    BY <2>1, <2>2, <2>3, <2>4
<1> QED
  BY <1>1, <1>2, <1>3, <1>4, <1>5, <1>6, <1>7, <1>8 DEF Held

LEMMA RejectStep ==
  ASSUME Inductive, WindowEnd = "request", NEW t \in Task, Reject(t)
  PROVE  Inductive'
<1> USE TaskFacts, CommitFacts DEF Inductive, Reject, Answer, conductorVars
<1>1. TypeOK'
  BY RecordFacts DEF TypeOK
<1>2. Lineage' /\ TargetExplained' /\ (step \in ReadOnlySteps \cup {Steps + 1} => target = Accepted)'
  BY BranchUnchanged
<1>3. Schedule'
  BY DEF Schedule, TypeOK, Current
<1>4. Progress'
  BY DEF Progress, Commits, TypeOK, ReadOnly, InFlight, NoRequest, NoResult
<1>5. Commits'
  BY DEF Commits, Progress, TypeOK, Input, Exists, NoRequest
<1>6. Requests'
  BY DEF Requests, Progress, Commits, Lineage, TypeOK, Input, Exists, NoRequest
<1>7. Windows'
  <2>1. \A u \in Task : Window(u)' => Window(u)
    BY DEF TypeOK, Progress, Window, InFlight, NoRequest
  <2>2. \A u \in Task : Committed(u)' => Committed(u)
    BY <2>1 DEF TypeOK, Progress, Committed, Completed, Window, InFlight, NoRequest
  <2> QED
    BY <2>1, <2>2, WindowsUnchanged
<1>8. \A u \in Task : status'[u] = "IN_PROGRESS" /\ Completed(u)' => target' = HeldRef(u)'
  <2>1. \A u \in Task : Completed(u)' => Completed(u) /\ HeldRef(u)' = HeldRef(u)
    BY DEF TypeOK, Completed, HeldRef, InFlight, NoRequest
  <2> QED
    BY <2>1, HeldUnchanged
<1> QED
  BY <1>1, <1>2, <1>3, <1>4, <1>5, <1>6, <1>7, <1>8 DEF Held

LEMMA PollStep ==
  ASSUME Inductive, WindowEnd = "request", NEW t \in Task, Poll(t)
  PROVE  Inductive'
<1> USE TaskFacts, CommitFacts DEF Inductive, Poll, Goto, lakefsVars
<1>1. TypeOK'
  BY DEF TypeOK, Status, Phase
<1>2. Lineage' /\ TargetExplained' /\ (step \in ReadOnlySteps \cup {Steps + 1} => target = Accepted)'
  BY DEF Lineage, TargetExplained, Held, Exists, Accepted, AcceptedLineage
<1>3. Schedule'
  BY DEF Schedule, TypeOK, Current
<1>4. Progress'
  BY DEF Schedule, Progress, TypeOK, ReadOnly, InFlight, NoRequest
<1>5. Commits'
  BY DEF Commits, Progress, TypeOK, Input, Exists, NoRequest
<1>6. Requests'
  BY DEF Requests, Progress, Commits, Lineage, TypeOK, Input, Exists, NoRequest
<1>7. Windows'
  <2>1. \A u \in Task : Window(u)' => Window(u)
    BY DEF TypeOK, Window, InFlight
  <2>2. \A u \in Task : Committed(u)' => Committed(u)
    BY <2>1 DEF TypeOK, Committed, Completed
  <2>3. ~Committed(t)
    BY DEF Schedule, Progress, Committed, Window, Completed, InFlight, NoRequest
  <2> QED
    BY <2>1, <2>2, <2>3 DEF Windows, UpdatesOfCurrentStep, SerialWrites, ReadOnly, TypeOK
<1>8. \A u \in Task : status'[u] = "IN_PROGRESS" /\ Completed(u)' => target' = HeldRef(u)'
  <2>1. ~Completed(t)
    BY DEF Schedule, Progress, Completed, NoRequest
  <2>2. \A u \in Task : Completed(u)' = Completed(u) /\ HeldRef(u)' = HeldRef(u)
    BY DEF Completed, HeldRef
  <2> QED
    BY <2>1, <2>2 DEF Held, TypeOK
<1> QED
  BY <1>1, <1>2, <1>3, <1>4, <1>5, <1>6, <1>7, <1>8 DEF Held

LEMMA TimeOutStep ==
  ASSUME Inductive, WindowEnd = "request", NEW t \in Task, TimeOut(t)
  PROVE  Inductive'
<1> USE TaskFacts, CommitFacts DEF Inductive, TimeOut, lakefsVars
<1>1. TypeOK'
  BY DEF TypeOK, Status
<1>2. Lineage' /\ TargetExplained' /\ (step \in ReadOnlySteps \cup {Steps + 1} => target = Accepted)'
  BY DEF Lineage, TargetExplained, Held, Exists, Accepted, AcceptedLineage
<1>3. Schedule'
  BY DEF Schedule, TypeOK, Current
<1>4. Progress'
  BY DEF Progress, Commits, TypeOK, ReadOnly, InFlight, NoRequest, NoResult
<1>5. Commits'
  BY DEF Commits, Progress, TypeOK, Input, Exists, NoRequest
<1>6. Requests'
  BY DEF Requests, Progress, Commits, Lineage, TypeOK, Input, Exists, NoRequest
<1>7. Windows'
  <2>1. \A u \in Task : Window(u)' = Window(u) /\ Committed(u)' = Committed(u)
    BY DEF Window, InFlight, Committed, Completed
  <2> QED
    BY <2>1 DEF Windows, UpdatesOfCurrentStep, SerialWrites, ReadOnly, TypeOK
<1>8. \A u \in Task : status'[u] = "IN_PROGRESS" /\ Completed(u)' => target' = HeldRef(u)'
  BY DEF Held, Completed, HeldRef, TypeOK
<1> QED
  BY <1>1, <1>2, <1>3, <1>4, <1>5, <1>6, <1>7, <1>8 DEF Held

LEMMA RetryStep ==
  ASSUME Inductive, WindowEnd = "request", Retry
  PROVE  Inductive'
<1> USE TaskFacts DEF Inductive, Retry, lakefsVars
<1>1. step \in 1..Steps
  BY DEF Schedule, TypeOK
<1>0. Retries[step] \in 0..MaxRetries
  BY <1>1, RetriesAssumption
<1>2. TypeOK'
  <2>1. status' \in [Task -> Status]
    BY DEF TypeOK, Status
  <2>2. retry' \in 0..MaxRetries
    BY <1>0 DEF TypeOK
  <2>3. workflow' \in {"RUNNING", "COMPLETED", "FAILED"}
    BY DEF TypeOK
  <2> QED
    BY <2>1, <2>2, <2>3 DEF TypeOK
<1>3. Lineage' /\ TargetExplained' /\ Held'
  <2>1. \A u \in Task : Completed(u)' = Completed(u) /\ HeldRef(u)' = HeldRef(u)
    BY DEF Completed, HeldRef
  <2> QED
    BY <1>1, <2>1 DEF Lineage, TargetExplained, Held, Exists, Accepted, AcceptedLineage, TypeOK
<1>4. Schedule'
  <2>1. \A u \in Task : status[u] \notin {"SCHEDULED", "IN_PROGRESS"}
    BY <1>1 DEF Schedule, Current
  <2>2. CASE retry < Retries[step] /\ retry' = retry + 1 /\ UNCHANGED workflow
    <3> DEFINE next == <<step, retry + 1>>
    <3>1. next \in Task /\ StepOf(next) = step /\ RetryCount(next) = retry + 1
      BY <1>1, <1>0, <2>2 DEF TypeOK
    <3>2. status[next] = "ABSENT"
      BY <1>1, <3>1 DEF Schedule, TypeOK
    <3>3. \A u \in Task : status'[u] = IF u = next THEN "SCHEDULED" ELSE status[u]
      BY <2>2, <3>1 DEF TypeOK
    <3>4. Current' = next
      BY <2>2 DEF Current
    <3>5. \A u \in Task : status'[u] \in {"SCHEDULED", "IN_PROGRESS"} => u = Current'
      BY <2>1, <3>3, <3>4
    <3>6. \A u \in Task : status'[u] \in {"ABSENT", "SCHEDULED"} => phase'[u] = "idle"
      BY <3>2, <3>3 DEF Schedule
    <3> HIDE DEF next
    <3>7. \A u \in Task : StepOf(u) > step' => status'[u] = "ABSENT"
      BY <1>1, <3>1, <3>3 DEF Schedule, TypeOK
    <3>8. \A u \in Task : StepOf(u) = step' /\ RetryCount(u) > retry' => status'[u] = "ABSENT"
      BY <2>2, <3>1, <3>3 DEF Schedule, TypeOK
    <3> QED
      BY <2>2, <3>5, <3>6, <3>7, <3>8 DEF Schedule
  <2>3. CASE UNCHANGED <<retry, status>>
    BY <1>1, <2>1, <2>3 DEF Schedule, Current, TypeOK
  <2> QED
    BY <2>2, <2>3 DEF TypeOK
<1>5. Progress' /\ Commits' /\ Requests'
  BY DEF Progress, Commits, Requests, Input, Exists, ReadOnly, InFlight
<1>6. Windows'
  <2>1. \A u \in Task : Window(u)' = Window(u) /\ Committed(u)' = Committed(u)
    BY DEF Window, InFlight, Committed, Completed
  <2>2. \A u \in Task : status'[u] = "IN_PROGRESS" => status[u] = "IN_PROGRESS"
    BY DEF TypeOK
  <2> QED
    BY <2>1, <2>2 DEF Windows, UpdatesOfCurrentStep, SerialWrites, ReadOnly
<1> QED
  BY <1>2, <1>3, <1>4, <1>5, <1>6

\* Conductor accepts a completed step: the branch shows the output it accepts, and
\* no publish window is open.
LEMMA AcceptStep ==
  ASSUME Inductive, WindowEnd = "request", NEW t \in Task, Report(t),
         status[t] = "IN_PROGRESS", AcceptCompleted(t)
  PROVE  Inductive'
<1> USE TaskFacts, CommitFacts DEF Inductive, Report, AcceptCompleted, Goto, lakefsVars
<1>1. StepOf(t) = step /\ step \in 1..Steps /\ Input(t) = Accepted
  BY CurrentTask
<1>2. result[t].ref = target
  BY DEF Held, Completed, HeldRef, Progress
<1>3. \A u \in Task : ~Window(u)
  BY DEF Windows, SerialWrites, Committed, Completed, Progress, Window
<1>4. target \in Commit /\ Exists(target)
  BY DEF TypeOK, Commits
<1>5. refs' \in [0..Steps -> Commit \cup {NoCommit}] /\ refs'[step] = target
  BY <1>1, <1>2, <1>4 DEF TypeOK
<1>6. \A s \in 0..Steps : s # step => refs'[s] = refs[s]
  BY <1>1 DEF TypeOK
<1>7. step' = step + 1 /\ retry' = 0 /\ Accepted' = target
  BY <1>1, <1>5 DEF Accepted, TypeOK
<1>8. status' \in [Task -> Status]
      /\ \A u \in Task : status'[u] = IF u = t THEN "COMPLETED"
                                       ELSE IF step # Steps /\ u = <<step + 1, 0>>
                                       THEN "SCHEDULED" ELSE status[u]
  <2>1. CASE step = Steps
    BY <1>1, <2>1 DEF TypeOK, Status
  <2>2. CASE step # Steps
    <3>1. <<step + 1, 0>> \in Task /\ <<step + 1, 0>> # t
      BY <1>1, <2>2
    <3> QED
      BY <2>2, <3>1 DEF TypeOK, Status
  <2> QED
    BY <2>1, <2>2
<1>9. TypeOK'
  BY <1>1, <1>5, <1>7, <1>8, RecordFacts DEF TypeOK, Phase
<1>10. Lineage'
  <2>1. target = refs[step - 1] \/ parent[target] = refs[step - 1]
    BY DEF TargetExplained, Accepted
  <2>2. \A s \in 0..Steps : s < step' => refs'[s] \in Commit /\ Exists(refs'[s])
    BY <1>1, <1>4, <1>5, <1>6, <1>7 DEF Lineage
  <2>3. ASSUME NEW s \in 1..(step' - 1)
        PROVE  refs'[s] = refs'[s - 1] \/ parent[refs'[s]] = refs'[s - 1]
    <3>1. CASE s = step
      BY <1>1, <1>5, <1>6, <2>1, <3>1
    <3>2. CASE s # step
      <4>1. s \in 1..(step - 1) /\ s \in 0..Steps /\ s - 1 \in 0..Steps /\ s - 1 # step
        BY <1>1, <1>7, <3>2
      <4> QED
        BY <1>6, <3>2, <4>1 DEF Lineage, AcceptedLineage
    <3> QED
      BY <3>1, <3>2
  <2> QED
    BY <2>2, <2>3 DEF Lineage, Exists, AcceptedLineage
<1>11. TargetExplained'
  BY <1>7 DEF TargetExplained
<1>12. Schedule'
  <2>1. step' = Steps + 1 <=> workflow' = "COMPLETED"
    BY <1>1, <1>7 DEF Schedule, TypeOK
  <2>2. \A u \in Task : status'[u] \in {"ABSENT", "SCHEDULED"} => phase'[u] = "idle"
    BY <1>1, <1>8 DEF Schedule, TypeOK
  <2>3. \A u \in Task : status'[u] \in {"SCHEDULED", "IN_PROGRESS"} => u = Current'
    BY <1>1, <1>7, <1>8 DEF Schedule, Current
  <2>4. \A u \in Task : StepOf(u) > step' => status'[u] = "ABSENT"
    BY <1>1, <1>7, <1>8 DEF Schedule
  <2>5. \A u \in Task : StepOf(u) = step' /\ RetryCount(u) > retry' => status'[u] = "ABSENT"
    BY <1>1, <1>7, <1>8 DEF Schedule
  <2> QED
    BY <2>1, <2>2, <2>3, <2>4, <2>5 DEF Schedule
<1>13. Progress'
  BY DEF Progress, TypeOK, ReadOnly, InFlight, NoResult
<1>14. \A u \in Task : StepOf(u) <= step => Input(u)' = Input(u)
  BY <1>1, <1>6 DEF Input
<1>15. \A u \in Task : StepOf(u) > step => staging[u] = "absent" /\ ~InFlight(u)
  BY DEF Schedule, Progress, InFlight, NoRequest
<1>16. Commits'
  BY <1>1, <1>14, <1>15 DEF Commits, Exists
<1>17. Requests' /\ Windows'
  <2>1. \A u \in Task : ~Window(u)'
    BY <1>3 DEF Window, InFlight, TypeOK
  <2> QED
    BY <2>1 DEF Requests, Windows, UpdatesOfCurrentStep, SerialWrites, Window, InFlight
<1>18. Held'
  BY <1>7, <1>8 DEF Held, Schedule
<1> QED
  BY <1>9, <1>10, <1>11, <1>12, <1>13, <1>16, <1>17, <1>18

\* Conductor records a failure, or drops the result of a task it has given up.
LEMMA ReportStep ==
  ASSUME Inductive, WindowEnd = "request", NEW t \in Task, Report(t)
  PROVE  Inductive'
<1>1. CASE status[t] = "IN_PROGRESS" /\ AcceptCompleted(t)
  BY <1>1, AcceptStep
<1>2. CASE \/ status[t] # "IN_PROGRESS" /\ UNCHANGED conductorVars
           \/ status[t] = "IN_PROGRESS" /\ AcceptFailed(t)
  <2> USE TaskFacts, CommitFacts DEF Inductive
  <2>0. /\ phase[t] \in {"report", "exited"}
        /\ phase' = [phase EXCEPT ![t] = "done"]
        /\ result' = [result EXCEPT ![t] = NoResult]
        /\ UNCHANGED <<parent, target, staging, request>>
    BY DEF Report, Goto, lakefsVars
  <2>1. /\ UNCHANGED <<step, retry, refs>>
        /\ \A u \in Task \ {t} : status'[u] = status[u]
        /\ status' \in [Task -> Status]
        /\ status'[t] \notin {"ABSENT", "SCHEDULED", "IN_PROGRESS"}
        /\ workflow' = workflow \/ (workflow' = "FAILED" /\ step # Steps + 1)
    <3>1. CASE status[t] # "IN_PROGRESS" /\ UNCHANGED conductorVars
      <4>1. UNCHANGED <<workflow, step, retry, refs, status>>
        BY <3>1 DEF conductorVars
      <4>2. status[t] \notin {"ABSENT", "SCHEDULED"}
        BY <2>0 DEF Schedule
      <4>3. status'[t] \notin {"ABSENT", "SCHEDULED", "IN_PROGRESS"}
        BY <3>1, <4>1, <4>2
      <4> QED
        BY <4>1, <4>3 DEF TypeOK
    <3>2. CASE status[t] = "IN_PROGRESS" /\ AcceptFailed(t)
      <4>1. result[t].status \in {"FAILED", "FAILED_WITH_TERMINAL_ERROR"}
        BY <2>0, <3>2, RecordFacts DEF AcceptFailed, Progress, TypeOK
      <4>2. step \in 1..Steps
        BY <3>2, CurrentTask
      <4> QED
        BY <3>2, <4>1, <4>2 DEF AcceptFailed, TypeOK, Status
    <3> QED
      BY <1>2, <3>1, <3>2
  <2>4. TypeOK'
    BY <2>0, <2>1, RecordFacts DEF TypeOK, Phase
  <2>5. Schedule'
    BY <2>0, <2>1 DEF Schedule, Current, TypeOK
  <2>6. Lineage' /\ TargetExplained' /\ Commits' /\ Requests'
    BY <2>0, <2>1 DEF Lineage, TargetExplained, Commits, Requests, Exists, Accepted,
                AcceptedLineage, Input
  <2>7. Progress'
    BY <2>0 DEF Progress, TypeOK, ReadOnly, InFlight, NoResult
  <2>8. \A u \in Task : Window(u)' => Window(u)
    BY <2>0 DEF TypeOK, Window, InFlight
  <2>9. \A u \in Task : Completed(u)' => Completed(u) /\ HeldRef(u)' = HeldRef(u)
    BY <2>0 DEF TypeOK, Completed, HeldRef, NoResult
  <2>10. \A u \in Task : Committed(u)' => Committed(u)
    BY <2>0, <2>8, <2>9 DEF TypeOK, Committed
  <2>11. \A u \in Task : status'[u] = "IN_PROGRESS" => status[u] = "IN_PROGRESS"
    BY <2>1
  <2>12. Windows'
    BY <2>1, <2>8, <2>10, <2>11 DEF Windows, UpdatesOfCurrentStep, SerialWrites, ReadOnly
  <2>13. Held'
    BY <2>0, <2>1, <2>9, <2>11 DEF Held, Accepted
  <2> QED
    BY <2>4, <2>5, <2>6, <2>7, <2>12, <2>13
<1>3. \/ status[t] = "IN_PROGRESS" /\ (AcceptCompleted(t) \/ AcceptFailed(t))
      \/ status[t] # "IN_PROGRESS" /\ UNCHANGED conductorVars
  BY DEF Report
<1> QED
  BY <1>1, <1>2, <1>3

LEMMA InductiveInit == Init => Inductive
<1> SUFFICES ASSUME Init PROVE Inductive
  OBVIOUS
<1> USE TaskFacts, CommitFacts DEF Init
<1>1. TypeOK
  BY TypeInit
<1>2. Schedule
  BY DEF Schedule, Current
<1>3. Lineage /\ TargetExplained /\ Held
  BY DEF Lineage, AcceptedLineage, TargetExplained, Held, Exists, Accepted, Completed,
         NoRequest, NoResult
<1>4. Progress
  BY DEF Progress, InFlight, NoRequest, NoResult, ReadOnly
<1>5. Commits /\ Requests
  BY DEF Commits, Requests, Exists, NoRequest
<1>6. Windows
  BY DEF Windows, UpdatesOfCurrentStep, SerialWrites, Window, Committed, Completed,
         InFlight, NoRequest, NoResult
<1> QED
  BY <1>1, <1>2, <1>3, <1>4, <1>5, <1>6 DEF Inductive

LEMMA InductiveNext ==
  ASSUME WindowEnd = "request", Inductive, [Next]_vars
  PROVE  Inductive'
<1>1. ASSUME NEW t \in Task, WorkerStep(t) PROVE Inductive'
  BY <1>1, BodyStep, FirstFenceStep, CreateStagingStep, CommitStagingStep, SecondFenceStep,
     PublishWorkspaceStep, CompleteNoopStep, RequestReturnsStep, CleanupStagingStep
     DEF WorkerStep
<1>2. ASSUME NEW t \in Task, TaskStep(t) PROVE Inductive'
  BY <1>1, <1>2, ExecutorExitsStep, WorkerLostStep, ApplyMergeStep, ApplyResetStep,
     RejectStep, PollStep, TimeOutStep, ReportStep
     DEF TaskStep, LakeFSStep
<1>3. CASE UNCHANGED vars
  <2> USE <1>3 DEF vars, Inductive
  <2>1. TypeOK' /\ Schedule' /\ Lineage' /\ TargetExplained'
    BY DEF TypeOK, Schedule, Current, Lineage, AcceptedLineage, TargetExplained, Exists,
           Accepted
  <2>2. Progress' /\ Commits' /\ Requests'
    BY DEF Progress, Commits, Requests, Exists, Input, ReadOnly, InFlight
  <2>3. Windows' /\ Held'
    BY DEF Windows, Held, UpdatesOfCurrentStep, SerialWrites, Window, Committed, Completed,
           HeldRef, InFlight, ReadOnly, Accepted
  <2> QED
    BY <2>1, <2>2, <2>3
<1> QED
  BY <1>2, <1>3, RetryStep DEF Next, Ended

-----------------------------------------------------------------------------
\* The theorems.  They hold when publish windows do not overlap and a window ends
\* with LakeFS's answer, for every number of steps, retries and readers.

\* The strengthening from which the properties below follow.
THEOREM InductiveHolds ==
  ASSUME WindowEnd = "request" PROVE Spec => []Inductive
<1>1. Init => Inductive
  BY InductiveInit
<1>2. Inductive /\ [Next]_vars => Inductive'
  BY InductiveNext
<1> QED
  BY <1>1, <1>2, PTL DEF Spec

\* Every variable keeps its type: in particular the target branch never points at
\* a commit that does not exist as an id, and each request names one.
THEOREM TypeCorrect ==
  ASSUME WindowEnd = "request" PROVE Spec => []TypeOK
<1>1. Inductive => TypeOK
  BY DEF Inductive
<1> QED
  BY <1>1, InductiveHolds, PTL

\* The head is the accepted ref or one commit on top of it: replacing an abandoned
\* publication never yields A -> H -> C.
THEOREM TargetIsExplained ==
  ASSUME WindowEnd = "request" PROVE Spec => []TargetExplained
<1>1. Inductive => TargetExplained
  BY DEF Inductive
<1> QED
  BY <1>1, InductiveHolds, PTL

\* Accepted outputs form a chain of direct successors.
THEOREM LineageHolds ==
  ASSUME WindowEnd = "request" PROVE Spec => []AcceptedLineage
<1>1. Inductive => AcceptedLineage
  BY DEF Inductive, Lineage
<1> QED
  BY <1>1, InductiveHolds, PTL

\* The publish fence finds a head it can explain, whoever else was running.
THEOREM FenceHolds ==
  ASSUME WindowEnd = "request" PROVE Spec => []PublishFenceHolds
<1>1. Inductive => PublishFenceHolds
  BY WindowInput DEF Inductive, PublishFenceHolds, TargetExplained, Window
<1> QED
  BY <1>1, InductiveHolds, PTL

\* No update outlives its step.
THEOREM OnlyCurrentStepUpdates ==
  ASSUME WindowEnd = "request" PROVE Spec => []UpdatesOfCurrentStep
<1>1. Inductive => UpdatesOfCurrentStep
  BY DEF Inductive, Windows
<1> QED
  BY <1>1, InductiveHolds, PTL

\* What an attempt is about to report is still the head of the branch.
THEOREM HeldResultStaysVisible ==
  ASSUME WindowEnd = "request" PROVE Spec => []HeldResultIsVisible
<1>1. Inductive => HeldResultIsVisible
  BY DEF Inductive, HeldResultIsVisible, Held, Progress, Completed, HeldRef
<1> QED
  BY <1>1, InductiveHolds, PTL

\* No attempt reports before it has tried to delete the staging branch it committed.
LEMMA StagedIsCleanedNext ==
  ASSUME Inductive, StagedIsCleaned, [Next]_vars
  PROVE  StagedIsCleaned'
<1> SUFFICES ASSUME NEW u \in Task, phase'[u] = "report"
             PROVE  staging'[u] # "committed"
  BY DEF StagedIsCleaned
<1>1. CASE phase[u] = "report" /\ staging' = staging
  BY <1>1 DEF StagedIsCleaned
<1>2. CASE \E t \in Task : WorkerStep(t)
  <2>1. PICK t \in Task : WorkerStep(t)
    BY <1>2
  <2>2. CASE t # u
    <3>1. phase'[u] = phase[u] /\ staging'[u] = staging[u]
      BY <2>1, <2>2 DEF WorkerStep, Body, FirstFence, CreateStaging, CommitStaging, SecondFence,
           PublishWorkspace, CompleteNoop, RequestReturns, CleanupStaging, Raise, Finish, Send,
           Goto, lakefsVars, Inductive, TypeOK
    <3> QED
      BY <3>1 DEF StagedIsCleaned
  <2>3. CASE t = u
    <3>1. staging[u] = "committed" => staging'[u] # "committed"
      BY <2>1, <2>3 DEF WorkerStep, Body, FirstFence, CreateStaging, CommitStaging, SecondFence,
           PublishWorkspace, CompleteNoop, RequestReturns, CleanupStaging, Raise, Finish, Send,
           Goto, lakefsVars, Inductive, TypeOK, Progress
    <3>2. staging[u] # "committed" => staging'[u] # "committed"
      BY <2>1, <2>3 DEF WorkerStep, Body, FirstFence, CreateStaging, CommitStaging, SecondFence,
           PublishWorkspace, CompleteNoop, RequestReturns, CleanupStaging, Raise, Finish, Send,
           Goto, lakefsVars, Inductive, TypeOK
    <3> QED
      BY <3>1, <3>2
  <2> QED
    BY <2>2, <2>3
<1>3. CASE \E t \in Task : ExecutorExits(t) \/ WorkerLost(t) \/ LakeFSStep(t)
  BY <1>1, <1>3 DEF ExecutorExits, WorkerLost, LakeFSStep, ApplyMerge, ApplyReset, Reject, Goto,
       Inductive, TypeOK
<1>4. CASE \E t \in Task : Poll(t) \/ TimeOut(t) \/ Report(t)
  BY <1>1, <1>4 DEF Poll, TimeOut, Report, Goto, lakefsVars, Inductive, TypeOK
<1>5. CASE Retry \/ Ended \/ UNCHANGED vars
  BY <1>1, <1>5 DEF Retry, Ended, vars, lakefsVars
<1> QED
  BY <1>2, <1>3, <1>4, <1>5 DEF Next, TaskStep

\* On every path through the finally block the staging branch is cleaned up first.
THEOREM StagingCleanedBeforeReport ==
  ASSUME WindowEnd = "request" PROVE Spec => []StagedIsCleaned
<1>1. Init => StagedIsCleaned
  BY DEF Init, StagedIsCleaned
<1>2. Inductive /\ StagedIsCleaned /\ [Next]_vars => StagedIsCleaned'
  BY StagedIsCleanedNext
<1> QED
  BY <1>1, <1>2, InductiveHolds, PTL DEF Spec

-----------------------------------------------------------------------------
\* Refinement

\* Without A -> H -> C at most one commit is pending.
LEMMA PendingIsOne ==
  ASSUME TargetExplained
  PROVE  PendingHead = IF target = Accepted THEN <<>> ELSE <<target>>
BY DEF TargetExplained, PendingHead

\* A step either appends the visible head to the accepted refs, or leaves them.
LEMMA AcceptsVisible ==
  ASSUME Inductive, WindowEnd = "request", [Next]_vars
  PROVE  \/ UNCHANGED <<step, refs>>
         \/ /\ step \in 1..Steps /\ step' = step + 1
            /\ refs' = [refs EXCEPT ![step] = target]
            /\ target' = target
<1>1. ASSUME NEW t \in Task, WorkerStep(t) PROVE UNCHANGED <<step, refs>>
  BY <1>1 DEF WorkerStep, Body, FirstFence, CreateStaging, CommitStaging, SecondFence,
       PublishWorkspace, CompleteNoop, RequestReturns, CleanupStaging, conductorVars
<1>2. ASSUME NEW t \in Task,
             ExecutorExits(t) \/ WorkerLost(t) \/ LakeFSStep(t) \/ Poll(t) \/ TimeOut(t)
      PROVE  UNCHANGED <<step, refs>>
  BY <1>2 DEF ExecutorExits, WorkerLost, LakeFSStep, ApplyMerge, ApplyReset, Reject,
       Poll, TimeOut, conductorVars
<1>3. ASSUME NEW t \in Task, Report(t)
      PROVE  \/ UNCHANGED <<step, refs>>
             \/ /\ step \in 1..Steps /\ step' = step + 1
                /\ refs' = [refs EXCEPT ![step] = target]
                /\ target' = target
  <2>1. CASE status[t] = "IN_PROGRESS" /\ AcceptCompleted(t)
    <3>1. step \in 1..Steps
      BY <2>1, CurrentTask
    <3>2. result[t].ref = target
      BY <2>1 DEF AcceptCompleted, Inductive, Held, Completed, HeldRef, Progress
    <3> QED
      BY <1>3, <2>1, <3>1, <3>2 DEF AcceptCompleted, Report, lakefsVars
  <2>2. CASE UNCHANGED conductorVars
    BY <2>2 DEF conductorVars
  <2>3. CASE AcceptFailed(t)
    BY <2>3 DEF AcceptFailed
  <2> QED
    BY <1>3, <2>1, <2>2, <2>3 DEF Report
<1>4. CASE Retry \/ Ended \/ UNCHANGED vars
  BY <1>4 DEF Retry, Ended, vars
<1> QED
  BY <1>1, <1>2, <1>3, <1>4 DEF Next, TaskStep

LEMMA HistoryStep ==
  ASSUME Inductive, Inductive', WindowEnd = "request", [Next]_vars
  PROVE  [History!Next]_History!vars
<1>1. PendingHead' = <<>> \/ PendingHead' = <<target'>>
  BY DEF Inductive, TargetExplained, PendingHead
<1>2. CASE UNCHANGED <<step, refs>>
  <2>1. AcceptedRefs' = AcceptedRefs
    BY <1>2 DEF AcceptedRefs
  <2>2. target' \in Commit
    BY DEF Inductive, TypeOK
  <2> QED
    BY <1>1, <2>1, <2>2 DEF History!Next, History!Publish, History!Withdraw
<1>3. CASE /\ step \in 1..Steps /\ step' = step + 1
           /\ refs' = [refs EXCEPT ![step] = target]
           /\ target' = target
  <2>1. Accepted' = target'
    BY <1>3 DEF Accepted, Inductive, TypeOK
  <2>2. PendingHead' = <<>>
    BY <2>1 DEF PendingHead
  <2>3. Len(AcceptedRefs) = step /\ AcceptedRefs[step] = Accepted
    BY <1>3 DEF AcceptedRefs, Accepted
  <2>4. History!Visible = target
    <3>1. CASE target = Accepted
      BY <2>3, <3>1 DEF History!Visible, PendingHead
    <3>2. CASE target # Accepted
      <4>1. PendingHead = <<target>>
        BY <3>2, PendingIsOne DEF Inductive
      <4>2. <<target>> # <<>> /\ Len(<<target>>) = 1 /\ <<target>>[1] = target
        OBVIOUS
      <4> QED
        BY <4>1, <4>2 DEF History!Visible
    <3> QED
      BY <3>1, <3>2
  <2>5. AcceptedRefs' = Append(AcceptedRefs, target)
    BY <1>3, <2>3 DEF AcceptedRefs, Inductive, TypeOK
  <2> QED
    BY <2>2, <2>4, <2>5 DEF History!Next, History!Accept
<1> QED
  BY <1>2, <1>3, AcceptsVisible

\* The protocol implements WorkspaceHistory: seen from the branch, the workflow only
\* publishes, withdraws and accepts what is visible.
THEOREM Refinement ==
  ASSUME WindowEnd = "request" PROVE Spec => HistorySpec
<1>1. Init => History!Init
  BY DEF Init, History!Init, AcceptedRefs, PendingHead, Accepted
<1>2. Inductive /\ Inductive' /\ [Next]_vars => [History!Next]_History!vars
  BY HistoryStep
<1> QED
  BY <1>1, <1>2, InductiveHolds, PTL DEF Spec, HistorySpec, History!Spec

=============================================================================
