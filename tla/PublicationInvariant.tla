------------------------ MODULE PublicationInvariant ------------------------
(***************************************************************************)
(* The inductive invariant behind Publication's properties when a publish  *)
(* window ends with LakeFS's answer (WindowEnd = "request").               *)
(***************************************************************************)
EXTENDS Publication

Exists(c) == c = Root \/ parent[c] # NoCommit
Completed(t) == result[t].status = "COMPLETED" \/ request[t].op = "applied"
HeldRef(t) == IF request[t].op = "applied" THEN request[t].ref ELSE result[t].ref

\* past its last fence
Committed(t) == Window(t) \/ phase[t] = "request" \/ Completed(t)

\* Conductor works on one task at a time, in order.
Schedule ==
  /\ step = Steps + 1 => workflow = "COMPLETED"
  /\ workflow = "COMPLETED" => step = Steps + 1
  /\ \A t \in Task : status[t] \in {"ABSENT", "SCHEDULED"} => phase[t] = "idle"
  /\ \A t \in Task : status[t] \in {"SCHEDULED", "IN_PROGRESS"} => t = Current
  /\ \A t \in Task : StepOf(t) > step => status[t] = "ABSENT"
  /\ \A t \in Task : StepOf(t) = step /\ RetryCount(t) > retry => status[t] = "ABSENT"

\* Accepted refs exist and chain; the rest is unset.
Lineage ==
  /\ \A s \in 0..Steps : s < step => refs[s] \in Commit /\ Exists(refs[s])
  /\ AcceptedLineage
  /\ parent[Root] = NoCommit

\* What an execution's phase says about its staging branch and its request.
Progress ==
  \A t \in Task :
    /\ phase[t] \in {"idle", "body", "changed", "unchanged", "stage", "noop"}
         => staging[t] = "absent"
    /\ phase[t] = "staging" => staging[t] = "open"
    /\ phase[t] \in {"staged", "publish", "cleanup"} => staging[t] = "committed"
    /\ phase[t] \in {"idle", "body", "changed", "unchanged", "stage", "staging",
                      "staged", "publish", "noop"}
         => request[t] = NoRequest /\ parent[Merged(t)] = NoCommit
    /\ request[t].op \in {"applied", "rejected"} => phase[t] = "request"
    /\ result[t].status = "COMPLETED"
         => phase[t] \in {"cleanup", "report"} /\ ~InFlight(t)
    /\ phase[t] \in {"cleanup", "report", "exited"} => result[t].status # "none"
    /\ ReadOnly(t) => phase[t] \notin {"changed", "unchanged", "stage", "staging",
                                       "staged", "publish", "noop", "request"}

\* Commits appear once, on the parent the protocol gives them.
Commits ==
  /\ \A t \in Task :
       IF staging[t] \in {"absent", "open"}
       THEN parent[Staged(t)] = NoCommit
       ELSE parent[Staged(t)] = Input(t)
  /\ \A t \in Task : request[t].op = "merge" => parent[Merged(t)] = NoCommit
  /\ Exists(target)

\* A request that is on its way finds the branch its sender saw.
Requests ==
  \A t \in Task :
    /\ request[t].op = "merge" => target = Input(t)
    /\ request[t].op = "reset" =>
         /\ request[t].ref \in Commit
         /\ Exists(request[t].ref)
         /\ request[t].ref = Input(t) \/ parent[request[t].ref] = Input(t)

\* Publish windows: one at a time, and only for the step being run.
Windows ==
  /\ UpdatesOfCurrentStep
  /\ \A t \in Task : Window(t) => SerialWrites(t) /\ ~ReadOnly(t)
  /\ \A t \in Task : status[t] = "IN_PROGRESS" /\ Committed(t) => SerialWrites(t)

\* Nothing moves the head between an attempt's update and its acceptance.
Held ==
  /\ \A t \in Task : status[t] = "IN_PROGRESS" /\ Completed(t) => target = HeldRef(t)
  /\ step \in ReadOnlySteps \cup {Steps + 1} => target = Accepted

Inductive ==
  /\ TypeOK
  /\ Schedule
  /\ Lineage
  /\ Progress
  /\ Commits
  /\ Requests
  /\ Windows
  /\ Held
  /\ TargetExplained
=============================================================================
