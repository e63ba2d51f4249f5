----------------------- MODULE SupervisorShutdownProofs -----------------------
(***************************************************************************)
(* Proofs about SupervisorShutdown, for any number of jobs, slots, fences, *)
(* replacements and crashes.                                               *)
(***************************************************************************)
EXTENDS SupervisorShutdown, SequenceTheorems, TLAPS

-----------------------------------------------------------------------------
\* The inductive invariant

\* Where the supervisor is says what it has decided.
Itinerary ==
  /\ supervisor.at \in {"backoff", "send"} => supervisor.slot \in Slots
  /\ supervisor.at = "kill" => killed

\* The broker learns late and never more than it was told; a job's generation is one
\* the broker once saw up.
Views ==
  /\ \A s \in Slots : /\ told[s].gen = executor[s].gen
                      /\ known[s].gen <= told[s].gen
                      /\ known[s].gen = told[s].gen /\ told[s].up => known[s].up
  /\ \A j \in Jobs : job[j].at \in {"wait", "COMPLETED", "FAILED"}
                       => job[j].slot \in Slots /\ job[j].gen <= known[job[j].slot].gen

\* The exit of the process that j was sent to has been reported.
Excused(j) == ~told[job[j].slot].up \/ told[job[j].slot].gen # job[j].gen

\* What an executor reads or runs was sent, what ran has its completion under way or
\* delivered, and a failure has its reason.
Sent(j) == job[j].at \in {"wait", "COMPLETED", "FAILED"}
SlotAccounted(s) ==
  /\ \A j \in Elements(pipe[s]) : j # Stop => Sent(j)
  /\ executor[s].state \in Busy => executor[s].job # NoJob
  /\ executor[s].job # NoJob => Sent(executor[s].job)
Accounted ==
  /\ \A s \in Slots : SlotAccounted(s)
  /\ \A j \in ran : Sent(j) /\ (job[j].at = "wait" => j \in completed)
  /\ \A j \in Jobs : job[j].at = "FAILED" => Excused(j)

\* A broker that ended by itself left no job in hand; one that a stop killed had none yet.
BrokerEnd ==
  /\ broker = "exited" => InHand = {}
  /\ broker = "dead" /\ crashes = 0 /\ ~killed => \A j \in Jobs : job[j].at = "queued"

ShutdownInv ==
  /\ TypeOK
  /\ Itinerary
  /\ Views
  /\ Accounted
  /\ BrokerEnd
  /\ SweepFindsNobody

-----------------------------------------------------------------------------
\* Sequences

\* What is sent goes behind what is in the pipe.
LEMMA AppendElements ==
  ASSUME NEW S, NEW q \in Seq(S), NEW x \in S
  PROVE  Append(q, x) \in Seq(S) /\ Elements(Append(q, x)) = Elements(q) \cup {x}
<1>1. Len(q) \in Nat /\ Len(Append(q, x)) = Len(q) + 1
  OBVIOUS
<1>2. /\ Append(q, x)[Len(q) + 1] = x
      /\ \A i \in 1..Len(q) : Append(q, x)[i] = q[i]
  BY <1>1
<1>3. 1..(Len(q) + 1) = 1..Len(q) \cup {Len(q) + 1}
  BY <1>1
<1>4. Append(q, x) \in Seq(S)
  OBVIOUS
<1>5. QED BY <1>1, <1>2, <1>3, <1>4 DEF Elements

\* What is read is taken from the front.
LEMMA HeadTailElements ==
  ASSUME NEW S, NEW q \in Seq(S), q # <<>>
  PROVE  /\ Head(q) \in S /\ Head(q) \in Elements(q)
         /\ Tail(q) \in Seq(S) /\ Elements(Tail(q)) \subseteq Elements(q)
<1>1. Len(q) \in Nat /\ Len(q) >= 1 /\ Head(q) = q[1] /\ q[1] \in S
  OBVIOUS
<1>2. /\ Tail(q) \in Seq(S) /\ Len(Tail(q)) = Len(q) - 1
      /\ \A i \in 1..Len(Tail(q)) : Tail(q)[i] = q[i + 1]
  BY HeadTailProperties
<1>3. Elements(Tail(q)) \subseteq Elements(q)
  BY <1>1, <1>2 DEF Elements
<1>4. QED BY <1>1, <1>2, <1>3 DEF Elements

LEMMA EmptyElements == \A S : <<>> \in Seq(S) /\ Elements(<<>>) = {}
  BY DEF Elements

-----------------------------------------------------------------------------
\* Updates of one entry

Executor == [state : {"idle"} \cup Busy \cup Gone, job : Jobs \cup {NoJob},
             gen : 1..MaxGeneration, fences : 0..MaxFences]
JobEntry == [at : {"queued", "lease", "wait", "COMPLETED", "FAILED"},
             slot : Slots \cup {NoSlot}, gen : 0..MaxGeneration]

\* Generations are numbers.
LEMMA GenerationTyped ==
  ASSUME TypeOK
  PROVE  /\ \A s \in Slots : /\ told[s].gen \in Nat /\ known[s].gen \in Nat
                             /\ executor[s].gen \in Nat
         /\ \A j \in Jobs : job[j].gen \in Nat
<1>1. ASSUME NEW s \in Slots PROVE told[s].gen \in Nat
  <2>1. told[s] \in [gen : 1..MaxGeneration, up : BOOLEAN]
    BY DEF TypeOK
  <2>2. QED BY <2>1
<1>2. ASSUME NEW s \in Slots PROVE known[s].gen \in Nat
  <2>1. known[s] \in [gen : 1..MaxGeneration, up : BOOLEAN]
    BY DEF TypeOK
  <2>2. QED BY <2>1
<1>3. ASSUME NEW s \in Slots PROVE executor[s].gen \in Nat
  <2>1. executor[s] \in Executor
    BY DEF TypeOK, Executor
  <2>2. QED BY <2>1 DEF Executor
<1>4. ASSUME NEW j \in Jobs PROVE job[j].gen \in Nat
  <2>1. job[j] \in JobEntry
    BY DEF TypeOK, JobEntry
  <2>2. QED BY <2>1 DEF JobEntry
<1>5. QED BY <1>1, <1>2, <1>3, <1>4

\* A process that leaves a state keeps its job and its generation, and the others all.
LEMMA LeaveChanges ==
  ASSUME TypeOK, NEW s \in Slots, NEW state \in {"idle"} \cup Busy \cup Gone, Leave(s, state)
  PROVE  /\ executor' \in [Slots -> Executor]
         /\ executor'[s].state = state
         /\ \A x \in Slots : /\ executor'[x].job = executor[x].job
                             /\ executor'[x].gen = executor[x].gen
                             /\ x # s => executor'[x] = executor[x]
<1>1. executor[s] \in Executor
  BY DEF TypeOK, Executor
<1> DEFINE left == [executor[s] EXCEPT !.state = state]
<1>2. /\ left \in Executor /\ left.state = state
      /\ left.job = executor[s].job /\ left.gen = executor[s].gen
  BY <1>1 DEF Executor
<1>3. executor' = [executor EXCEPT ![s] = left]
  BY DEF Leave
<1>4. executor \in [Slots -> Executor]
  BY DEF TypeOK, Executor
<1> HIDE DEF left
<1>5. QED BY <1>2, <1>3, <1>4

\* A thread that goes on keeps its slot and generation, and the other threads all.
LEMMA ReturnChanges ==
  ASSUME TypeOK, NEW j \in Jobs, NEW status \in {"lease", "COMPLETED", "FAILED"}, Return(j, status)
  PROVE  /\ job' \in [Jobs -> JobEntry]
         /\ job'[j].at = status
         /\ \A i \in Jobs : /\ job'[i].slot = job[i].slot
                            /\ job'[i].gen = job[i].gen
                            /\ i # j => job'[i] = job[i]
<1>1. job[j] \in JobEntry
  BY DEF TypeOK, JobEntry
<1> DEFINE left == [job[j] EXCEPT !.at = status]
<1>2. left \in JobEntry /\ left.at = status /\ left.slot = job[j].slot /\ left.gen = job[j].gen
  BY <1>1 DEF JobEntry
<1>3. job' = [job EXCEPT ![j] = left]
  BY DEF Return
<1>4. job \in [Jobs -> JobEntry]
  BY DEF TypeOK, JobEntry
<1> HIDE DEF left
<1>5. QED BY <1>2, <1>3, <1>4

\* An executor that takes a job up runs that job.
LEMMA ReadChanges ==
  ASSUME TypeOK, NEW s \in Slots, ReadPipe(s), Head(pipe[s]) # Stop
  PROVE  /\ executor' \in [Slots -> Executor]
         /\ executor'[s].job = Head(pipe[s]) /\ executor'[s].state = "running"
         /\ \A x \in Slots : /\ executor'[x].gen = executor[x].gen
                             /\ x # s => executor'[x] = executor[x]
<1> DEFINE taken == [state |-> "running", job |-> Head(pipe[s]), gen |-> executor[s].gen, fences |-> 0]
<1>1. executor[s] \in Executor /\ executor \in [Slots -> Executor]
  BY DEF TypeOK, Executor
<1>2. Head(pipe[s]) \in Jobs
  BY HeadTailElements DEF TypeOK, ReadPipe
<1>3. /\ taken \in Executor /\ taken.job = Head(pipe[s]) /\ taken.gen = executor[s].gen
      /\ taken.state = "running"
  BY <1>1, <1>2, ShutdownAssumption DEF Executor, Busy
<1>4. executor' = [executor EXCEPT ![s] = taken]
  BY <1>1 DEF ReadPipe, Executor
<1> HIDE DEF taken
<1>5. QED BY <1>1, <1>3, <1>4

\* A fence request counts against its bound and changes no job.
LEMMA FenceChanges ==
  ASSUME TypeOK, NEW s \in Slots, RequestFence(s)
  PROVE  /\ executor' \in [Slots -> Executor]
         /\ executor'[s].job = executor[s].job /\ executor'[s].gen = executor[s].gen
         /\ \A x \in Slots : x # s => executor'[x] = executor[x]
<1>1. executor[s] \in Executor /\ executor \in [Slots -> Executor]
  BY DEF TypeOK, Executor
<1> DEFINE asking == [state |-> "fence", job |-> executor[s].job, gen |-> executor[s].gen,
                      fences |-> executor[s].fences + 1]
<1>2. executor[s].fences < MaxFences
  BY DEF RequestFence
<1>3. /\ asking \in Executor
      /\ asking.job = executor[s].job /\ asking.gen = executor[s].gen
  BY <1>1, <1>2, ShutdownAssumption DEF Executor, Busy
<1>4. executor' = [executor EXCEPT ![s] = asking]
  BY <1>1 DEF RequestFence, Executor
<1> HIDE DEF asking
<1>5. QED BY <1>1, <1>3, <1>4

\* A run that ends leaves its executor without a job.
LEMMA FinishChanges ==
  ASSUME TypeOK, NEW s \in Slots, Finish(s)
  PROVE  /\ executor' \in [Slots -> Executor]
         /\ executor'[s].state = "idle" /\ executor'[s].job = NoJob
         /\ executor'[s].gen = executor[s].gen
         /\ \A x \in Slots : x # s => executor'[x] = executor[x]
<1>1. executor[s] \in Executor /\ executor \in [Slots -> Executor]
  BY DEF TypeOK, Executor
<1> DEFINE done == [executor[s] EXCEPT !.state = "idle", !.job = NoJob]
<1>2. /\ done \in Executor /\ done.state = "idle" /\ done.job = NoJob
      /\ done.gen = executor[s].gen
  BY <1>1 DEF Executor
<1>3. executor' = [executor EXCEPT ![s] = done]
  BY DEF Finish
<1> HIDE DEF done
<1>4. QED BY <1>1, <1>2, <1>3

\* An exit event ends what the broker is told of one generation.
LEMMA ReportChanges ==
  ASSUME TypeOK, NEW s \in Slots, ReportExit(s)
  PROVE  /\ told' \in [Slots -> [gen : 1..MaxGeneration, up : BOOLEAN]]
         /\ ~told'[s].up
         /\ \A x \in Slots : /\ told'[x].gen = told[x].gen
                             /\ x # s => told'[x] = told[x]
<1>1. told[s] \in [gen : 1..MaxGeneration, up : BOOLEAN]
  BY DEF TypeOK
<1> DEFINE down == [told[s] EXCEPT !.up = FALSE]
<1>2. /\ down \in [gen : 1..MaxGeneration, up : BOOLEAN]
      /\ ~down.up /\ down.gen = told[s].gen
  BY <1>1
<1>3. told' = [told EXCEPT ![s] = down] /\ told \in [Slots -> [gen : 1..MaxGeneration, up : BOOLEAN]]
  BY DEF ReportExit, TypeOK
<1> HIDE DEF down
<1>4. QED BY <1>2, <1>3

-----------------------------------------------------------------------------
\* The steps

\* Before the first step nothing is sent and everybody is up.
LEMMA InitEstablishes == Init => ShutdownInv
<1> SUFFICES ASSUME Init PROVE ShutdownInv
  OBVIOUS
<1>1. TypeOK
  <2>1. Fresh(1) \in Executor /\ [at |-> "queued", slot |-> NoSlot, gen |-> 0] \in JobEntry
    BY ShutdownAssumption DEF Fresh, Executor, JobEntry
  <2>2. executor \in [Slots -> Executor] /\ job \in [Jobs -> JobEntry]
    BY <2>1 DEF Init
  <2>3. told \in [Slots -> [gen : 1..MaxGeneration, up : BOOLEAN]] /\ crashes \in 0..MaxCrashes
    BY ShutdownAssumption DEF Init
  <2>4. QED BY <2>2, <2>3, EmptyElements DEF Init, TypeOK, Executor, JobEntry
<1>2. Views
  BY ShutdownAssumption DEF Init, Views, Fresh, Slots
<1>3. Accounted
  BY EmptyElements DEF Init, Accounted, SlotAccounted, Sent, Fresh, Busy, NoJob
<1>4. QED
  BY <1>1, <1>2, <1>3 DEF Init, ShutdownInv, Itinerary, BrokerEnd, SweepFindsNobody

\* Every step keeps the types: a slot that the supervisor deals with exists, and no
\* counter passes its bound.
LEMMA TypeKept ==
  ASSUME ShutdownInv, [Next]_vars
  PROVE  TypeOK'
<1>0. TypeOK /\ Itinerary /\ Views /\ Accounted
  BY DEF ShutdownInv
<1> DEFINE Others == /\ forceKill' = forceKill /\ stop' = stop /\ supervisor' = supervisor
                     /\ told' = told /\ known' = known /\ crashes' \in 0..MaxCrashes
                     /\ killed' = killed
<1>a. ASSUME Others, executor' \in [Slots -> Executor], job' = job, broker' = broker,
             pipe' \in [Slots -> Seq(Jobs \cup {Stop})], signalled' = signalled,
             completed' \in SUBSET Jobs, ran' \in SUBSET Jobs
      PROVE  TypeOK'
  BY <1>0, <1>a DEF TypeOK, Executor
<1>b. ASSUME Others, job' \in [Jobs -> JobEntry], broker' = broker, executor' = executor,
             pipe' \in [Slots -> Seq(Jobs \cup {Stop})], signalled' = signalled,
             completed' \in SUBSET Jobs, ran' = ran
      PROVE  TypeOK'
  BY <1>0, <1>b DEF TypeOK, JobEntry
<1> HIDE DEF Others
<1>1. CASE Signal
  BY <1>0, <1>1 DEF Signal, historyVars, TypeOK, Gone
<1>2. CASE CrashBroker
  BY <1>0, <1>2, ShutdownAssumption DEF CrashBroker, processVars, TypeOK, Gone
<1>3. ASSUME NEW s \in Slots, CrashExecutor(s) PROVE TypeOK'
  <2>1. executor' \in [Slots -> Executor]
    BY <1>0, <1>3, LeaveChanges DEF CrashExecutor, Gone
  <2>2. Others
    BY <1>0, <1>3, ShutdownAssumption DEF Others, CrashExecutor, brokerVars, TypeOK
  <2>3. QED BY <1>0, <1>3, <1>a, <2>1, <2>2 DEF CrashExecutor, brokerVars, TypeOK
<1>4. ASSUME NEW j \in Jobs, Poll(j) \/ LearnExit(j) \/ Receive(j) PROVE TypeOK'
  <2>1. job' \in [Jobs -> JobEntry]
    BY <1>0, <1>4, ReturnChanges DEF Poll, LearnExit, Receive, Return
  <2>2. Others
    BY <1>0, <1>4 DEF Others, Poll, LearnExit, Receive, historyVars, TypeOK
  <2>3. QED
    BY <1>0, <1>4, <1>b, <2>1, <2>2 DEF Poll, LearnExit, Receive, processVars, historyVars, TypeOK
<1>5. ASSUME NEW j \in Jobs, NEW s \in Slots, LeaseAndSend(j, s) PROVE TypeOK'
  <2>1. Append(pipe[s], j) \in Seq(Jobs \cup {Stop})
    BY <1>0, AppendElements DEF TypeOK
  <2>2. pipe' \in [Slots -> Seq(Jobs \cup {Stop})]
    BY <1>0, <1>5, <2>1 DEF LeaseAndSend, TypeOK
  <2>3. [at |-> "wait", slot |-> s, gen |-> known[s].gen] \in JobEntry
    BY <1>0 DEF TypeOK, JobEntry
  <2>4. job' \in [Jobs -> JobEntry]
    BY <1>0, <1>5, <2>3 DEF LeaseAndSend, TypeOK, JobEntry
  <2>5. Others
    BY <1>0, <1>5 DEF Others, LeaseAndSend, historyVars, TypeOK
  <2>6. QED BY <1>0, <1>5, <1>b, <2>2, <2>4, <2>5 DEF LeaseAndSend, historyVars, TypeOK
<1>6. CASE Drain \/ BrokerExits
  BY <1>0, <1>6 DEF Drain, BrokerExits, processVars, historyVars, TypeOK, Gone
<1>7. ASSUME NEW s \in Slots, ServeFence(s) \/ SeeSignal(s) PROVE TypeOK'
  <2>1. executor' \in [Slots -> Executor]
    BY <1>0, <1>7, LeaveChanges DEF ServeFence, SeeSignal, Gone, Busy
  <2>2. Others
    BY <1>0, <1>7 DEF Others, ServeFence, SeeSignal, brokerVars, historyVars, TypeOK
  <2>3. QED
    BY <1>0, <1>7, <1>a, <2>1, <2>2 DEF ServeFence, SeeSignal, brokerVars, historyVars, TypeOK
<1>8. ASSUME NEW s \in Slots, ReadPipe(s) PROVE TypeOK'
  <2>1. Head(pipe[s]) \in Jobs \cup {Stop} /\ Tail(pipe[s]) \in Seq(Jobs \cup {Stop})
    BY <1>0, <1>8, HeadTailElements DEF ReadPipe, TypeOK
  <2>2. pipe' \in [Slots -> Seq(Jobs \cup {Stop})]
    BY <1>0, <1>8, <2>1 DEF ReadPipe, TypeOK
  <2>3. executor' \in [Slots -> Executor]
    <3>1. CASE Head(pipe[s]) = Stop
      BY <1>0, <1>8, <3>1, LeaveChanges DEF ReadPipe, Gone
    <3>2. CASE Head(pipe[s]) # Stop
      BY <1>0, <1>8, <3>2, ReadChanges
    <3>3. QED BY <3>1, <3>2
  <2>4. Others
    BY <1>0, <1>8 DEF Others, ReadPipe, brokerVars, historyVars, TypeOK
  <2>5. QED
    BY <1>0, <1>8, <1>a, <2>2, <2>3, <2>4 DEF ReadPipe, brokerVars, historyVars, TypeOK
<1>9. ASSUME NEW s \in Slots, RequestFence(s) PROVE TypeOK'
  <2>1. Others
    BY <1>0, <1>9 DEF Others, RequestFence, brokerVars, historyVars, TypeOK
  <2>2. QED
    BY <1>0, <1>9, <1>a, <2>1, FenceChanges DEF RequestFence, brokerVars, historyVars, TypeOK
<1>10. ASSUME NEW s \in Slots, Finish(s) PROVE TypeOK'
  <2>1. executor[s].job \in Jobs
    BY <1>0, <1>10 DEF Finish, Accounted, SlotAccounted, Busy, TypeOK, NoJob
  <2>2. Others
    BY <1>0, <1>10 DEF Others, Finish, brokerVars, historyVars, TypeOK
  <2>3. QED
    BY <1>0, <1>10, <1>a, <2>1, <2>2, FinishChanges DEF Finish, brokerVars, historyVars, TypeOK
<1>11. ASSUME NEW s \in Slots, ReportExit(s) PROVE TypeOK'
  <2>1. told' \in [Slots -> [gen : 1..MaxGeneration, up : BOOLEAN]]
    BY <1>0, <1>11, ReportChanges
  <2>2. QED
    BY <1>0, <1>11, <2>1 DEF ReportExit, Goto, processVars, brokerVars, historyVars, TypeOK
<1>12. CASE Replace
  <2> DEFINE next == executor[supervisor.slot].gen + 1
  <2>1. supervisor.slot \in Slots /\ next \in 1..MaxGeneration
    BY <1>0, <1>12 DEF Replace, Itinerary, TypeOK
  <2>2. Fresh(next) \in Executor
    BY <2>1, ShutdownAssumption DEF Fresh, Executor
  <2>3. executor' \in [Slots -> Executor] /\ pipe' \in [Slots -> Seq(Jobs \cup {Stop})]
    BY <1>0, <1>12, <2>1, <2>2, EmptyElements DEF Replace, TypeOK, Executor
  <2>4. told' \in [Slots -> [gen : 1..MaxGeneration, up : BOOLEAN]]
    BY <1>0, <1>12, <2>1 DEF Replace, TypeOK
  <2>5. QED
    BY <1>0, <1>12, <2>3, <2>4 DEF Replace, Goto, brokerVars, historyVars, TypeOK, Executor
<1>13. CASE LoopEnds
  <2>1. supervisor' \in [at : {"send"}, slot : Slots \cup {NoSlot}]
    BY <1>13, ShutdownAssumption DEF LoopEnds, Goto, Slots
  <2>2. QED
    BY <1>0, <1>13, <2>1 DEF LoopEnds, processVars, brokerVars, historyVars, TypeOK
<1>14. CASE SendStop
  <2>1. supervisor.slot \in Slots
    BY <1>0, <1>14 DEF SendStop, Itinerary
  <2>2. Append(pipe[supervisor.slot], Stop) \in Seq(Jobs \cup {Stop})
    BY <1>0, <2>1, AppendElements DEF TypeOK
  <2>3. pipe' \in [Slots -> Seq(Jobs \cup {Stop})]
    BY <1>0, <1>14, <2>1, <2>2 DEF SendStop, TypeOK
  <2>4. supervisor' \in [at : {"send", "terminate"}, slot : Slots \cup {NoSlot}]
    BY <1>14, <2>1, ShutdownAssumption DEF SendStop, Goto, Slots
  <2>5. QED
    BY <1>0, <1>14, <2>3, <2>4 DEF SendStop, brokerVars, historyVars, TypeOK
<1>15. CASE TerminateBroker \/ Joined \/ Deadline \/ AllKilled \/ Sweep
  <2>1. supervisor' \in [at : {"join", "kill", "sweep", "stopped"}, slot : Slots \cup {NoSlot}]
    BY <1>15 DEF TerminateBroker, Joined, Deadline, AllKilled, Sweep, Goto
  <2>2. broker' \in {"polling", "stopping"} \cup Gone /\ killed' \in BOOLEAN
    BY <1>0, <1>15 DEF TerminateBroker, Joined, Deadline, AllKilled, Sweep, brokerVars,
                       historyVars, TypeOK, Gone
  <2>3. QED
    BY <1>0, <1>15, <2>1, <2>2 DEF TerminateBroker, Joined, Deadline, AllKilled, Sweep,
                                   processVars, brokerVars, historyVars, TypeOK
<1>16. CASE Kill
  <2>1. CASE UNCHANGED executor
    BY <1>0, <1>16, <2>1 DEF Kill, historyVars, TypeOK, Gone
  <2>2. CASE \E s \in Slots : Alive(s) /\ Leave(s, "dead") /\ UNCHANGED broker
    <3>1. executor' \in [Slots -> Executor]
      BY <1>0, <2>2, LeaveChanges DEF Gone
    <3>2. Others
      BY <1>0, <1>16 DEF Others, Kill, historyVars, TypeOK
    <3>3. QED BY <1>0, <1>16, <1>a, <2>2, <3>1, <3>2 DEF Kill, historyVars, TypeOK
  <2>3. QED BY <1>16, <2>1, <2>2 DEF Kill
<1>17. CASE Ended \/ UNCHANGED vars
  BY <1>0, <1>17 DEF Ended, vars, TypeOK
<1>18. QED
  BY <1>1, <1>2, <1>3, <1>4, <1>5, <1>6, <1>7, <1>8, <1>9, <1>10, <1>11, <1>12, <1>13, <1>14, <1>15,
     <1>16, <1>17 DEF Next, BrokerNext, ExecutorNext, SupervisorNext

\* The supervisor deals with a slot, and uses its deadline before it kills.
LEMMA ItineraryKept ==
  ASSUME ShutdownInv, [Next]_vars
  PROVE  Itinerary'
<1>0. TypeOK /\ Itinerary
  BY DEF ShutdownInv
<1>1. CASE UNCHANGED <<supervisor, killed>>
  BY <1>0, <1>1 DEF Itinerary
<1>2. ASSUME NEW s \in Slots, ReportExit(s) PROVE Itinerary'
  BY <1>2 DEF ReportExit, Goto, Itinerary
<1>3. CASE LoopEnds
  BY <1>3, ShutdownAssumption DEF LoopEnds, Goto, Itinerary, Slots
<1>4. CASE SendStop
  BY <1>0, <1>4, ShutdownAssumption DEF SendStop, Goto, Itinerary, Slots
<1>5. CASE Replace \/ TerminateBroker \/ Joined \/ Deadline \/ AllKilled \/ Sweep
  BY <1>5 DEF Replace, TerminateBroker, Joined, Deadline, AllKilled, Sweep, Goto, Itinerary
<1>6. CASE Signal \/ CrashBroker \/ (\E s \in Slots : CrashExecutor(s))
  BY <1>1, <1>6 DEF Signal, CrashBroker, CrashExecutor, historyVars
<1>7. CASE BrokerNext
  BY <1>1, <1>7 DEF BrokerNext, Poll, LearnExit, Receive, LeaseAndSend, Drain, BrokerExits,
                    ServeFence, historyVars
<1>8. CASE \E s \in Slots : ExecutorNext(s)
  BY <1>1, <1>8 DEF ExecutorNext, SeeSignal, ReadPipe, RequestFence, Finish, historyVars
<1>9. CASE Kill \/ Ended \/ UNCHANGED vars
  BY <1>1, <1>9 DEF Kill, Ended, historyVars, vars
<1>10. QED
  BY <1>2, <1>3, <1>4, <1>5, <1>6, <1>7, <1>8, <1>9 DEF Next, SupervisorNext

\* When the final sweep runs nobody is left, and nobody comes back.
LEMMA SweepKept ==
  ASSUME ShutdownInv, [Next]_vars
  PROVE  SweepFindsNobody'
<1>0. TypeOK /\ SweepFindsNobody
  BY DEF ShutdownInv
<1> USE DEF SweepFindsNobody, BrokerAlive, Alive, Gone
<1>1. CASE UNCHANGED <<supervisor, broker, executor>>
  BY <1>0, <1>1
<1>2. CASE Joined \/ AllKilled
  BY <1>2 DEF Joined, AllKilled, brokerVars, processVars
<1>3. CASE Sweep
  BY <1>0, <1>3 DEF Sweep, brokerVars, processVars
<1>4. CASE \/ Replace \/ LoopEnds \/ SendStop \/ TerminateBroker \/ Deadline
           \/ \E s \in Slots : ReportExit(s)
  BY <1>4 DEF Replace, LoopEnds, SendStop, TerminateBroker, Deadline, ReportExit, Goto
<1>5. CASE Signal \/ Kill
  BY <1>5 DEF Signal, Kill
<1>6. CASE CrashBroker \/ BrokerExits
  BY <1>0, <1>6 DEF CrashBroker, BrokerExits, processVars
<1>7. ASSUME NEW s \in Slots, CrashExecutor(s) \/ ServeFence(s) \/ SeeSignal(s)
      PROVE  SweepFindsNobody'
  <2>1. Alive(s) /\ supervisor' = supervisor
    BY <1>7 DEF CrashExecutor, ServeFence, SeeSignal
  <2>2. QED BY <1>0, <2>1
<1>8. ASSUME NEW s \in Slots, ReadPipe(s) \/ RequestFence(s) \/ Finish(s)
      PROVE  SweepFindsNobody'
  <2>1. Alive(s) /\ supervisor' = supervisor
    BY <1>8 DEF ReadPipe, RequestFence, Finish
  <2>2. QED BY <1>0, <2>1
<1>9. ASSUME NEW j \in Jobs,
             Poll(j) \/ LearnExit(j) \/ Receive(j) \/ \E s \in Slots : LeaseAndSend(j, s)
      PROVE  SweepFindsNobody'
  BY <1>1, <1>9 DEF Poll, LearnExit, Receive, LeaseAndSend, processVars
<1>10. CASE Drain \/ Ended \/ UNCHANGED vars
  BY <1>1, <1>10 DEF Drain, Ended, processVars, vars
<1>11. QED
  BY <1>2, <1>3, <1>4, <1>5, <1>6, <1>7, <1>8, <1>9, <1>10
     DEF Next, BrokerNext, ExecutorNext, SupervisorNext

\* What the broker knows lags behind what it is told.
LEMMA ViewsKept ==
  ASSUME ShutdownInv, [Next]_vars, TypeOK'
  PROVE  Views'
<1>0. TypeOK /\ Itinerary /\ Views
  BY DEF ShutdownInv
<1>a. ASSUME told' = told, known' = known, \A s \in Slots : executor'[s].gen = executor[s].gen,
             \A j \in Jobs : /\ job'[j].gen = job[j].gen /\ job'[j].slot = job[j].slot
                             /\ Sent(j)' => Sent(j)
      PROVE  Views'
  BY <1>0, <1>a DEF Views, Sent
<1>1. CASE UNCHANGED <<told, known, executor, job>>
  BY <1>1, <1>a DEF Sent
<1>2. ASSUME NEW s \in Slots, CrashExecutor(s) \/ ServeFence(s) \/ SeeSignal(s)
      PROVE  Views'
  BY <1>0, <1>2, <1>a, LeaveChanges
     DEF CrashExecutor, ServeFence, SeeSignal, Sent, Gone, Busy, brokerVars
<1>3. ASSUME NEW s \in Slots, ReadPipe(s) \/ RequestFence(s) \/ Finish(s)
      PROVE  Views'
  <2>1. \A x \in Slots : executor'[x].gen = executor[x].gen
    <3>1. CASE ReadPipe(s) /\ Head(pipe[s]) = Stop
      BY <1>0, <3>1, LeaveChanges DEF ReadPipe, Gone
    <3>2. CASE ReadPipe(s) /\ Head(pipe[s]) # Stop
      BY <1>0, <3>2, ReadChanges
    <3>3. CASE RequestFence(s)
      BY <1>0, <3>3, FenceChanges
    <3>4. CASE Finish(s)
      BY <1>0, <3>4, FinishChanges
    <3>5. QED BY <1>3, <3>1, <3>2, <3>3, <3>4
  <2>2. UNCHANGED <<told, known, job>>
    BY <1>3 DEF ReadPipe, RequestFence, Finish, brokerVars
  <2>3. QED BY <2>1, <2>2, <1>a DEF Sent
<1>4. ASSUME NEW j \in Jobs, Poll(j) PROVE Views'
  BY <1>0, <1>4, <1>a, ReturnChanges DEF Poll, Return, Sent, processVars
<1>5. ASSUME NEW j \in Jobs, LearnExit(j) \/ Receive(j) PROVE Views'
  BY <1>0, <1>5, <1>a, ReturnChanges DEF LearnExit, Receive, Sent, processVars
<1>6. ASSUME NEW j \in Jobs, NEW s \in Slots, LeaseAndSend(j, s) PROVE Views'
  <2>1. /\ job'[j].slot = s /\ job'[j].gen = known[s].gen
        /\ \A i \in Jobs : i # j => job'[i] = job[i]
    BY <1>0, <1>6 DEF LeaseAndSend, TypeOK
  <2>2. UNCHANGED <<told, known, executor>> /\ known[s].gen \in Nat
    BY <1>0, <1>6, GenerationTyped DEF LeaseAndSend
  <2>3. QED BY <1>0, <2>1, <2>2 DEF Views
<1>7. CASE Drain
  <2>1. UNCHANGED <<told, executor, job>> /\ known' = told
    BY <1>7 DEF Drain, processVars
  <2>2. QED BY <1>0, <2>1, GenerationTyped DEF Views
<1>8. ASSUME NEW s \in Slots, ReportExit(s) PROVE Views'
  BY <1>0, <1>8, ReportChanges DEF Views, ReportExit, brokerVars, processVars
<1>9. CASE Replace
  <2> DEFINE next == executor[supervisor.slot].gen + 1
  <2>1. supervisor.slot \in Slots
    BY <1>0, <1>9 DEF Replace, Itinerary
  <2>2. /\ told'[supervisor.slot].gen = next /\ executor'[supervisor.slot].gen = next
        /\ \A x \in Slots : x # supervisor.slot => told'[x] = told[x] /\ executor'[x] = executor[x]
    BY <1>0, <1>9, <2>1 DEF Replace, TypeOK, Fresh
  <2>3. UNCHANGED <<known, job>>
    BY <1>9 DEF Replace, brokerVars
  <2>4. known[supervisor.slot].gen < next
    BY <1>0, <2>1, GenerationTyped DEF Views
  <2>5. QED BY <1>0, <2>1, <2>2, <2>3, <2>4, GenerationTyped DEF Views
<1>10. CASE Signal \/ CrashBroker \/ BrokerExits \/ Ended \/ UNCHANGED vars
  BY <1>1, <1>10 DEF Signal, CrashBroker, BrokerExits, Ended, processVars, vars
<1>11. CASE \/ LoopEnds \/ SendStop \/ TerminateBroker \/ Joined \/ Deadline \/ AllKilled \/ Sweep
  BY <1>1, <1>11 DEF LoopEnds, SendStop, TerminateBroker, Joined, Deadline, AllKilled, Sweep,
                     brokerVars, processVars
<1>12. CASE Kill
  <2>1. UNCHANGED <<told, known, job>>
    BY <1>12 DEF Kill
  <2>2. \A s \in Slots : executor'[s].gen = executor[s].gen
    BY <1>0, <1>12, LeaveChanges DEF Kill, Gone
  <2>3. QED BY <1>a, <2>1, <2>2 DEF Sent
<1>13. QED
  BY <1>2, <1>3, <1>4, <1>5, <1>6, <1>7, <1>8, <1>9, <1>10, <1>11, <1>12
     DEF Next, BrokerNext, ExecutorNext, SupervisorNext

\* What is in a pipe or in an executor was sent by a thread of the broker.
LEMMA SlotsKept ==
  ASSUME ShutdownInv, [Next]_vars, NEW s \in Slots, \A j \in Jobs : Sent(j) => Sent(j)'
  PROVE  SlotAccounted(s)'
<1>0. TypeOK /\ Itinerary /\ SlotAccounted(s)
  BY DEF ShutdownInv, Accounted
<1>j. /\ pipe[s] \in Seq(Jobs \cup {Stop})
      /\ executor[s].job # NoJob => executor[s].job \in Jobs
      /\ Elements(pipe[s]) \subseteq Jobs \cup {Stop}
  BY <1>0 DEF TypeOK, Elements
<1>a. ASSUME executor'[s] = executor[s], Elements(pipe'[s]) \subseteq Elements(pipe[s]) \cup {Stop}
      PROVE  SlotAccounted(s)'
  BY <1>0, <1>j, <1>a DEF SlotAccounted
<1>b. ASSUME executor'[s].job = executor[s].job, pipe' = pipe,
             executor'[s].state \in Busy => executor[s].state \in Busy
      PROVE  SlotAccounted(s)'
  BY <1>0, <1>j, <1>b DEF SlotAccounted
<1>1. ASSUME NEW x \in Slots, CrashExecutor(x) \/ ServeFence(x) \/ SeeSignal(x)
      PROVE  SlotAccounted(s)'
  <2>1. CASE CrashExecutor(x)
    BY <1>0, <1>a, <1>b, <2>1, LeaveChanges DEF CrashExecutor, Gone, Busy
  <2>2. CASE ServeFence(x)
    BY <1>0, <1>a, <1>b, <2>2, LeaveChanges DEF ServeFence, Gone, Busy
  <2>3. CASE SeeSignal(x)
    BY <1>0, <1>a, <1>b, <2>3, LeaveChanges DEF SeeSignal, Gone, Busy
  <2>4. QED BY <1>1, <2>1, <2>2, <2>3
<1>2. ASSUME NEW x \in Slots, ReadPipe(x) PROVE SlotAccounted(s)'
  <2>1. CASE x # s
    <3>1. executor'[s] = executor[s] /\ pipe'[s] = pipe[s]
      BY <1>0, <1>2, <2>1 DEF ReadPipe, Leave, TypeOK
    <3>2. QED BY <1>a, <3>1
  <2>2. CASE x = s
    <3>1. pipe[s] # <<>> /\ pipe'[s] = Tail(pipe[s])
      BY <1>0, <1>2, <2>2 DEF ReadPipe, TypeOK
    <3>2. Elements(pipe'[s]) \subseteq Elements(pipe[s]) /\ Head(pipe[s]) \in Elements(pipe[s])
      BY <1>j, <3>1, HeadTailElements
    <3>3. CASE Head(pipe[s]) = Stop
      <4>1. executor'[s].state = "exited" /\ executor'[s].job = executor[s].job
        BY <1>0, <1>2, <2>2, <3>3, LeaveChanges DEF ReadPipe, Gone
      <4>2. QED BY <1>0, <1>j, <3>2, <4>1 DEF SlotAccounted, Busy
    <3>4. CASE Head(pipe[s]) # Stop
      <4>1. PICK j \in Jobs : j = Head(pipe[s])
        BY <1>j, <3>2, <3>4
      <4>2. executor'[s].job = j
        BY <1>0, <1>2, <2>2, <3>4, <4>1, ReadChanges
      <4>3. Sent(j)'
        BY <1>0, <3>2, <3>4, <4>1 DEF SlotAccounted
      <4>4. QED BY <1>0, <1>j, <3>2, <4>1, <4>2, <4>3 DEF SlotAccounted, Jobs, NoJob
    <3>5. QED BY <3>3, <3>4
  <2>3. QED BY <2>1, <2>2
<1>3. ASSUME NEW x \in Slots, RequestFence(x) PROVE SlotAccounted(s)'
  <2>1. pipe' = pipe
    BY <1>3 DEF RequestFence
  <2>2. executor'[s].job = executor[s].job
    BY <1>0, <1>3, FenceChanges
  <2>3. executor'[s].state \in Busy => executor[s].state \in Busy
    BY <1>0, <1>3, FenceChanges DEF RequestFence, Busy
  <2>4. QED BY <1>b, <2>1, <2>2, <2>3
<1>4. ASSUME NEW x \in Slots, Finish(x) PROVE SlotAccounted(s)'
  <2>1. pipe' = pipe
    BY <1>4 DEF Finish
  <2>2. CASE x # s
    BY <1>0, <1>4, <1>a, <2>1, <2>2, FinishChanges
  <2>3. CASE x = s
    BY <1>0, <1>4, <1>j, <2>1, <2>3, FinishChanges DEF SlotAccounted, Busy
  <2>4. QED BY <2>2, <2>3
<1>5. ASSUME NEW j \in Jobs, NEW x \in Slots, LeaseAndSend(j, x) PROVE SlotAccounted(s)'
  <2>1. UNCHANGED executor
    BY <1>5 DEF LeaseAndSend
  <2>2. CASE pipe'[s] = pipe[s]
    BY <1>a, <2>1, <2>2
  <2>3. CASE pipe'[s] = Append(pipe[s], j)
    <3>1. Elements(pipe'[s]) = Elements(pipe[s]) \cup {j}
      BY <1>j, <2>3, AppendElements
    <3>2. Sent(j)'
      BY <1>0, <1>5 DEF LeaseAndSend, Sent, TypeOK
    <3>3. QED BY <1>0, <1>j, <2>1, <3>1, <3>2 DEF SlotAccounted
  <2>4. QED BY <1>0, <1>5, <2>2, <2>3 DEF LeaseAndSend, TypeOK
<1>6. CASE SendStop
  <2>1. UNCHANGED executor
    BY <1>6 DEF SendStop
  <2>2. pipe'[s] = pipe[s] \/ pipe'[s] = Append(pipe[s], Stop)
    BY <1>0, <1>6 DEF SendStop, TypeOK
  <2>3. Elements(Append(pipe[s], Stop)) = Elements(pipe[s]) \cup {Stop}
    BY <1>j, AppendElements
  <2>4. Elements(pipe'[s]) \subseteq Elements(pipe[s]) \cup {Stop}
    BY <2>2, <2>3
  <2>5. QED BY <1>a, <2>1, <2>4
<1>7. CASE Replace
  <2>1. supervisor.slot \in Slots
    BY <1>0, <1>7 DEF Replace, Itinerary
  <2>2. CASE supervisor.slot # s
    <3>1. executor'[s] = executor[s] /\ pipe'[s] = pipe[s]
      BY <1>0, <1>7, <2>1, <2>2 DEF Replace, TypeOK
    <3>2. QED BY <1>a, <3>1
  <2>3. CASE supervisor.slot = s
    <3>1. pipe'[s] = <<>> /\ executor'[s].state = "idle" /\ executor'[s].job = NoJob
      BY <1>0, <1>7, <2>1, <2>3 DEF Replace, TypeOK, Fresh
    <3>2. QED BY <3>1, EmptyElements DEF SlotAccounted, Busy
  <2>4. QED BY <2>2, <2>3
<1>8. CASE Kill
  <2>1. pipe' = pipe
    BY <1>8 DEF Kill
  <2>2. CASE UNCHANGED executor
    BY <1>a, <2>1, <2>2
  <2>3. CASE \E x \in Slots : Alive(x) /\ Leave(x, "dead") /\ UNCHANGED broker
    BY <1>0, <1>a, <1>b, <2>1, <2>3, LeaveChanges DEF Gone, Busy
  <2>4. QED BY <1>8, <2>2, <2>3 DEF Kill
<1>9. CASE UNCHANGED <<executor, pipe>>
  BY <1>9, <1>a
<1>10. CASE Signal \/ CrashBroker \/ Drain \/ BrokerExits \/ Ended \/ UNCHANGED vars
  BY <1>9, <1>10 DEF Signal, CrashBroker, Drain, BrokerExits, Ended, processVars, vars
<1>11. ASSUME NEW j \in Jobs, Poll(j) \/ LearnExit(j) \/ Receive(j) PROVE SlotAccounted(s)'
  BY <1>9, <1>11 DEF Poll, LearnExit, Receive, processVars
<1>12. CASE \/ LoopEnds \/ TerminateBroker \/ Joined \/ Deadline \/ AllKilled \/ Sweep
            \/ \E x \in Slots : ReportExit(x)
  BY <1>9, <1>12 DEF LoopEnds, TerminateBroker, Joined, Deadline, AllKilled, Sweep, ReportExit,
                     processVars
<1>13. QED
  BY <1>1, <1>2, <1>3, <1>4, <1>5, <1>6, <1>7, <1>8, <1>10, <1>11, <1>12
     DEF Next, BrokerNext, ExecutorNext, SupervisorNext

\* A job that was sent stays sent, a run stays accounted for, and a failure keeps its
\* reason: a replacement has a later generation.
LEMMA AccountedKept ==
  ASSUME ShutdownInv, [Next]_vars
  PROVE  Accounted'
<1>0. TypeOK /\ Itinerary /\ Views /\ Accounted
  BY DEF ShutdownInv
<1> DEFINE Runs == \A j \in ran : Sent(j) /\ (job[j].at = "wait" => j \in completed)
           Reasons == \A j \in Jobs : job[j].at = "FAILED" => Excused(j)
           Stays == \A j \in Jobs : Sent(j) => Sent(j)'
<1>a. ASSUME Runs', Reasons', Stays PROVE Accounted'
  BY <1>a, SlotsKept DEF Accounted
<1>r. Runs /\ Reasons /\ ran \subseteq Jobs
  BY <1>0 DEF Accounted, TypeOK
<1>1. CASE UNCHANGED <<job, told, completed, ran>>
  BY <1>1, <1>a, <1>r DEF Sent, Excused
<1>2. ASSUME NEW j \in Jobs, Poll(j) PROVE Accounted'
  <2>1. job[j].at = "queued" /\ UNCHANGED <<told, completed, ran>>
    BY <1>2 DEF Poll, Jobs, historyVars
  <2>2. /\ job'[j].at = "lease"
        /\ \A i \in Jobs : i # j => job'[i] = job[i]
    BY <1>0, <1>2, ReturnChanges DEF Poll, Return
  <2>3. QED BY <1>a, <1>r, <2>1, <2>2 DEF Sent, Excused
<1>3. ASSUME NEW j \in Jobs, LearnExit(j) PROVE Accounted'
  <2>1. job[j].at = "wait" /\ UNCHANGED <<told, known, completed, ran>>
    BY <1>3 DEF LearnExit, historyVars
  <2>2. /\ job'[j].at = "FAILED"
        /\ \A i \in Jobs : /\ job'[i].slot = job[i].slot /\ job'[i].gen = job[i].gen
                           /\ i # j => job'[i] = job[i]
    BY <1>0, <1>3, ReturnChanges DEF LearnExit
  <2>3. Excused(j)
    <3>1. job[j].slot \in Slots /\ job[j].gen <= known[job[j].slot].gen
      BY <1>0, <2>1 DEF Views
    <3>2. ~known[job[j].slot].up \/ known[job[j].slot].gen # job[j].gen
      BY <1>3 DEF LearnExit
    <3>3. QED BY <1>0, <3>1, <3>2, GenerationTyped DEF Views, Excused
  <2>4. QED BY <1>a, <1>r, <2>1, <2>2, <2>3 DEF Sent, Excused
<1>4. ASSUME NEW j \in Jobs, Receive(j) PROVE Accounted'
  <2>1. job[j].at = "wait" /\ UNCHANGED <<told, ran>> /\ completed' = completed \ {j}
    BY <1>4 DEF Receive, historyVars
  <2>2. /\ job'[j].at = "COMPLETED"
        /\ \A i \in Jobs : /\ job'[i].slot = job[i].slot /\ job'[i].gen = job[i].gen
                           /\ i # j => job'[i] = job[i]
    BY <1>0, <1>4, ReturnChanges DEF Receive
  <2>3. QED BY <1>a, <1>r, <2>1, <2>2 DEF Sent, Excused
<1>5. ASSUME NEW j \in Jobs, NEW s \in Slots, LeaseAndSend(j, s) PROVE Accounted'
  <2>1. job[j].at = "lease" /\ UNCHANGED <<told, completed, ran>>
    BY <1>5 DEF LeaseAndSend, historyVars
  <2>2. job'[j].at = "wait" /\ \A i \in Jobs : i # j => job'[i] = job[i]
    BY <1>0, <1>5 DEF LeaseAndSend, TypeOK
  <2>3. QED BY <1>a, <1>r, <2>1, <2>2 DEF Sent, Excused
<1>6. ASSUME NEW s \in Slots, Finish(s) PROVE Accounted'
  <2>1. /\ UNCHANGED <<told, job>> /\ ran' = ran \cup {executor[s].job}
        /\ completed' = completed \cup {executor[s].job}
    BY <1>6 DEF Finish, brokerVars
  <2>2. Sent(executor[s].job)
    BY <1>0, <1>6 DEF Finish, Accounted, SlotAccounted, Busy
  <2>3. QED BY <1>a, <1>r, <2>1, <2>2 DEF Sent, Excused
<1>7. ASSUME NEW s \in Slots, ReportExit(s) PROVE Accounted'
  <2>1. UNCHANGED <<job, completed, ran>>
    BY <1>7 DEF ReportExit, brokerVars, historyVars
  <2>2. \A j \in Jobs : job[j].at = "FAILED" => job[j].slot \in Slots
    BY <1>0 DEF Views
  <2>3. QED BY <1>0, <1>7, <1>a, <1>r, <2>1, <2>2, ReportChanges DEF Sent, Excused
<1>8. CASE Replace
  <2> DEFINE next == executor[supervisor.slot].gen + 1
  <2>1. UNCHANGED <<job, completed, ran>> /\ supervisor.slot \in Slots
    BY <1>0, <1>8 DEF Replace, brokerVars, historyVars, Itinerary
  <2>2. /\ told'[supervisor.slot].gen = next
        /\ \A x \in Slots : x # supervisor.slot => told'[x] = told[x]
    BY <1>0, <1>8, <2>1 DEF Replace, TypeOK
  <2>3. ASSUME NEW j \in Jobs, job[j].at = "FAILED" PROVE Excused(j)'
    <3>1. job[j].slot \in Slots /\ job[j].gen <= known[job[j].slot].gen
      BY <1>0, <2>3 DEF Views
    <3>2. CASE job[j].slot = supervisor.slot
      <4>1. job[j].gen < next
        BY <1>0, <3>1, <3>2, GenerationTyped DEF Views
      <4>2. told'[job'[j].slot].gen # job'[j].gen
        BY <1>0, <2>1, <2>2, <3>2, <4>1, GenerationTyped
      <4>3. QED BY <4>2 DEF Excused
    <3>3. CASE job[j].slot # supervisor.slot
      BY <1>r, <2>1, <2>2, <2>3, <3>1, <3>3 DEF Excused
    <3>4. QED BY <3>2, <3>3
  <2>4. QED BY <1>a, <1>r, <2>1, <2>3 DEF Sent
<1>9. CASE Signal \/ CrashBroker \/ Drain \/ BrokerExits \/ Kill \/ Ended \/ UNCHANGED vars
  BY <1>1, <1>9 DEF Signal, CrashBroker, Drain, BrokerExits, Kill, Ended, historyVars, vars
<1>10. ASSUME NEW s \in Slots,
              CrashExecutor(s) \/ ServeFence(s) \/ SeeSignal(s) \/ ReadPipe(s) \/ RequestFence(s)
       PROVE  Accounted'
  BY <1>1, <1>10 DEF CrashExecutor, ServeFence, SeeSignal, ReadPipe, RequestFence, brokerVars,
                     historyVars
<1>11. CASE LoopEnds \/ SendStop \/ TerminateBroker \/ Joined \/ Deadline \/ AllKilled \/ Sweep
  BY <1>1, <1>11 DEF LoopEnds, SendStop, TerminateBroker, Joined, Deadline, AllKilled, Sweep,
                     brokerVars, historyVars
<1>12. QED
  BY <1>2, <1>3, <1>4, <1>5, <1>6, <1>7, <1>8, <1>9, <1>10, <1>11
     DEF Next, BrokerNext, ExecutorNext, SupervisorNext

\* A broker ends when its threads have nothing in hand, by a signal that finds it
\* without its handler before it polls, by a crash, or at the deadline.
LEMMA BrokerEndKept ==
  ASSUME ShutdownInv, [Next]_vars
  PROVE  BrokerEnd'
<1>0. TypeOK /\ BrokerEnd /\ Itinerary
  BY DEF ShutdownInv
<1>k. /\ crashes \in Nat /\ crashes' \in Nat
  BY <1>0, TypeKept DEF TypeOK
<1>1. CASE UNCHANGED <<broker, job, crashes, killed>>
  BY <1>0, <1>1 DEF BrokerEnd, InHand
<1>2. CASE Signal \/ TerminateBroker
  BY <1>0, <1>2 DEF Signal, TerminateBroker, BrokerStarting, BrokerEnd, InHand, historyVars
<1>3. CASE CrashBroker \/ \E s \in Slots : CrashExecutor(s)
  BY <1>0, <1>3, <1>k DEF CrashBroker, CrashExecutor, BrokerEnd, InHand, brokerVars
<1>4. ASSUME NEW j \in Jobs,
             Poll(j) \/ LearnExit(j) \/ Receive(j) \/ \E s \in Slots : LeaseAndSend(j, s)
      PROVE  BrokerEnd'
  <2>1. broker' = broker /\ broker \notin Gone
    BY <1>4 DEF Poll, LearnExit, Receive, LeaseAndSend, BrokerAlive, Gone
  <2>2. QED BY <2>1 DEF BrokerEnd, Gone
<1>5. CASE BrokerExits
  BY <1>5 DEF BrokerExits, BrokerEnd, InHand
<1>6. CASE Deadline \/ Kill
  BY <1>0, <1>6 DEF Deadline, Kill, BrokerEnd, InHand, Itinerary, brokerVars, historyVars
<1>7. CASE Drain \/ Ended \/ UNCHANGED vars \/ \E s \in Slots : ServeFence(s)
  BY <1>1, <1>7 DEF Drain, Ended, ServeFence, brokerVars, historyVars, vars
<1>8. CASE \E s \in Slots : ExecutorNext(s)
  BY <1>1, <1>8 DEF ExecutorNext, SeeSignal, ReadPipe, RequestFence, Finish, brokerVars, historyVars
<1>9. CASE \/ Replace \/ LoopEnds \/ SendStop \/ Joined \/ AllKilled \/ Sweep
           \/ \E s \in Slots : ReportExit(s)
  BY <1>1, <1>9 DEF Replace, LoopEnds, SendStop, Joined, AllKilled, Sweep, ReportExit, brokerVars,
                    historyVars
<1>10. QED
  BY <1>2, <1>3, <1>4, <1>5, <1>6, <1>7, <1>8, <1>9 DEF Next, BrokerNext, SupervisorNext

-----------------------------------------------------------------------------
\* The theorems

\* The strengthening from which the properties below follow.
THEOREM ShutdownInvHolds == Spec => []ShutdownInv
<1>1. Init => ShutdownInv
  BY InitEstablishes
<1>2. ShutdownInv /\ [Next]_vars => ShutdownInv'
  BY TypeKept, ItineraryKept, ViewsKept, AccountedKept, BrokerEndKept, SweepKept DEF ShutdownInv
<1>3. QED BY <1>1, <1>2, PTL DEF Spec

\* Every variable keeps its type: among others the supervisor never sends to a slot
\* that does not exist, and a finished run names its job.
THEOREM TypeCorrect == Spec => []TypeOK
<1>1. ShutdownInv => TypeOK
  BY DEF ShutdownInv
<1>2. QED BY <1>1, ShutdownInvHolds, PTL

\* No child of the supervisor is left when the final workspace sweep runs with ttl 0,
\* after a drain as after the deadline.
THEOREM SweepIsAlone == Spec => []SweepFindsNobody
<1>1. ShutdownInv => SweepFindsNobody
  BY DEF ShutdownInv
<1>2. QED BY <1>1, ShutdownInvHolds, PTL

\* A drain without a crash and without the deadline reports every run as COMPLETED,
\* but for executors whose exit the supervisor's loop still reported.
THEOREM DrainLosesNoWork == Spec => []NoWorkLost
<1>1. ShutdownInv => NoWorkLost
  <2> SUFFICES ASSUME ShutdownInv, supervisor.at = "stopped", crashes = 0, ~killed, NEW j \in ran
               PROVE  job[j].at = "COMPLETED" \/ Excused(j)
    BY DEF NoWorkLost, Excused
  <2>1. Sent(j) /\ j \in Jobs
    BY DEF ShutdownInv, Accounted, TypeOK
  <2>2. broker \in Gone
    BY DEF ShutdownInv, SweepFindsNobody, BrokerAlive
  <2>3. job[j].at # "wait"
    BY <2>1, <2>2 DEF ShutdownInv, BrokerEnd, InHand, Gone, Sent
  <2>4. QED BY <2>1, <2>3 DEF ShutdownInv, Accounted, Sent
<1>2. QED BY <1>1, ShutdownInvHolds, PTL
-----------------------------------------------------------------------------
\* The refinement: what a live process has was sent to it, and once

SentTo(j, s) == job[j].slot = s /\ job[j].gen = executor[s].gen
Once(q) == \A i, k \in 1..Len(q) : q[i] = q[k] /\ q[i] # Stop => i = k

SlotHanded(s) ==
  /\ Once(pipe[s])
  /\ executor[s].state = "idle" => executor[s].job = NoJob
  /\ Alive(s) => /\ told[s].up
                 /\ \A j \in Elements(pipe[s]) : j # Stop => SentTo(j, s)
                 /\ executor[s].job # NoJob => SentTo(executor[s].job, s)
Handed ==
  /\ completed \subseteq ran
  /\ \A s \in Slots : SlotHanded(s)

\* A job that is not in a pipe may be put into it.
LEMMA OnceAppended ==
  ASSUME NEW S, NEW q \in Seq(S), NEW x \in S, Once(q), x = Stop \/ x \notin Elements(q)
  PROVE  Once(Append(q, x))
<1>1. Len(q) \in Nat /\ Len(Append(q, x)) = Len(q) + 1
  OBVIOUS
<1>2. /\ Append(q, x)[Len(q) + 1] = x
      /\ \A i \in 1..Len(q) : Append(q, x)[i] = q[i]
  BY <1>1
<1>3. 1..(Len(q) + 1) = 1..Len(q) \cup {Len(q) + 1}
  BY <1>1
<1>4. QED BY <1>1, <1>2, <1>3 DEF Once, Elements

\* A job that is read is not in the pipe any more.
LEMMA OnceRead ==
  ASSUME NEW S, NEW q \in Seq(S), q # <<>>, Once(q)
  PROVE  /\ Once(Tail(q))
         /\ Elements(q) = {Head(q)} \cup Elements(Tail(q))
         /\ Head(q) # Stop => Head(q) \notin Elements(Tail(q))
<1>1. Len(q) \in Nat /\ Len(q) >= 1 /\ Head(q) = q[1]
  OBVIOUS
<1>2. /\ Tail(q) \in Seq(S) /\ Len(Tail(q)) = Len(q) - 1
      /\ \A i \in 1..Len(Tail(q)) : Tail(q)[i] = q[i + 1]
  BY HeadTailProperties
<1>3. Once(Tail(q)) /\ (Head(q) # Stop => Head(q) \notin Elements(Tail(q)))
  BY <1>1, <1>2 DEF Once, Elements
<1>4. ASSUME NEW i \in 1..Len(q), i # 1 PROVE q[i] \in Elements(Tail(q))
  <2>1. i - 1 \in 1..Len(Tail(q)) /\ Tail(q)[i - 1] = q[i]
    BY <1>1, <1>2, <1>4
  <2>2. QED BY <2>1 DEF Elements
<1>5. Elements(q) \subseteq {Head(q)} \cup Elements(Tail(q))
  BY <1>1, <1>4 DEF Elements
<1>6. Elements(Tail(q)) \subseteq Elements(q) /\ Head(q) \in Elements(q)
  BY HeadTailElements
<1>7. QED BY <1>3, <1>5, <1>6

\* Where a job was sent is never changed.
LEMMA SentStays ==
  ASSUME ShutdownInv, [Next]_vars, NEW j \in Jobs, Sent(j)
  PROVE  job'[j].slot = job[j].slot /\ job'[j].gen = job[j].gen
<1>0. TypeOK /\ job[j].at \notin {"queued", "lease"}
  BY DEF ShutdownInv, Sent
<1>1. CASE UNCHANGED job
  BY <1>1
<1>2. ASSUME NEW i \in Jobs, Poll(i) PROVE job'[j] = job[j]
  BY <1>0, <1>2, ReturnChanges DEF Poll, Return, Jobs
<1>3. ASSUME NEW i \in Jobs, LearnExit(i) \/ Receive(i)
      PROVE  job'[j].slot = job[j].slot /\ job'[j].gen = job[j].gen
  BY <1>0, <1>3, ReturnChanges DEF LearnExit, Receive
<1>4. ASSUME NEW i \in Jobs, NEW s \in Slots, LeaseAndSend(i, s) PROVE job'[j] = job[j]
  BY <1>0, <1>4 DEF LeaseAndSend, TypeOK
<1>5. CASE Signal \/ CrashBroker \/ Drain \/ BrokerExits \/ Ended \/ UNCHANGED vars
  BY <1>1, <1>5 DEF Signal, CrashBroker, Drain, BrokerExits, Ended, vars
<1>6. ASSUME NEW s \in Slots,
             \/ CrashExecutor(s) \/ ServeFence(s) \/ SeeSignal(s) \/ ReadPipe(s)
             \/ RequestFence(s) \/ Finish(s) \/ ReportExit(s)
      PROVE  UNCHANGED job
  BY <1>6 DEF CrashExecutor, ServeFence, SeeSignal, ReadPipe, RequestFence, Finish, ReportExit,
              brokerVars
<1>7. CASE \/ Replace \/ LoopEnds \/ SendStop \/ TerminateBroker \/ Joined \/ Deadline \/ Kill
           \/ AllKilled \/ Sweep
  BY <1>1, <1>7 DEF Replace, LoopEnds, SendStop, TerminateBroker, Joined, Deadline, Kill, AllKilled,
                    Sweep, brokerVars
<1>8. QED
  BY <1>1, <1>2, <1>3, <1>4, <1>5, <1>6, <1>7 DEF Next, BrokerNext, ExecutorNext, SupervisorNext

\* What a slot's process has is still what was sent to that process.
LEMMA SlotHandedKept ==
  ASSUME ShutdownInv, Handed, [Next]_vars, NEW s \in Slots
  PROVE  SlotHanded(s)'
<1>0. TypeOK /\ Itinerary /\ Views /\ SlotAccounted(s) /\ SlotHanded(s)
  BY DEF ShutdownInv, Accounted, Handed
<1>j. /\ pipe[s] \in Seq(Jobs \cup {Stop})
      /\ executor[s].job # NoJob => executor[s].job \in Jobs
      /\ Elements(pipe[s]) \subseteq Jobs \cup {Stop}
  BY <1>0 DEF TypeOK, Elements
<1>s. \A j \in Jobs : Sent(j) => job'[j].slot = job[j].slot /\ job'[j].gen = job[j].gen
  BY SentStays
<1>k. /\ \A j \in Elements(pipe[s]) : j # Stop /\ SentTo(j, s) /\ executor'[s].gen = executor[s].gen
                                        => SentTo(j, s)'
      /\ executor[s].job # NoJob /\ SentTo(executor[s].job, s) /\ executor'[s].gen = executor[s].gen
           => job'[executor[s].job].slot = s /\ job'[executor[s].job].gen = executor'[s].gen
  BY <1>0, <1>j, <1>s DEF SlotAccounted, SentTo
<1>a. ASSUME executor'[s].job = executor[s].job, executor'[s].gen = executor[s].gen,
             executor'[s].state = "idle" => executor[s].state = "idle", Alive(s)' => Alive(s),
             pipe'[s] = pipe[s], Alive(s) => told'[s] = told[s]
      PROVE  SlotHanded(s)'
  BY <1>0, <1>k, <1>a DEF SlotHanded, SentTo
<1>b. ASSUME executor'[s] = executor[s], pipe'[s] = pipe[s], Alive(s) => told'[s] = told[s]
      PROVE  SlotHanded(s)'
  BY <1>a, <1>b DEF Alive
<1>1. ASSUME NEW x \in Slots, CrashExecutor(x) \/ ServeFence(x) \/ SeeSignal(x)
      PROVE  SlotHanded(s)'
  <2>1. CASE CrashExecutor(x)
    BY <1>0, <1>a, <2>1, LeaveChanges DEF CrashExecutor, Alive, Gone, Busy
  <2>2. CASE ServeFence(x)
    BY <1>0, <1>a, <2>2, LeaveChanges DEF ServeFence, Alive, Gone, Busy
  <2>3. CASE SeeSignal(x)
    BY <1>0, <1>a, <2>3, LeaveChanges DEF SeeSignal, Alive, Gone, Busy
  <2>4. QED BY <1>1, <2>1, <2>2, <2>3
<1>2. ASSUME NEW x \in Slots, ReadPipe(x) PROVE SlotHanded(s)'
  <2>0. told' = told
    BY <1>2 DEF ReadPipe
  <2>1. CASE x # s
    <3>1. executor'[s] = executor[s] /\ pipe'[s] = pipe[s]
      BY <1>0, <1>2, <2>1 DEF ReadPipe, Leave, TypeOK
    <3>2. QED BY <1>b, <2>0, <3>1
  <2>2. CASE x = s
    <3>1. pipe[s] # <<>> /\ pipe'[s] = Tail(pipe[s]) /\ executor[s].state = "idle"
      BY <1>0, <1>2, <2>2 DEF ReadPipe, TypeOK
    <3>2. /\ Once(pipe'[s])
          /\ Elements(pipe[s]) = {Head(pipe[s])} \cup Elements(pipe'[s])
      BY <1>0, <1>j, <3>1, OnceRead DEF SlotHanded
    <3>3. CASE Head(pipe[s]) = Stop
      <4>1. executor'[s].state = "exited"
        BY <1>0, <1>2, <2>2, <3>3, LeaveChanges DEF ReadPipe, Gone
      <4>2. QED BY <3>2, <4>1 DEF SlotHanded, Alive, Gone
    <3>4. CASE Head(pipe[s]) # Stop
      <4>1. /\ executor'[s].job = Head(pipe[s]) /\ executor'[s].gen = executor[s].gen
            /\ executor'[s].state = "running"
        BY <1>0, <1>2, <2>2, <3>4, ReadChanges
      <4>2. Alive(s)
        BY <3>1 DEF Alive, Gone
      <4>3. \A j \in Elements(pipe[s]) : j # Stop => SentTo(j, s)'
        BY <1>0, <1>k, <4>1, <4>2 DEF SlotHanded
      <4>4. told'[s].up
        BY <1>0, <2>0, <4>2 DEF SlotHanded
      <4>5. QED BY <3>2, <3>4, <4>1, <4>3, <4>4 DEF SlotHanded, SentTo
    <3>5. QED BY <3>3, <3>4
  <2>3. QED BY <2>1, <2>2
<1>3. ASSUME NEW x \in Slots, RequestFence(x) PROVE SlotHanded(s)'
  <2>1. pipe' = pipe /\ told' = told
    BY <1>3 DEF RequestFence
  <2>2. CASE x # s
    BY <1>0, <1>3, <1>b, <2>1, <2>2, FenceChanges
  <2>3. CASE x = s
    <3>1. executor'[s].job = executor[s].job /\ executor'[s].gen = executor[s].gen
      BY <1>0, <1>3, <2>3, FenceChanges
    <3>2. executor'[s].state = "fence" /\ executor[s].state = "running"
      BY <1>0, <1>3, <2>3 DEF RequestFence, TypeOK
    <3>3. QED BY <1>a, <2>1, <3>1, <3>2 DEF Alive, Gone
  <2>4. QED BY <2>2, <2>3
<1>4. ASSUME NEW x \in Slots, Finish(x) PROVE SlotHanded(s)'
  <2>1. pipe' = pipe /\ told' = told
    BY <1>4 DEF Finish
  <2>2. CASE x # s
    BY <1>0, <1>4, <1>b, <2>1, <2>2, FinishChanges
  <2>3. CASE x = s
    <3>1. Alive(s)
      BY <1>4, <2>3 DEF Finish, Alive, Gone
    <3>2. executor'[s].job = NoJob /\ executor'[s].gen = executor[s].gen
      BY <1>0, <1>4, <2>3, FinishChanges
    <3>3. QED BY <1>0, <1>k, <2>1, <3>1, <3>2 DEF SlotHanded
  <2>4. QED BY <2>2, <2>3
<1>5. ASSUME NEW i \in Jobs, NEW x \in Slots, LeaseAndSend(i, x) PROVE SlotHanded(s)'
  <2>1. UNCHANGED <<executor, told>>
    BY <1>5 DEF LeaseAndSend
  <2>2. CASE pipe'[s] = pipe[s]
    BY <1>b, <2>1, <2>2
  <2>3. CASE pipe'[s] # pipe[s]
    <3>1. x = s /\ executor[s].gen = known[s].gen /\ pipe'[s] = Append(pipe[s], i)
      BY <1>0, <1>5, <2>3 DEF LeaseAndSend, TypeOK
    <3>2. job[i].at = "lease"
      BY <1>5 DEF LeaseAndSend
    <3>3. i \notin Elements(pipe[s])
      BY <1>0, <3>2 DEF SlotAccounted, Sent, Jobs, Stop
    <3>4. Once(pipe'[s]) /\ Elements(pipe'[s]) = Elements(pipe[s]) \cup {i}
      BY <1>0, <1>j, <3>1, <3>3, OnceAppended, AppendElements DEF SlotHanded
    <3>5. SentTo(i, s)'
      BY <1>0, <1>5, <2>1, <3>1 DEF LeaseAndSend, SentTo, TypeOK
    <3>6. Alive(s)' => Alive(s)
      BY <2>1 DEF Alive
    <3>7. QED BY <1>0, <1>k, <2>1, <3>4, <3>5, <3>6 DEF SlotHanded, SentTo
  <2>4. QED BY <2>2, <2>3
<1>6. CASE SendStop
  <2>1. UNCHANGED <<executor, told>>
    BY <1>6 DEF SendStop
  <2>2. pipe'[s] = pipe[s] \/ pipe'[s] = Append(pipe[s], Stop)
    BY <1>0, <1>6 DEF SendStop, TypeOK
  <2>3. CASE pipe'[s] = pipe[s]
    BY <1>b, <2>1, <2>3
  <2>4. CASE pipe'[s] = Append(pipe[s], Stop)
    <3>1. Once(pipe'[s]) /\ Elements(pipe'[s]) = Elements(pipe[s]) \cup {Stop}
      BY <1>0, <1>j, <2>4, OnceAppended, AppendElements DEF SlotHanded
    <3>2. Alive(s)' => Alive(s)
      BY <2>1 DEF Alive
    <3>3. QED BY <1>0, <1>k, <2>1, <3>1, <3>2 DEF SlotHanded, SentTo
  <2>5. QED BY <2>2, <2>3, <2>4
<1>7. CASE Replace
  <2>1. supervisor.slot \in Slots
    BY <1>0, <1>7 DEF Replace, Itinerary
  <2>2. CASE supervisor.slot # s
    <3>1. executor'[s] = executor[s] /\ pipe'[s] = pipe[s] /\ told'[s] = told[s]
      BY <1>0, <1>7, <2>1, <2>2 DEF Replace, TypeOK
    <3>2. QED BY <1>b, <3>1
  <2>3. CASE supervisor.slot = s
    <3>1. pipe'[s] = <<>> /\ executor'[s].job = NoJob /\ told'[s].up
      BY <1>0, <1>7, <2>1, <2>3 DEF Replace, TypeOK, Fresh
    <3>2. Once(<<>>)
      BY DEF Once
    <3>3. QED BY <3>1, <3>2, EmptyElements DEF SlotHanded
  <2>4. QED BY <2>2, <2>3
<1>8. CASE Kill
  <2>1. UNCHANGED <<pipe, told>>
    BY <1>8 DEF Kill
  <2>2. CASE UNCHANGED executor
    BY <1>b, <2>1, <2>2
  <2>3. CASE \E x \in Slots : Alive(x) /\ Leave(x, "dead") /\ UNCHANGED broker
    BY <1>0, <1>a, <2>1, <2>3, LeaveChanges DEF Alive, Gone, Busy
  <2>4. QED BY <1>8, <2>2, <2>3 DEF Kill
<1>9. ASSUME NEW x \in Slots, ReportExit(x) PROVE SlotHanded(s)'
  <2>1. UNCHANGED <<executor, pipe>> /\ ~Alive(x)
    BY <1>9 DEF ReportExit, processVars
  <2>2. s # x => told'[s] = told[s]
    BY <1>0, <1>9, ReportChanges
  <2>3. QED BY <1>b, <2>1, <2>2
<1>10. CASE UNCHANGED <<executor, pipe, told>>
  BY <1>10, <1>b
<1>11. CASE Signal \/ CrashBroker \/ Drain \/ BrokerExits \/ Ended \/ UNCHANGED vars
  BY <1>10, <1>11 DEF Signal, CrashBroker, Drain, BrokerExits, Ended, processVars, vars
<1>12. ASSUME NEW i \in Jobs, Poll(i) \/ LearnExit(i) \/ Receive(i) PROVE SlotHanded(s)'
  BY <1>10, <1>12 DEF Poll, LearnExit, Receive, processVars
<1>13. CASE \/ LoopEnds \/ TerminateBroker \/ Joined \/ Deadline \/ AllKilled \/ Sweep
  BY <1>10, <1>13 DEF LoopEnds, TerminateBroker, Joined, Deadline, AllKilled, Sweep, processVars
<1>14. QED
  BY <1>1, <1>2, <1>3, <1>4, <1>5, <1>6, <1>7, <1>8, <1>9, <1>11, <1>12, <1>13
     DEF Next, BrokerNext, ExecutorNext, SupervisorNext

\* A completion is under way only of a run.
LEMMA CompletedRan ==
  ASSUME [Next]_vars, completed \subseteq ran
  PROVE  completed' \subseteq ran'
<1>1. CASE UNCHANGED <<completed, ran>>
  BY <1>1
<1>2. ASSUME NEW j \in Jobs, Receive(j) PROVE completed' \subseteq ran'
  BY <1>2 DEF Receive, historyVars
<1>3. ASSUME NEW s \in Slots, Finish(s) PROVE completed' \subseteq ran'
  BY <1>3 DEF Finish
<1>4. CASE Signal \/ CrashBroker \/ \E s \in Slots : CrashExecutor(s)
  BY <1>1, <1>4 DEF Signal, CrashBroker, CrashExecutor, historyVars
<1>5. ASSUME NEW j \in Jobs, Poll(j) \/ LearnExit(j) \/ \E s \in Slots : LeaseAndSend(j, s)
      PROVE  UNCHANGED <<completed, ran>>
  BY <1>5 DEF Poll, LearnExit, LeaseAndSend, historyVars
<1>6. ASSUME NEW s \in Slots, ServeFence(s) \/ SeeSignal(s) \/ ReadPipe(s) \/ RequestFence(s)
      PROVE  UNCHANGED <<completed, ran>>
  BY <1>6 DEF ServeFence, SeeSignal, ReadPipe, RequestFence, historyVars
<1>7. CASE Drain \/ BrokerExits \/ Ended \/ UNCHANGED vars
  BY <1>1, <1>7 DEF Drain, BrokerExits, Ended, historyVars, vars
<1>8. CASE SupervisorNext
  BY <1>1, <1>8 DEF SupervisorNext, ReportExit, Replace, LoopEnds, SendStop, TerminateBroker, Joined,
                    Deadline, Kill, AllKilled, Sweep, historyVars
<1>9. QED
  BY <1>1, <1>2, <1>3, <1>4, <1>5, <1>6, <1>7, <1>8 DEF Next, BrokerNext, ExecutorNext

\* The abstract steps, seen slot by slot and job by job.
SameJobs ==
  /\ Polled' = Polled
  /\ \A j \in Jobs : Result(j)' = Result(j) /\ Heard(j)' = Heard(j)
SameSlot(s) == Inbox(s)' = Inbox(s) /\ Running(s)' = Running(s)

LEMMA Stutters ==
  ASSUME SameJobs, Unassigned' = Unassigned, \A s \in Slots : SameSlot(s)
  PROVE  UNCHANGED Delivery!vars
BY DEF SameJobs, SameSlot, Delivery!vars

LEMMA Leaves ==
  ASSUME NEW s \in Slots, SameJobs, Unassigned' = Unassigned, Inbox(s)' = {}, Running(s)' = NoJob,
         \A r \in Slots : r # s => SameSlot(r)
  PROVE  Delivery!Next
<1>1. Delivery!Leave(s)
  BY DEF SameJobs, SameSlot, Delivery!Leave
<1>2. QED BY <1>1 DEF Delivery!Next

LEMMA Assigns ==
  ASSUME NEW s \in Slots, NEW j \in Unassigned, SameJobs, Unassigned' = Unassigned \ {j},
         Inbox(s)' = Inbox(s) \cup {j}, Running(s)' = Running(s),
         \A r \in Slots : r # s => SameSlot(r)
  PROVE  Delivery!Next
<1>1. Delivery!Assign(j, s)
  BY DEF SameJobs, SameSlot, Delivery!Assign
<1>2. QED BY <1>1 DEF Delivery!Next

LEMMA Begins ==
  ASSUME NEW s \in Slots, NEW j \in Inbox(s), SameJobs, Unassigned' = Unassigned,
         Inbox(s)' = Inbox(s) \ {j}, Running(s) = NoJob, Running(s)' = j,
         \A r \in Slots : r # s => SameSlot(r)
  PROVE  Delivery!Next
<1>1. Delivery!Begin(j, s)
  BY DEF SameJobs, SameSlot, Delivery!Begin
<1>2. QED BY <1>1 DEF Delivery!Next

\* Everything but what is said of one job stays.
SameSlots == Unassigned' = Unassigned /\ \A s \in Slots : SameSlot(s)

LEMMA Ends ==
  ASSUME NEW s \in Slots, NEW j \in Jobs, Running(s) = j, j # NoJob, Polled' = Polled,
         Unassigned' = Unassigned, Inbox(s)' = Inbox(s), Running(s)' = NoJob,
         \A r \in Slots : r # s => SameSlot(r),
         Result(j)' = "COMPLETED",
         \A i \in Jobs : /\ Heard(i)' = Heard(i)
                         /\ i # j => Result(i)' = Result(i)
  PROVE  Delivery!Next
<1>1. Delivery!Finish(s, "COMPLETED")
  BY DEF SameSlot, Delivery!Finish
<1>2. QED BY <1>1 DEF Delivery!Next

LEMMA Reports ==
  ASSUME NEW j \in Polled, SameSlots, Polled' = Polled, Heard(j) = "none",
         Result(j) # "none", Heard(j)' = Result(j),
         \A i \in Jobs : /\ Result(i)' = Result(i)
                         /\ i # j => Heard(i)' = Heard(i)
  PROVE  Delivery!Next
<1>1. Delivery!Report(j)
  BY DEF SameSlots, SameSlot, Polled, Delivery!Report
<1>2. QED BY <1>1 DEF Delivery!Next

LEMMA GivesUp ==
  ASSUME NEW j \in Polled, SameSlots, j \notin Unassigned, Polled' = Polled,
         \A s \in Slots : j \notin Inbox(s) /\ Running(s) # j,
         Heard(j) = "none", Heard(j)' = "FAILED",
         \A i \in Jobs : /\ Result(i)' = Result(i)
                         /\ i # j => Heard(i)' = Heard(i)
  PROVE  Delivery!Next
<1>1. Delivery!Fail(j)
  BY DEF SameSlots, SameSlot, Polled, Delivery!Fail
<1>2. ~Delivery!AtExecutor(j)
  BY DEF Delivery!AtExecutor, Delivery!At
<1>3. QED BY <1>1, <1>2 DEF Delivery!Next, Delivery!GiveUp

LEMMA Polls ==
  ASSUME NEW j \in Jobs \ Polled, Polled' = Polled \cup {j}, Unassigned' = Unassigned \cup {j},
         \A s \in Slots : SameSlot(s),
         \A i \in Jobs : Result(i)' = Result(i) /\ Heard(i)' = Heard(i)
  PROVE  Delivery!Next
<1>1. Delivery!Poll(j)
  BY DEF SameSlot, Delivery!Poll
<1>2. QED BY <1>1 DEF Delivery!Next

LEMMA Loses ==
  ASSUME NEW j \in Unassigned, SameJobs, Unassigned' = Unassigned \ {j},
         \A s \in Slots : SameSlot(s)
  PROVE  Delivery!Next
<1>1. Delivery!Lose(j)
  BY DEF SameJobs, SameSlot, Delivery!Lose
<1>2. QED BY <1>1 DEF Delivery!Next

\* What the mapping reads of a slot, and of the jobs.
LEMMA SlotStays ==
  ASSUME NEW s \in Slots, Alive(s)' <=> Alive(s),
         Alive(s) => /\ executor'[s].job = executor[s].job
                     /\ Elements(pipe'[s]) \ {Stop} = Elements(pipe[s]) \ {Stop}
  PROVE  SameSlot(s)
BY DEF SameSlot, Inbox, Running

LEMMA SlotGone == ASSUME NEW s \in Slots, ~Alive(s)' PROVE Inbox(s)' = {} /\ Running(s)' = NoJob
BY DEF Inbox, Running

LEMMA JobsStay == UNCHANGED <<job, ran>> => SameJobs /\ Unassigned' = Unassigned
BY DEF SameJobs, Unassigned, Polled, Result, Heard

\* One process leaves, and takes with it what it had.
LEMMA ProcessLeaves ==
  ASSUME TypeOK, NEW s \in Slots, NEW state \in Gone, Leave(s, state), UNCHANGED <<job, ran>>,
         \A r \in Slots : r # s => pipe'[r] = pipe[r]
  PROVE  Delivery!Next
<1>1. /\ executor'[s].state = state
      /\ \A r \in Slots : r # s => executor'[r] = executor[r]
  BY LeaveChanges
<1>2. Inbox(s)' = {} /\ Running(s)' = NoJob
  BY <1>1, SlotGone DEF Alive
<1>3. \A r \in Slots : r # s => SameSlot(r)
  BY <1>1, SlotStays DEF Alive
<1>4. QED BY <1>2, <1>3, Leaves, JobsStay

\* A thread gives up a job only when the process it was sent to is gone: what the
\* broker knows of a process that lives is that it is up.
LEMMA GivenUpIsGone ==
  ASSUME ShutdownInv, Handed, NEW j \in Jobs, LearnExit(j), NEW s \in Slots
  PROVE  j \notin Inbox(s) /\ Running(s) # j
<1>1. TypeOK /\ Views /\ SlotHanded(s) /\ j # NoJob /\ j # Stop
  BY DEF ShutdownInv, Handed, Jobs, NoJob, Stop
<1>2. SUFFICES ASSUME Alive(s), SentTo(j, s) PROVE FALSE
  BY <1>1 DEF SlotHanded, Inbox, Running
<1>3. /\ job[j].at = "wait"
      /\ ~known[job[j].slot].up \/ known[job[j].slot].gen # job[j].gen
  BY DEF LearnExit
<1>4. job[j].slot = s /\ job[j].gen = executor[s].gen /\ told[s].up
  BY <1>1, <1>2 DEF SlotHanded, SentTo
<1>5. job[j].gen <= known[s].gen /\ known[s].gen <= told[s].gen /\ told[s].gen = executor[s].gen
  BY <1>1, <1>3, <1>4 DEF Views
<1>6. known[s].gen = told[s].gen /\ known[s].gen = job[j].gen
  BY <1>1, <1>4, <1>5, GenerationTyped
<1>7. known[s].up
  BY <1>1, <1>4, <1>6 DEF Views
<1>8. QED BY <1>3, <1>4, <1>6, <1>7

LEMMA DeliveryStep ==
  ASSUME ShutdownInv, Handed, [Next]_vars
  PROVE  [Delivery!Next]_Delivery!vars
<1>0. TypeOK /\ Itinerary /\ \A s \in Slots : SlotHanded(s) /\ SlotAccounted(s)
  BY DEF ShutdownInv, Accounted, Handed
<1>p. \A s \in Slots : /\ pipe[s] \in Seq(Jobs \cup {Stop})
                       /\ Elements(pipe[s]) \subseteq Jobs \cup {Stop}
  BY <1>0 DEF TypeOK, Elements
<1>a. ASSUME \A s \in Slots : SameSlot(s), UNCHANGED <<job, ran>> PROVE UNCHANGED Delivery!vars
  BY <1>a, JobsStay, Stutters
<1>b. ASSUME UNCHANGED <<executor, pipe, job, ran>> PROVE UNCHANGED Delivery!vars
  BY <1>a, <1>b, SlotStays DEF Alive
<1>1. ASSUME NEW s \in Slots, CrashExecutor(s) \/ SeeSignal(s) PROVE Delivery!Next
  BY <1>0, <1>1, ProcessLeaves DEF CrashExecutor, SeeSignal, Gone, brokerVars, historyVars
<1>2. ASSUME NEW s \in Slots, ServeFence(s) PROVE UNCHANGED Delivery!vars
  <2>1. \A r \in Slots : executor'[r].job = executor[r].job /\ (Alive(r)' <=> Alive(r))
    BY <1>0, <1>2, LeaveChanges DEF ServeFence, Alive, Gone, Busy
  <2>2. UNCHANGED <<pipe, job, ran>>
    BY <1>2 DEF ServeFence, brokerVars, historyVars
  <2>3. QED BY <1>a, <2>1, <2>2, SlotStays
<1>3. ASSUME NEW s \in Slots, RequestFence(s) PROVE UNCHANGED Delivery!vars
  <2>1. executor[s].state = "running" /\ executor'[s].state = "fence"
    BY <1>0, <1>3 DEF RequestFence, TypeOK
  <2>2. \A r \in Slots : executor'[r].job = executor[r].job /\ (Alive(r)' <=> Alive(r))
    BY <1>0, <1>3, <2>1, FenceChanges DEF Alive, Gone
  <2>3. UNCHANGED <<pipe, job, ran>>
    BY <1>3 DEF RequestFence, brokerVars, historyVars
  <2>4. QED BY <1>a, <2>2, <2>3, SlotStays
<1>4. ASSUME NEW s \in Slots, ReadPipe(s) PROVE Delivery!Next
  <2>1. /\ executor[s].state = "idle" /\ pipe[s] # <<>> /\ UNCHANGED <<job, ran>>
        /\ pipe'[s] = Tail(pipe[s]) /\ \A r \in Slots : r # s => pipe'[r] = pipe[r]
    BY <1>0, <1>4 DEF ReadPipe, brokerVars, historyVars, TypeOK
  <2>2. CASE Head(pipe[s]) = Stop
    BY <1>0, <1>4, <2>1, <2>2, ProcessLeaves DEF ReadPipe, Gone
  <2>3. CASE Head(pipe[s]) # Stop
    <3>1. /\ executor'[s].job = Head(pipe[s]) /\ executor'[s].state = "running"
          /\ \A r \in Slots : r # s => executor'[r] = executor[r]
      BY <1>0, <1>4, <2>3, ReadChanges
    <3>2. /\ Elements(pipe[s]) = {Head(pipe[s])} \cup Elements(pipe'[s])
          /\ Head(pipe[s]) \notin Elements(pipe'[s])
      BY <1>0, <1>p, <2>1, <2>3, OnceRead DEF SlotHanded
    <3>3. Alive(s) /\ Alive(s)'
      BY <2>1, <3>1 DEF Alive, Gone
    <3>4. /\ Head(pipe[s]) \in Inbox(s) /\ Inbox(s)' = Inbox(s) \ {Head(pipe[s])}
          /\ Running(s)' = Head(pipe[s])
      BY <2>3, <3>1, <3>2, <3>3 DEF Inbox, Running
    <3>5. Running(s) = NoJob
      BY <1>0, <2>1, <3>3 DEF SlotHanded, Running
    <3>6. \A r \in Slots : r # s => SameSlot(r)
      BY <2>1, <3>1, SlotStays DEF Alive
    <3>7. QED BY <2>1, <3>4, <3>5, <3>6, Begins, JobsStay
  <2>4. QED BY <2>2, <2>3
<1>5. ASSUME NEW s \in Slots, Finish(s) PROVE Delivery!Next
  <2> DEFINE j == executor[s].job
  <2>1. /\ executor[s].state = "running" /\ UNCHANGED <<job, pipe>> /\ ran' = ran \cup {j}
    BY <1>5 DEF Finish, brokerVars
  <2>2. j \in Jobs /\ j # NoJob
    BY <1>0, <2>1 DEF SlotAccounted, Busy, TypeOK
  <2>3. /\ executor'[s].state = "idle" /\ executor'[s].job = NoJob
        /\ \A r \in Slots : r # s => executor'[r] = executor[r]
    BY <1>0, <1>5, FinishChanges
  <2>4. Running(s) = j /\ Running(s)' = NoJob /\ Inbox(s)' = Inbox(s)
    BY <2>1, <2>3 DEF Running, Inbox, Alive, Gone
  <2>5. \A r \in Slots : r # s => SameSlot(r)
    BY <2>1, <2>3, SlotStays DEF Alive
  <2>6. Polled' = Polled /\ Unassigned' = Unassigned /\ \A i \in Jobs : Heard(i)' = Heard(i)
    BY <2>1 DEF Polled, Unassigned, Heard
  <2> HIDE DEF j
  <2>7. \A i \in Jobs : Result(i)' = IF i = j THEN "COMPLETED" ELSE Result(i)
    BY <2>1 DEF Result
  <2>8. QED BY <2>2, <2>4, <2>5, <2>6, <2>7, Ends
<1>6. ASSUME NEW j \in Jobs, Poll(j) PROVE Delivery!Next
  <2>1. job[j].at = "queued" /\ UNCHANGED <<executor, pipe, ran>>
    BY <1>6 DEF Poll, Jobs, processVars, historyVars
  <2>2. job'[j].at = "lease" /\ \A i \in Jobs : i # j => job'[i] = job[i]
    BY <1>0, <1>6, ReturnChanges DEF Poll, Return
  <2>3. /\ j \notin Polled /\ Polled' = Polled \cup {j}
        /\ Unassigned' = Unassigned \cup {j}
    BY <2>1, <2>2 DEF Polled, Unassigned
  <2>4. \A i \in Jobs : Result(i)' = Result(i) /\ Heard(i)' = Heard(i)
    BY <2>1, <2>2 DEF Result, Heard
  <2>5. \A s \in Slots : SameSlot(s)
    BY <2>1, SlotStays DEF Alive
  <2>6. QED BY <2>3, <2>4, <2>5, Polls
<1>7. ASSUME NEW j \in Jobs, LearnExit(j) \/ Receive(j)
      PROVE  /\ job[j].at = "wait" /\ \A i \in Jobs : Result(i)' = Result(i)
             /\ \A i \in Jobs : i # j => Heard(i)' = Heard(i)
             /\ SameSlots /\ Polled' = Polled /\ j \in Polled /\ j \notin Unassigned
             /\ Heard(j) = "none"
  <2>1. job[j].at = "wait" /\ UNCHANGED <<executor, pipe, ran>>
    BY <1>7 DEF LearnExit, Receive, processVars, historyVars
  <2>2. job'[j].at \in {"COMPLETED", "FAILED"} /\ \A i \in Jobs : i # j => job'[i] = job[i]
    BY <1>0, <1>7, ReturnChanges DEF LearnExit, Receive
  <2>3. Polled' = Polled /\ Unassigned' = Unassigned /\ j \in Polled /\ j \notin Unassigned
    BY <2>1, <2>2 DEF Polled, Unassigned
  <2>4. \A s \in Slots : SameSlot(s)
    BY <2>1, SlotStays DEF Alive
  <2>5. QED BY <2>1, <2>2, <2>3, <2>4 DEF SameSlots, Result, Heard
<1>8. ASSUME NEW j \in Jobs, LearnExit(j) PROVE Delivery!Next
  <2>1. Heard(j)' = "FAILED"
    BY <1>0, <1>8, ReturnChanges DEF LearnExit, Heard
  <2>2. QED BY <1>7, <1>8, <2>1, GivenUpIsGone, GivesUp
<1>9. ASSUME NEW j \in Jobs, Receive(j) PROVE Delivery!Next
  <2>1. Result(j) = "COMPLETED"
    BY <1>9 DEF Receive, Handed, Result
  <2>2. Heard(j)' = "COMPLETED"
    BY <1>0, <1>9, ReturnChanges DEF Receive, Heard
  <2>3. QED BY <1>7, <1>9, <2>1, <2>2, Reports
<1>10. ASSUME NEW j \in Jobs, NEW s \in Slots, LeaseAndSend(j, s) PROVE Delivery!Next
  <2>1. job[j].at = "lease" /\ UNCHANGED <<executor, ran>>
    BY <1>10 DEF LeaseAndSend, historyVars
  <2>2. job'[j].at = "wait" /\ \A i \in Jobs : i # j => job'[i] = job[i]
    BY <1>0, <1>10 DEF LeaseAndSend, TypeOK
  <2>3. SameJobs /\ j \in Unassigned /\ Unassigned' = Unassigned \ {j}
    BY <2>1, <2>2 DEF SameJobs, Polled, Unassigned, Result, Heard
  <2>4. \A r \in Slots : /\ r # s => pipe'[r] = pipe[r]
                         /\ Alive(r)' <=> Alive(r)
    BY <1>0, <1>10, <2>1 DEF LeaseAndSend, TypeOK, Alive
  <2>5. \A r \in Slots : r # s => SameSlot(r)
    BY <2>1, <2>4, SlotStays
  <2>6. CASE Alive(s) /\ executor[s].gen = known[s].gen
    <3>1. pipe'[s] = Append(pipe[s], j)
      BY <1>0, <1>10, <2>6 DEF LeaseAndSend, TypeOK
    <3>2. Elements(pipe'[s]) = Elements(pipe[s]) \cup {j} /\ j # Stop
      BY <1>p, <3>1, AppendElements DEF Jobs, Stop
    <3>3. Inbox(s)' = Inbox(s) \cup {j} /\ Running(s)' = Running(s)
      BY <2>1, <2>4, <2>6, <3>2 DEF Inbox, Running
    <3>4. QED BY <2>3, <2>5, <3>3, Assigns
  <2>7. CASE ~(Alive(s) /\ executor[s].gen = known[s].gen)
    <3>1. Alive(s) => pipe'[s] = pipe[s]
      BY <1>10, <2>7 DEF LeaseAndSend
    <3>2. SameSlot(s)
      BY <2>1, <2>4, <3>1, SlotStays
    <3>3. QED BY <2>3, <2>5, <3>2, Loses
  <2>8. QED BY <2>6, <2>7
<1>11. CASE SendStop
  <2>1. UNCHANGED <<executor, job, ran>>
    BY <1>11 DEF SendStop, brokerVars, historyVars
  <2>2. \A s \in Slots : pipe'[s] = pipe[s] \/ pipe'[s] = Append(pipe[s], Stop)
    BY <1>0, <1>11 DEF SendStop, TypeOK
  <2>3. \A s \in Slots : Elements(Append(pipe[s], Stop)) = Elements(pipe[s]) \cup {Stop}
    BY <1>p, AppendElements
  <2>4. \A s \in Slots : Elements(pipe'[s]) \ {Stop} = Elements(pipe[s]) \ {Stop}
    BY <2>2, <2>3
  <2>5. QED BY <1>a, <2>1, <2>4, SlotStays DEF Alive
<1>12. CASE Replace
  <2>0. PICK s \in Slots : s = supervisor.slot
    BY <1>0, <1>12 DEF Replace, Itinerary
  <2>1. UNCHANGED <<job, ran>>
    BY <1>12 DEF Replace, brokerVars, historyVars
  <2>2. /\ executor'[s].job = NoJob /\ pipe'[s] = <<>>
        /\ \A r \in Slots : r # s => executor'[r] = executor[r] /\ pipe'[r] = pipe[r]
    BY <1>0, <1>12, <2>0 DEF Replace, TypeOK, Fresh
  <2>3. Inbox(s)' = {} /\ Running(s)' = NoJob
    BY <2>2, EmptyElements DEF Inbox, Running
  <2>4. \A r \in Slots : r # s => SameSlot(r)
    BY <2>2, SlotStays DEF Alive
  <2>5. QED BY <2>1, <2>3, <2>4, Leaves, JobsStay
<1>13. CASE Kill
  <2>1. UNCHANGED <<pipe, job, ran>>
    BY <1>13 DEF Kill, historyVars
  <2>2. CASE UNCHANGED executor
    BY <1>b, <2>1, <2>2
  <2>3. CASE \E s \in Slots : Alive(s) /\ Leave(s, "dead") /\ UNCHANGED broker
    BY <1>0, <2>1, <2>3, ProcessLeaves DEF Gone
  <2>4. QED BY <1>13, <2>2, <2>3 DEF Kill
<1>14. CASE Signal \/ CrashBroker \/ Drain \/ BrokerExits \/ Ended \/ UNCHANGED vars
  BY <1>b, <1>14 DEF Signal, CrashBroker, Drain, BrokerExits, Ended, processVars, historyVars, vars
<1>15. CASE \/ LoopEnds \/ TerminateBroker \/ Joined \/ Deadline \/ AllKilled \/ Sweep
            \/ \E s \in Slots : ReportExit(s)
  BY <1>b, <1>15 DEF LoopEnds, TerminateBroker, Joined, Deadline, AllKilled, Sweep, ReportExit,
                     processVars, brokerVars, historyVars
<1>16. QED
  BY <1>1, <1>2, <1>3, <1>4, <1>5, <1>6, <1>8, <1>9, <1>10, <1>11, <1>12, <1>13, <1>14, <1>15
     DEF Next, BrokerNext, ExecutorNext, SupervisorNext

\* From its first poll to the supervisor's last step an attempt goes the way that
\* AttemptDelivery describes: to one process at most, run once at most, and reported
\* once, as its run ended or as FAILED when no live executor has it, or will.
THEOREM DeliversAttempts == Spec => DeliverySpec
<1>1. Init => Handed
  <2>1. ASSUME Init, NEW s \in Slots PROVE SlotHanded(s)
    BY <2>1, EmptyElements DEF Init, SlotHanded, Once, Fresh
  <2>2. QED BY <2>1 DEF Init, Handed
<1>2. Init => Delivery!Init
  <2> SUFFICES ASSUME Init PROVE Delivery!Init
    OBVIOUS
  <2>1. Polled = {} /\ Unassigned = {} /\ \A j \in Jobs : Result(j) = "none" /\ Heard(j) = "none"
    BY DEF Init, Polled, Unassigned, Result, Heard
  <2>2. \A s \in Slots : Inbox(s) = {} /\ Running(s) = NoJob
    BY EmptyElements DEF Init, Inbox, Running, Fresh
  <2>3. QED BY <2>1, <2>2 DEF Delivery!Init
<1>3. ShutdownInv /\ Handed /\ [Next]_vars => Handed'
  BY SlotHandedKept, CompletedRan DEF Handed
<1>4. ShutdownInv /\ Handed /\ [Next]_vars => [Delivery!Next]_Delivery!vars
  BY DeliveryStep
<1>5. QED
  BY <1>1, <1>2, <1>3, <1>4, ShutdownInvHolds, PTL DEF Spec, DeliverySpec, Delivery!Spec

-----------------------------------------------------------------------------
\* What the abstract specification promises

\* An attempt that moves to one place, from none or from the inbox there.
LEMMA OnePlaceKept ==
  ASSUME Delivery!OnePlace, [Delivery!LooseNext]_Delivery!vars
  PROVE  Delivery!OnePlace' /\ Delivery!StaysOver
<1> USE DEF Delivery!OnePlace, Delivery!At, Delivery!AtExecutor, Delivery!StaysOver, Delivery!Over
<1>0. NoJob \notin Jobs
  BY DEF Jobs, NoJob
<1>1. ASSUME NEW a \in Jobs \ Polled, Delivery!Poll(a) PROVE Delivery!OnePlace' /\ Delivery!StaysOver
  BY <1>1 DEF Delivery!Poll
<1>2. ASSUME NEW a \in Unassigned, Delivery!Lose(a) PROVE Delivery!OnePlace' /\ Delivery!StaysOver
  BY <1>2 DEF Delivery!Lose
<1>3. ASSUME NEW a \in Unassigned, NEW p \in Slots, Delivery!Assign(a, p) PROVE Delivery!OnePlace' /\ Delivery!StaysOver
  <2>1. /\ \A s \in Slots : /\ Running(s)' = Running(s)
                            /\ s # p => Inbox(s)' = Inbox(s)
        /\ Inbox(p)' = Inbox(p) \cup {a} /\ Unassigned' = Unassigned \ {a} /\ Polled' = Polled
        /\ \A j \in Jobs : Result(j)' = Result(j)
    BY <1>3 DEF Delivery!Assign
  <2>2. QED BY <2>1
<1>4. ASSUME NEW p \in Slots, NEW a \in Inbox(p), Delivery!Begin(a, p) PROVE Delivery!OnePlace' /\ Delivery!StaysOver
  <2>1. /\ \A s \in Slots : s # p => Running(s)' = Running(s) /\ Inbox(s)' = Inbox(s)
        /\ Inbox(p)' = Inbox(p) \ {a} /\ Running(p)' = a /\ Unassigned' = Unassigned /\ Polled' = Polled
        /\ \A j \in Jobs : Result(j)' = Result(j)
    BY <1>4 DEF Delivery!Begin
  <2>2. QED BY <2>1
<1>5. ASSUME NEW p \in Slots, NEW status, Delivery!Finish(p, status) PROVE Delivery!OnePlace' /\ Delivery!StaysOver
  <2>1. /\ \A s \in Slots : /\ Inbox(s)' = Inbox(s)
                            /\ s # p => Running(s)' = Running(s)
        /\ Running(p)' = NoJob /\ Unassigned' = Unassigned /\ Polled' = Polled
        /\ \A j \in Jobs : j # Running(p) => Result(j)' = Result(j)
    BY <1>5 DEF Delivery!Finish
  <2>2. QED BY <1>0, <2>1
<1>6. ASSUME NEW p \in Slots, Delivery!Leave(p) PROVE Delivery!OnePlace' /\ Delivery!StaysOver
  <2>1. /\ \A s \in Slots : s # p => Running(s)' = Running(s) /\ Inbox(s)' = Inbox(s)
        /\ Inbox(p)' = {} /\ Running(p)' = NoJob /\ Unassigned' = Unassigned /\ Polled' = Polled
        /\ \A j \in Jobs : Result(j)' = Result(j)
    BY <1>6 DEF Delivery!Leave
  <2>2. QED BY <1>0, <2>1
<1>7. ASSUME NEW a \in Polled, Delivery!Report(a) PROVE Delivery!OnePlace' /\ Delivery!StaysOver
  BY <1>7 DEF Delivery!Report
<1>8. ASSUME NEW a \in Polled, Delivery!Fail(a) PROVE Delivery!OnePlace' /\ Delivery!StaysOver
  BY <1>8 DEF Delivery!Fail
<1>9. ASSUME UNCHANGED Delivery!vars PROVE Delivery!OnePlace' /\ Delivery!StaysOver
  BY <1>9 DEF Delivery!vars
<1>10. QED
  BY <1>1, <1>2, <1>3, <1>4, <1>5, <1>6, <1>7, <1>8, <1>9 DEF Delivery!LooseNext, Delivery!Next, Delivery!GiveUp

LEMMA AnsweredKept ==
  ASSUME Delivery!OnePlace, Delivery!AnsweredIsOver, [Delivery!Next]_Delivery!vars
  PROVE  Delivery!AnsweredIsOver'
<1>1. [Delivery!LooseNext]_Delivery!vars
  BY DEF Delivery!LooseNext
<1>2. Delivery!StaysOver
  BY <1>1, OnePlaceKept
<1>3. SUFFICES ASSUME NEW j \in Jobs, Heard(j)' # "none", Heard(j) = "none" PROVE Delivery!Over(j)'
  BY <1>2 DEF Delivery!AnsweredIsOver, Delivery!StaysOver
<1>4. Delivery!Report(j) \/ (j \in Polled /\ Delivery!GiveUp(j))
  <2>1. ASSUME NEW a \in Polled, Delivery!Report(a) \/ Delivery!GiveUp(a) PROVE j = a
    BY <1>3, <2>1 DEF Delivery!Report, Delivery!GiveUp, Delivery!Fail
  <2>2. Heard(j)' # Heard(j)
    BY <1>3
  <2>3. ASSUME NEW p \in Slots, \/ \E a \in Inbox(p) : Delivery!Begin(a, p)
                               \/ \E status \in {"COMPLETED", "FAILED"} : Delivery!Finish(p, status)
                               \/ Delivery!Leave(p)
        PROVE  FALSE
    BY <2>2, <2>3 DEF Delivery!Begin, Delivery!Finish, Delivery!Leave
  <2>4. ASSUME NEW a, Delivery!Poll(a) \/ Delivery!Lose(a) \/ \E p \in Slots : Delivery!Assign(a, p) PROVE FALSE
    BY <2>2, <2>4 DEF Delivery!Poll, Delivery!Lose, Delivery!Assign
  <2>5. ASSUME UNCHANGED Delivery!vars PROVE FALSE
    BY <2>2, <2>5 DEF Delivery!vars
  <2>6. QED BY <2>1, <2>3, <2>4, <2>5 DEF Delivery!Next
<1> USE DEF Delivery!OnePlace, Delivery!At, Delivery!AtExecutor, Delivery!Over
<1>5. ASSUME Delivery!Report(j) PROVE Delivery!Over(j)'
  <2>1. /\ \A s \in Slots : Inbox(s)' = Inbox(s) /\ Running(s)' = Running(s)
        /\ Unassigned' = Unassigned /\ Polled' = Polled /\ Result(j) # "none"
    BY <1>5 DEF Delivery!Report
  <2>2. QED BY <2>1
<1>6. ASSUME Delivery!GiveUp(j), j \in Polled PROVE Delivery!Over(j)'
  <2>1. /\ \A s \in Slots : Inbox(s)' = Inbox(s) /\ Running(s)' = Running(s)
        /\ Unassigned' = Unassigned \ {j} /\ Polled' = Polled
    BY <1>6 DEF Delivery!GiveUp, Delivery!Fail
  <2>2. ~Delivery!AtExecutor(j)
    BY <1>6 DEF Delivery!GiveUp
  <2>3. QED BY <1>6, <2>1, <2>2
<1>7. QED BY <1>4, <1>5, <1>6

\* An attempt is with one executor at a time, leaves it for good, and its result is then
\* what it is: whatever dies or is replaced, nothing in the runtime runs it again.
THEOREM RunOnceAtMost == Spec => []Delivery!OnePlace /\ Delivery!NeverAgain
<1>1. Delivery!Init => Delivery!OnePlace
  BY DEF Delivery!Init, Delivery!OnePlace, Delivery!At, Delivery!AtExecutor, Jobs, NoJob
<1>2. Delivery!OnePlace /\ [Delivery!Next]_Delivery!vars => Delivery!OnePlace' /\ [Delivery!StaysOver]_Delivery!vars
  BY OnePlaceKept DEF Delivery!LooseNext
<1>3. QED
  BY <1>1, <1>2, DeliversAttempts, PTL DEF DeliverySpec, Delivery!Spec, Delivery!NeverAgain

\* What Conductor has heard of an attempt, COMPLETED or FAILED, is final: no live executor
\* has the attempt, or will, also while the runtime stops.
THEOREM AnswersAreFinal == Spec => []Delivery!AnsweredIsOver
<1>1. Delivery!Init => Delivery!OnePlace /\ Delivery!AnsweredIsOver
  BY DEF Delivery!Init, Delivery!OnePlace, Delivery!At, Delivery!AtExecutor, Delivery!AnsweredIsOver, Jobs, NoJob
<1>2. Delivery!OnePlace /\ [Delivery!Next]_Delivery!vars => Delivery!OnePlace'
  BY OnePlaceKept DEF Delivery!LooseNext
<1>3. Delivery!OnePlace /\ Delivery!AnsweredIsOver /\ [Delivery!Next]_Delivery!vars => Delivery!AnsweredIsOver'
  BY AnsweredKept
<1>4. QED
  BY <1>1, <1>2, <1>3, DeliversAttempts, PTL DEF DeliverySpec, Delivery!Spec
=============================================================================
