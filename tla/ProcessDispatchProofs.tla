------------------------ MODULE ProcessDispatchProofs ------------------------
(***************************************************************************)
(* Proofs about ProcessDispatch, for any threads, slots, jobs, generations *)
(* and fences, whether or not a killed process leaks a queue's lock.       *)
(***************************************************************************)
EXTENDS ProcessDispatch, SequenceTheorems, TLAPS

-----------------------------------------------------------------------------
\* The inductive invariant

Distinct(q) == \A i, k \in 1..Len(q) : q[i] = q[k] => i = k

Unleased == {"idle", "drain lease", "get"}
Returned == {"drain release", "release"}

\* What a thread holds at each point of execute.
ThreadInv(th) ==
  /\ pc[th] \in Unleased => lease[th] = NoLease
  /\ pc[th] = "lock" => lease[th].slot \in Slots /\ lease[th].gen = None
  /\ pc[th] \notin Unleased \cup {"lock"} => lease[th].slot \in Slots /\ lease[th].gen \in Generations
  /\ pc[th] = "idle" <=> job[th] = NoJob
  /\ pc[th] \in Draining => held[th] \in Event \cup {NoItem}
  /\ pc[th] = "serve" => held[th] \in Request
  /\ pc[th] \notin Draining \cup {"serve"} => held[th] = NoItem

\* An executor works on a job or on none, and one that died has room for a replacement.
ExecutorInv(s) ==
  /\ executor[s].state \in {"running", "fence"} <=> executor[s].job # NoJob
  /\ executor[s].state = "fence" => executor[s].fences # 0
  /\ executor[s].state = "dead" => executor[s].gen < MaxGeneration
  /\ restarting = s => executor[s].state = "dead"

\* A job belongs to one thread, until that thread has its result.
ThreadsApart ==
  /\ \A th, ot \in Threads : job[th] = job[ot] /\ job[th] # NoJob => th = ot
  /\ \A th \in Threads : job[th] # NoJob =>
       (outcome[job[th]] # "none" <=> pc[th] \in Returned)

\* A job is in one pipe or in one executor at most, before it has ended and never again.
Sent(j) == /\ Started(j)
           /\ \A th \in Threads : job[th] = j => pc[th] \notin Unsent
OneRun ==
  /\ \A s \in Slots, g \in Generations : Distinct(toExecutor[s][g])
  /\ \A s, r \in Slots, g, h \in Generations, j \in Jobs :
       j \in Elements(toExecutor[s][g]) /\ j \in Elements(toExecutor[r][h]) => s = r /\ g = h
  /\ \A s \in Slots, r \in Slots, h \in Generations :
       executor[s].job \notin Elements(toExecutor[r][h])
  /\ \A s, r \in Slots : executor[s].job = executor[r].job /\ executor[s].job # NoJob => s = r
  /\ \A s \in Slots, g \in Generations, j \in Jobs :
       j \in Elements(toExecutor[s][g]) \/ executor[s].job = j => Sent(j) /\ executed[j] = "none"
  /\ \A j \in Jobs : executed[j] # "none" => Sent(j)

\* A completion says how the run of its job ended.
TrueCompletions ==
  \A s \in Slots, g \in Generations : \A c \in Elements(toBroker[s][g]) :
    executed[c.job] = c.status

\* A slot's pipe is that of its generation, and whoever is busy is leased.
SlotInv ==
  \A s \in Slots : /\ connection[s] \in {None, generation[s]}
                   /\ s \in busy => \E th \in Threads : Leased(th, s)

DispatchInv ==
  /\ TypeOK
  /\ \A th \in Threads : ThreadInv(th)
  /\ \A s \in Slots : ExecutorInv(s)
  /\ ThreadsApart
  /\ OneRun
  /\ TrueCompletions
  /\ SlotInv
  /\ SlotNotLost
  /\ OwnResultOnly

-----------------------------------------------------------------------------
\* Sequences

\* What is put goes behind everything.
LEMMA AppendElements ==
  ASSUME NEW S, NEW q \in Seq(S), NEW x \in S
  PROVE  /\ Append(q, x) \in Seq(S)
         /\ Elements(Append(q, x)) = Elements(q) \cup {x}
         /\ Distinct(q) /\ x \notin Elements(q) => Distinct(Append(q, x))
<1>1. Len(q) \in Nat /\ Len(Append(q, x)) = Len(q) + 1
  OBVIOUS
<1>2. /\ Append(q, x)[Len(q) + 1] = x
      /\ \A i \in 1..Len(q) : Append(q, x)[i] = q[i]
  BY <1>1
<1>3. 1..(Len(q) + 1) = 1..Len(q) \cup {Len(q) + 1}
  BY <1>1
<1>4. Append(q, x) \in Seq(S)
  OBVIOUS
<1>5. Elements(Append(q, x)) = Elements(q) \cup {x}
  BY <1>1, <1>2, <1>3 DEF Elements
<1>6. ASSUME Distinct(q), x \notin Elements(q) PROVE Distinct(Append(q, x))
  BY <1>1, <1>2, <1>3, <1>6 DEF Distinct, Elements
<1>7. QED BY <1>4, <1>5, <1>6

\* What is taken is the first.
LEMMA HeadTailElements ==
  ASSUME NEW S, NEW q \in Seq(S), q # <<>>
  PROVE  /\ Head(q) \in S /\ Head(q) \in Elements(q)
         /\ Tail(q) \in Seq(S)
         /\ Elements(q) = {Head(q)} \cup Elements(Tail(q))
         /\ Distinct(q) => Distinct(Tail(q)) /\ Head(q) \notin Elements(Tail(q))
<1>1. Len(q) \in Nat /\ Len(q) >= 1 /\ Head(q) = q[1] /\ q[1] \in S
  OBVIOUS
<1>2. /\ Tail(q) \in Seq(S) /\ Len(Tail(q)) = Len(q) - 1
      /\ \A i \in 1..Len(Tail(q)) : Tail(q)[i] = q[i + 1]
  BY HeadTailProperties
<1>3. Elements(q) = {Head(q)} \cup Elements(Tail(q))
  <2>1. ASSUME NEW i \in 1..Len(q), i # 1 PROVE q[i] \in Elements(Tail(q))
    <3>1. i - 1 \in 1..Len(Tail(q)) /\ Tail(q)[i - 1] = q[i]
      BY <1>1, <1>2, <2>1
    <3>2. QED BY <3>1 DEF Elements
  <2>2. Elements(Tail(q)) \subseteq Elements(q)
    BY <1>1, <1>2 DEF Elements
  <2>3. Head(q) \in Elements(q)
    BY <1>1 DEF Elements
  <2>4. Elements(q) \subseteq {Head(q)} \cup Elements(Tail(q))
    BY <1>1, <2>1 DEF Elements
  <2>5. QED BY <2>2, <2>3, <2>4
<1>4. ASSUME Distinct(q) PROVE Distinct(Tail(q)) /\ Head(q) \notin Elements(Tail(q))
  BY <1>1, <1>2, <1>4 DEF Distinct, Elements
<1>5. QED BY <1>1, <1>2, <1>3, <1>4

LEMMA ElementsTyped == \A S : \A q \in Seq(S) : Elements(q) \subseteq S
  BY DEF Elements

LEMMA EmptyElements == \A S : <<>> \in Seq(S) /\ Elements(<<>>) = {} /\ Distinct(<<>>)
  BY DEF Elements, Distinct

-----------------------------------------------------------------------------
\* The helpers of the actions

Executor == [gen : Generations, state : {"idle", "running", "fence", "dead"},
             job : Jobs \cup {NoJob}, fences : 0..MaxFences]
Lease == [slot : Slots \cup {None}, gen : Generations \cup {None}]

\* An executor stays the process it is, and the others do not change.
LEMMA SetExecutorChanges ==
  ASSUME TypeOK, NEW s \in Slots, NEW state \in {"idle", "running", "fence", "dead"},
         NEW j \in Jobs \cup {NoJob}, NEW n \in 0..MaxFences, SetExecutor(s, state, j, n)
  PROVE  /\ executor' \in [Slots -> Executor]
         /\ executor'[s].gen = executor[s].gen /\ executor'[s].state = state
         /\ executor'[s].job = j /\ executor'[s].fences = n
         /\ \A r \in Slots : r # s => executor'[r] = executor[r]
<1> DEFINE e == [gen |-> executor[s].gen, state |-> state, job |-> j, fences |-> n]
<1>1. executor \in [Slots -> Executor] /\ executor[s] \in Executor
  BY DEF TypeOK, Executor
<1>2. e \in Executor
  BY <1>1 DEF Executor
<1>3. executor' = [executor EXCEPT ![s] = e]
  BY DEF SetExecutor
<1> HIDE DEF e
<1>4. executor'[s] = e /\ executor' \in [Slots -> Executor]
  BY <1>1, <1>2, <1>3
<1>5. \A r \in Slots : r # s => executor'[r] = executor[r]
  BY <1>1, <1>3
<1>6. QED BY <1>4, <1>5 DEF e

\* An exit is recorded for the current generation only.
LEMMA MarkExitedChanges ==
  ASSUME TypeOK, NEW s \in Slots, NEW g \in Generations, MarkExited(s, g)
  PROVE  /\ connection' \in [Slots -> Generations \cup {None}]
         /\ exited' \in [Slots -> Generations \cup {None}]
         /\ UNCHANGED <<generation, queue>>
         /\ available' \subseteq available /\ busy' \subseteq busy
         /\ \A r \in Slots : r # s => /\ connection'[r] = connection[r]
                                      /\ exited'[r] = exited[r]
                                      /\ r \in available => r \in available'
         /\ \/ generation[s] = g /\ connection'[s] = None /\ exited'[s] = g /\ s \notin available'
            \/ /\ generation[s] # g /\ UNCHANGED <<available, busy>>
               /\ connection'[s] = connection[s] /\ exited'[s] = exited[s]
BY DEF MarkExited, TypeOK, slotVars

\* A slot that becomes available is put into the queue, if it is not there already.
LEMMA MarkAvailableChanges ==
  ASSUME TypeOK, NEW s \in Slots, MarkAvailable(s)
  PROVE  /\ available' = available \cup {s}
         /\ queue' \in Seq(Slots)
         /\ Elements(queue) \subseteq Elements(queue')
         /\ s \in available \/ s \in Elements(queue')
BY AppendElements DEF MarkAvailable, TypeOK

\* A thread returns with a result and keeps what else it has.
LEMMA ReturnChanges ==
  ASSUME TypeOK, NEW th \in Threads, NEW status \in {"COMPLETED", "FAILED"}, job[th] \in Jobs,
         Return(th, status)
  PROVE  /\ outcome' \in [Jobs -> {"none", "COMPLETED", "FAILED"}]
         /\ outcome'[job[th]] = status
         /\ \A j \in Jobs : j # job[th] => outcome'[j] = outcome[j]
         /\ pc' \in [Threads -> PC] /\ pc'[th] = "drain release"
         /\ \A ot \in Threads : ot # th => pc'[ot] = pc[ot]
BY DEF Return, Goto, TypeOK, PC, Draining

\* Going on changes the place of one thread.
LEMMA GotoChanges ==
  ASSUME TypeOK, NEW th \in Threads, NEW p \in PC, Goto(th, p)
  PROVE  /\ pc' \in [Threads -> PC] /\ pc'[th] = p
         /\ \A ot \in Threads : ot # th => pc'[ot] = pc[ot]
BY DEF Goto, TypeOK

\* Whoever waits has a job and a lease.
LEMMA WaitingTyped ==
  ASSUME TypeOK, NEW th \in Threads, ThreadInv(th)
  PROVE  /\ pc[th] # "idle" => job[th] \in Jobs
         /\ pc[th] \in {"send", "fence", "serve", "check", "poll", "recv", "release"}
              => lease[th].slot \in Slots /\ lease[th].gen \in Generations
         /\ pc[th] \in Draining /\ held[th] # NoItem => held[th] \in Event
BY DEF TypeOK, ThreadInv, Unleased, Draining

\* An executor's pipes are those of its generation.
LEMMA ExecutorTyped ==
  ASSUME TypeOK, NEW s \in Slots
  PROVE  /\ executor[s].gen \in Generations /\ executor[s].fences \in 0..MaxFences
         /\ executor[s].job \in Jobs \cup {NoJob}
         /\ executor[s].state \in {"idle", "running", "fence", "dead"}
         /\ \A g \in Generations : /\ toExecutor[s][g] \in Seq(Jobs)
                                   /\ toBroker[s][g] \in Seq(Completion)
<1>1. executor[s] \in Executor
  BY DEF TypeOK, Executor
<1>2. QED BY <1>1 DEF TypeOK, Executor

\* A completion goes into the executor's pipe, names its job and ends its run.
LEMMA CompleteChanges ==
  ASSUME TypeOK, NEW s \in Slots, NEW status \in {"COMPLETED", "FAILED"}, executor[s].job \in Jobs,
         Complete(s, status)
  PROVE  /\ toBroker' \in [Slots -> [Generations -> Seq(Completion)]]
         /\ Elements(toBroker'[s][executor[s].gen]) =
              Elements(toBroker[s][executor[s].gen]) \cup {[job |-> executor[s].job, status |-> status]}
         /\ \A r \in Slots, g \in Generations :
              r # s \/ g # executor[s].gen => toBroker'[r][g] = toBroker[r][g]
         /\ executed' \in [Jobs -> {"none", "COMPLETED", "FAILED"}]
         /\ executed'[executor[s].job] = status
         /\ \A j \in Jobs : j # executor[s].job => executed'[j] = executed[j]
         /\ executor' \in [Slots -> Executor]
         /\ executor'[s].gen = executor[s].gen /\ executor'[s].state = "idle"
         /\ executor'[s].job = NoJob /\ executor'[s].fences = 0
         /\ \A r \in Slots : r # s => executor'[r] = executor[r]
<1> DEFINE g == executor[s].gen
           c == [job |-> executor[s].job, status |-> status]
<1>1. g \in Generations /\ toBroker[s][g] \in Seq(Completion) /\ c \in Completion
  BY ExecutorTyped DEF Completion
<1>2. /\ Append(toBroker[s][g], c) \in Seq(Completion)
      /\ Elements(Append(toBroker[s][g], c)) = Elements(toBroker[s][g]) \cup {c}
  BY <1>1, AppendElements
<1>3. toBroker' = [toBroker EXCEPT ![s][g] = Append(toBroker[s][g], c)]
  BY DEF Complete
<1>4. toBroker \in [Slots -> [Generations -> Seq(Completion)]]
  BY DEF TypeOK
<1>5. /\ SetExecutor(s, "idle", NoJob, 0) /\ 0 \in 0..MaxFences
      /\ executed' = [executed EXCEPT ![executor[s].job] = status]
  BY DispatchAssumption DEF Complete
<1>6. executed' \in [Jobs -> {"none", "COMPLETED", "FAILED"}]
  BY <1>5 DEF TypeOK
<1>7. /\ executed'[executor[s].job] = status
      /\ \A j \in Jobs : j # executor[s].job => executed'[j] = executed[j]
  BY <1>5 DEF TypeOK
<1> HIDE DEF g, c
<1>8. /\ toBroker' \in [Slots -> [Generations -> Seq(Completion)]]
      /\ toBroker'[s][g] = Append(toBroker[s][g], c)
      /\ \A r \in Slots, h \in Generations : r # s \/ h # g => toBroker'[r][h] = toBroker[r][h]
  BY <1>1, <1>2, <1>3, <1>4
<1>9. Elements(toBroker'[s][g]) = Elements(toBroker[s][g]) \cup {c}
  BY <1>2, <1>8
<1>10. /\ executor' \in [Slots -> Executor]
       /\ executor'[s].gen = executor[s].gen /\ executor'[s].state = "idle"
       /\ executor'[s].job = NoJob /\ executor'[s].fences = 0
       /\ \A r \in Slots : r # s => executor'[r] = executor[r]
  BY <1>5, SetExecutorChanges
<1>11. QED BY <1>6, <1>7, <1>8, <1>9, <1>10 DEF g, c

\* An assignment that is read leaves the pipe and is the executor's job.
LEMMA ReceiveChanges ==
  ASSUME TypeOK, NEW s \in Slots, ReceiveAssignment(s)
  PROVE  /\ Head(toExecutor[s][executor[s].gen]) \in Jobs
         /\ toExecutor' \in [Slots -> [Generations -> Seq(Jobs)]]
         /\ toExecutor'[s][executor[s].gen] = Tail(toExecutor[s][executor[s].gen])
         /\ \A r \in Slots, g \in Generations :
              r # s \/ g # executor[s].gen => toExecutor'[r][g] = toExecutor[r][g]
         /\ executor' \in [Slots -> Executor]
         /\ executor'[s].gen = executor[s].gen /\ executor'[s].state = "running"
         /\ executor'[s].job = Head(toExecutor[s][executor[s].gen]) /\ executor'[s].fences = 0
         /\ \A r \in Slots : r # s => executor'[r] = executor[r]
<1> DEFINE g == executor[s].gen
<1>1. g \in Generations /\ toExecutor[s][g] \in Seq(Jobs) /\ toExecutor[s][g] # <<>>
  BY ExecutorTyped DEF ReceiveAssignment
<1>2. Head(toExecutor[s][g]) \in Jobs /\ Tail(toExecutor[s][g]) \in Seq(Jobs)
  BY <1>1, HeadTailElements
<1>3. toExecutor' = [toExecutor EXCEPT ![s][g] = Tail(toExecutor[s][g])]
  BY DEF ReceiveAssignment
<1>4. toExecutor \in [Slots -> [Generations -> Seq(Jobs)]]
  BY DEF TypeOK
<1>5. SetExecutor(s, "running", Head(toExecutor[s][g]), 0) /\ 0 \in 0..MaxFences
  BY DispatchAssumption DEF ReceiveAssignment
<1> HIDE DEF g
<1>6. /\ toExecutor' \in [Slots -> [Generations -> Seq(Jobs)]]
      /\ toExecutor'[s][g] = Tail(toExecutor[s][g])
      /\ \A r \in Slots, h \in Generations : r # s \/ h # g => toExecutor'[r][h] = toExecutor[r][h]
  BY <1>1, <1>2, <1>3, <1>4
<1>7. /\ executor' \in [Slots -> Executor]
      /\ executor'[s].gen = executor[s].gen /\ executor'[s].state = "running"
      /\ executor'[s].job = Head(toExecutor[s][g]) /\ executor'[s].fences = 0
      /\ \A r \in Slots : r # s => executor'[r] = executor[r]
  BY <1>2, <1>5, SetExecutorChanges
<1>8. QED BY <1>2, <1>6, <1>7 DEF g

\* A replacement is the next generation of a slot whose executor is dead.
LEMMA ReplacementChanges ==
  ASSUME TypeOK, NEW s \in Slots, ExecutorInv(s), StartReplacement(s)
  PROVE  /\ executor[s].gen + 1 \in Generations
         /\ executor' \in [Slots -> Executor]
         /\ executor'[s].gen = executor[s].gen + 1 /\ executor'[s].state = "idle"
         /\ executor'[s].job = NoJob /\ executor'[s].fences = 0
         /\ \A r \in Slots : r # s => executor'[r] = executor[r]
<1> DEFINE e == [gen |-> executor[s].gen + 1, state |-> "idle", job |-> NoJob, fences |-> 0]
<1>1. executor[s].gen < MaxGeneration /\ executor[s].gen \in Generations
  BY ExecutorTyped DEF ExecutorInv, StartReplacement
<1>2. executor[s].gen + 1 \in Generations /\ e \in Executor
  BY <1>1, DispatchAssumption DEF Generations, Executor
<1>3. executor' = [executor EXCEPT ![s] = e] /\ executor \in [Slots -> Executor]
  BY DEF StartReplacement, TypeOK, Executor
<1> HIDE DEF e
<1>4. executor' \in [Slots -> Executor] /\ executor'[s] = e
  BY <1>2, <1>3
<1>5. \A r \in Slots : r # s => executor'[r] = executor[r]
  BY <1>3
<1>6. QED BY <1>2, <1>4, <1>5 DEF e

\* A lease is one entry for one thread.
LEMMA LeaseChanges ==
  ASSUME TypeOK, NEW th \in Threads, NEW l \in Lease, lease' = [lease EXCEPT ![th] = l]
  PROVE  /\ lease' \in [Threads -> Lease] /\ lease'[th] = l
         /\ \A ot \in Threads : ot # th => lease'[ot] = lease[ot]
BY DEF TypeOK, Lease

\* A lease that gets its generation keeps its slot.
LEMMA LeaseWithGen ==
  ASSUME NEW l \in Lease, NEW g \in Generations \cup {None}
  PROVE  /\ [l EXCEPT !.gen = g] \in Lease
         /\ [l EXCEPT !.gen = g].slot = l.slot /\ [l EXCEPT !.gen = g].gen = g
BY DEF Lease

\* A thread gets the lease of an available slot that has a pipe, or drains again.
LEMMA LeaseSlotChanges ==
  ASSUME TypeOK, NEW th \in Threads, ThreadInv(th), LeaseSlot(th)
  PROVE  /\ pc[th] = "lock" /\ lease[th].slot \in Slots /\ UNCHANGED <<job, held>>
         /\ \/ /\ lease[th].slot \notin available \/ connection[lease[th].slot] = None
               /\ lease'[th] = NoLease /\ pc'[th] = "drain lease" /\ UNCHANGED <<available, busy>>
            \/ /\ lease[th].slot \in available /\ connection[lease[th].slot] \in Generations
               /\ lease'[th].slot = lease[th].slot /\ lease'[th].gen = connection[lease[th].slot]
               /\ pc'[th] = "send"
               /\ available' = available \ {lease[th].slot} /\ busy' = busy \cup {lease[th].slot}
<1> DEFINE s == lease[th].slot
           l == [lease[th] EXCEPT !.gen = connection[s]]
<1>1. UNCHANGED <<job, held>> /\ pc[th] = "lock" /\ s \in Slots
  BY DEF LeaseSlot, ThreadInv
<1>2. CASE s \notin available \/ connection[s] = None
  BY <1>1, <1>2 DEF LeaseSlot, Goto, TypeOK
<1>3. CASE ~(s \notin available \/ connection[s] = None)
  <2>1. /\ pc'[th] = "send" /\ lease' = [lease EXCEPT ![th] = l]
        /\ available' = available \ {s} /\ busy' = busy \cup {s}
    BY <1>3 DEF LeaseSlot, Goto, TypeOK
  <2>2. lease[th] \in Lease /\ connection[s] \in Generations
    BY <1>1, <1>3 DEF Lease, TypeOK
  <2>3. l.slot = s /\ l.gen = connection[s]
    BY <2>2, LeaseWithGen
  <2> HIDE DEF l
  <2>4. lease'[th] = l
    BY <2>1 DEF TypeOK
  <2>5. QED BY <1>1, <1>3, <2>1, <2>2, <2>3, <2>4
<1>4. QED BY <1>2, <1>3

\* An assignment goes into the pipe of the leased generation.
LEMMA SendChanges ==
  ASSUME TypeOK, NEW s \in Slots, NEW g \in Generations, NEW j \in Jobs,
         toExecutor' = [toExecutor EXCEPT ![s][g] = Append(@, j)]
  PROVE  /\ toExecutor' \in [Slots -> [Generations -> Seq(Jobs)]]
         /\ Elements(toExecutor'[s][g]) = Elements(toExecutor[s][g]) \cup {j}
         /\ Distinct(toExecutor[s][g]) /\ j \notin Elements(toExecutor[s][g])
              => Distinct(toExecutor'[s][g])
         /\ \A r \in Slots, h \in Generations : r # s \/ h # g => toExecutor'[r][h] = toExecutor[r][h]
<1>1. toExecutor \in [Slots -> [Generations -> Seq(Jobs)]] /\ toExecutor[s][g] \in Seq(Jobs)
  BY DEF TypeOK
<1> DEFINE q == Append(toExecutor[s][g], j)
<1>2. /\ q \in Seq(Jobs) /\ Elements(q) = Elements(toExecutor[s][g]) \cup {j}
      /\ Distinct(toExecutor[s][g]) /\ j \notin Elements(toExecutor[s][g]) => Distinct(q)
  BY <1>1, AppendElements
<1>3. toExecutor' = [toExecutor EXCEPT ![s][g] = q]
  OBVIOUS
<1> HIDE DEF q
<1>4. /\ toExecutor' \in [Slots -> [Generations -> Seq(Jobs)]] /\ toExecutor'[s][g] = q
      /\ \A r \in Slots, h \in Generations : r # s \/ h # g => toExecutor'[r][h] = toExecutor[r][h]
  BY <1>1, <1>2, <1>3
<1>5. QED BY <1>2, <1>4

-----------------------------------------------------------------------------
\* The steps

\* Nothing is leased, sent or run.
LEMMA InitEstablishes == Init => DispatchInv
<1> SUFFICES ASSUME Init PROVE DispatchInv
  OBVIOUS
<1> USE DispatchAssumption
<1>0. 1 \in Generations /\ 0 \in 0..MaxFences
  BY DEF Generations
<1>1. TypeOK
  <2>1. queue \in Seq(Slots) /\ \A s \in Slots : queue[s] = s
    BY DEF Init, Slots
  <2>2. executor \in [Slots -> Executor]
    BY <1>0 DEF Init, Executor
  <2>3. /\ toExecutor \in [Slots -> [Generations -> Seq(Jobs)]]
        /\ toBroker \in [Slots -> [Generations -> Seq(Completion)]]
        /\ responses \in [Slots -> Seq(Response)]
    BY EmptyElements DEF Init
  <2>4. /\ connection \in [Slots -> Generations \cup {None}]
        /\ generation \in [Slots -> Generations]
        /\ exited \in [Slots -> Generations \cup {None}]
        /\ available \subseteq Slots /\ busy \subseteq Slots
        /\ events \in Seq(Event) /\ requests \in Seq(Request)
    BY <1>0, EmptyElements DEF Init
  <2>5. /\ pc \in [Threads -> PC] /\ job \in [Threads -> Jobs \cup {NoJob}]
        /\ lease \in [Threads -> Lease]
        /\ held \in [Threads -> Event \cup Request \cup {NoItem}]
    BY DEF Init, PC, Lease, NoLease
  <2>6. /\ restarting \in Slots \cup {None} /\ stuck \subseteq Slots
        /\ outcome \in [Jobs -> {"none", "COMPLETED", "FAILED"}]
        /\ executed \in [Jobs -> {"none", "COMPLETED", "FAILED"}]
    BY DEF Init
  <2>7. QED BY <2>1, <2>2, <2>3, <2>4, <2>5, <2>6 DEF TypeOK, Executor, Lease
<1>2. \A th \in Threads : ThreadInv(th)
  BY DEF Init, ThreadInv, Unleased, Draining
<1>3. \A s \in Slots : ExecutorInv(s)
  BY DEF Init, ExecutorInv, Slots, None
<1>4. ThreadsApart
  BY DEF Init, ThreadsApart
<1>5. \A s \in Slots, g \in Generations :
        /\ toExecutor[s][g] = <<>> /\ toBroker[s][g] = <<>> /\ executor[s].job = NoJob
  BY DEF Init
<1>6. OneRun /\ TrueCompletions
  BY <1>5, EmptyElements DEF Init, OneRun, TrueCompletions
<1>7. SlotInv /\ SlotNotLost
  <2>1. Len(queue) = SlotCount /\ \A s \in Slots : queue[s] = s
    BY DEF Init, Slots
  <2>2. QED BY <2>1 DEF Init, SlotInv, SlotNotLost, Slots
<1>8. QED
  BY <1>1, <1>2, <1>3, <1>4, <1>6, <1>7 DEF Init, DispatchInv, OwnResultOnly

\* Every step keeps the types.
LEMMA TypeKept ==
  ASSUME TypeOK, \A th \in Threads : ThreadInv(th), \A s \in Slots : ExecutorInv(s), [Next]_vars
  PROVE  TypeOK'
<1>1. ASSUME NEW th \in Threads, TakeEvent(th) PROVE TypeOK'
  <2>1. Head(events) \in Event /\ Tail(events) \in Seq(Event)
    BY <1>1, HeadTailElements DEF TakeEvent, TypeOK
  <2>2. held' \in [Threads -> Event \cup Request \cup {NoItem}]
    BY <1>1, <2>1 DEF TakeEvent, TypeOK
  <2>3. QED
    BY <1>1, <2>1, <2>2 DEF TakeEvent, TypeOK, slotVars, fenceVars, pipeVars, processVars, resultVars
<1>2. ASSUME NEW th \in Threads, HandleExited(th) PROVE TypeOK'
  <2>1. pc[th] \in Draining /\ held[th].kind # "none" /\ held[th] # NoItem
    BY <1>2 DEF HandleExited, NoItem
  <2>2. held[th] \in Event
    BY <2>1, WaitingTyped
  <2>3. held[th].slot \in Slots /\ held[th].gen \in Generations
    BY <2>2 DEF Event
  <2>4. MarkExited(held[th].slot, held[th].gen)
    BY <1>2 DEF HandleExited
  <2>5. /\ connection' \in [Slots -> Generations \cup {None}]
        /\ exited' \in [Slots -> Generations \cup {None}]
        /\ UNCHANGED <<generation, queue>>
        /\ available' \subseteq available /\ busy' \subseteq busy
    BY <2>3, <2>4, MarkExitedChanges
  <2>6. held' \in [Threads -> Event \cup Request \cup {NoItem}]
    BY <1>2 DEF HandleExited, TypeOK
  <2>7. QED
    BY <1>2, <2>5, <2>6 DEF HandleExited, TypeOK, fenceVars, pipeVars, processVars, resultVars
<1>3. ASSUME NEW th \in Threads, HandleStarted(th) PROVE TypeOK'
  <2>1. pc[th] \in Draining /\ held[th].kind # "none" /\ held[th] # NoItem
    BY <1>3 DEF HandleStarted, NoItem
  <2>2. held[th] \in Event
    BY <2>1, WaitingTyped
  <2>3. held[th].slot \in Slots /\ held[th].gen \in Generations
    BY <2>2 DEF Event
  <2>4. /\ connection' \in [Slots -> Generations \cup {None}]
        /\ generation' \in [Slots -> Generations]
        /\ exited' \in [Slots -> Generations \cup {None}]
        /\ busy' = busy
    BY <1>3, <2>3 DEF HandleStarted, TypeOK, slotVars
  <2>5. available' \subseteq Slots /\ queue' \in Seq(Slots)
    <3>1. MarkAvailable(held[th].slot) \/ UNCHANGED <<available, queue>>
      BY <1>3 DEF HandleStarted, slotVars
    <3>2. QED BY <2>3, <3>1, MarkAvailableChanges DEF TypeOK
  <2>6. held' \in [Threads -> Event \cup Request \cup {NoItem}]
    BY <1>3 DEF HandleStarted, TypeOK
  <2>7. QED
    BY <1>3, <2>4, <2>5, <2>6 DEF HandleStarted, TypeOK, fenceVars, pipeVars, processVars, resultVars
<1>4. ASSUME NEW th \in Threads, Drained(th) PROVE TypeOK'
  <2>1. PICK p \in PC : Goto(th, p)
    BY <1>4 DEF Drained, Draining, PC
  <2>2. pc' \in [Threads -> PC]
    BY <2>1, GotoChanges
  <2>3. QED
    BY <1>4, <2>2 DEF Drained, TypeOK, slotVars, fenceVars, pipeVars, processVars, resultVars
<1>5. ASSUME NEW th \in Threads, Execute(th) PROVE TypeOK'
  <2>1. pc' \in [Threads -> PC]
    BY <1>5, GotoChanges DEF Execute, PC, Draining
  <2>2. job' \in [Threads -> Jobs \cup {NoJob}]
    BY <1>5 DEF Execute, TypeOK
  <2>3. QED
    BY <1>5, <2>1, <2>2 DEF Execute, TypeOK, slotVars, fenceVars, pipeVars, processVars, resultVars
<1>6. ASSUME NEW th \in Threads, GetSlot(th) PROVE TypeOK'
  <2>1. PICK p \in {"lock", "drain lease"} : Goto(th, p)
    BY <1>6 DEF GetSlot
  <2>2. pc' \in [Threads -> PC]
    BY <2>1, GotoChanges DEF PC, Draining
  <2>3. lease' \in [Threads -> Lease] /\ queue' \in Seq(Slots)
    <3>1. CASE queue # <<>> /\ lease' = [lease EXCEPT ![th] = [slot |-> Head(queue), gen |-> None]]
               /\ queue' = Tail(queue)
      <4>1. Head(queue) \in Slots /\ Tail(queue) \in Seq(Slots)
        BY <3>1, HeadTailElements DEF TypeOK
      <4>2. [slot |-> Head(queue), gen |-> None] \in Lease
        BY <4>1 DEF Lease
      <4>3. QED BY <3>1, <4>1, <4>2, LeaseChanges
    <3>2. CASE UNCHANGED <<lease, queue>>
      BY <3>2 DEF TypeOK, Lease
    <3>3. QED BY <1>6, <3>1, <3>2 DEF GetSlot
  <2>4. QED
    BY <1>6, <2>2, <2>3 DEF GetSlot, TypeOK, Lease, fenceVars, pipeVars, processVars, resultVars
<1>7. ASSUME NEW th \in Threads, LeaseSlot(th) PROVE TypeOK'
  <2>1. PICK p \in {"send", "drain lease"} : Goto(th, p)
    BY <1>7 DEF LeaseSlot
  <2>2. pc' \in [Threads -> PC]
    BY <2>1, GotoChanges DEF PC, Draining
  <2>3. lease[th].slot \in Slots
    BY <1>7 DEF LeaseSlot, ThreadInv
  <2>4. lease' \in [Threads -> Lease]
    <3>1. CASE lease' = [lease EXCEPT ![th] = NoLease]
      BY <3>1, LeaseChanges DEF Lease, NoLease
    <3>2. CASE lease' = [lease EXCEPT ![th].gen = connection[lease[th].slot]]
      <4>0. lease[th] \in Lease /\ connection[lease[th].slot] \in Generations \cup {None}
        BY <2>3 DEF Lease, TypeOK
      <4>1. [lease[th] EXCEPT !.gen = connection[lease[th].slot]] \in Lease
        BY <4>0, LeaseWithGen
      <4>2. lease' = [lease EXCEPT ![th] = [lease[th] EXCEPT !.gen = connection[lease[th].slot]]]
        BY <3>2
      <4>3. QED BY <4>1, <4>2, LeaseChanges
    <3>3. QED BY <1>7, <3>1, <3>2 DEF LeaseSlot
  <2>5. available' \subseteq Slots /\ busy' \subseteq Slots
    BY <1>7, <2>3 DEF LeaseSlot, TypeOK
  <2>6. QED
    BY <1>7, <2>2, <2>4, <2>5 DEF LeaseSlot, TypeOK, Lease, fenceVars, pipeVars, processVars, resultVars
<1>8. ASSUME NEW th \in Threads, Send(th) PROVE TypeOK'
  <2>1. lease[th].slot \in Slots /\ lease[th].gen \in Generations /\ job[th] \in Jobs
    BY <1>8, WaitingTyped DEF Send
  <2>2. CASE /\ toExecutor' = [toExecutor EXCEPT ![lease[th].slot][lease[th].gen] = Append(@, job[th])]
             /\ Goto(th, "fence") /\ UNCHANGED <<slotVars, outcome>>
    <3>1. toExecutor' \in [Slots -> [Generations -> Seq(Jobs)]]
      BY <2>1, <2>2, SendChanges
    <3>2. pc' \in [Threads -> PC]
      BY <2>2, GotoChanges DEF PC
    <3>3. QED
      BY <1>8, <2>2, <3>1, <3>2 DEF Send, TypeOK, slotVars, fenceVars, processVars
  <2>3. CASE /\ MarkExited(lease[th].slot, lease[th].gen) /\ Return(th, "FAILED")
             /\ UNCHANGED toExecutor
    <3>1. pc' \in [Threads -> PC] /\ outcome' \in [Jobs -> {"none", "COMPLETED", "FAILED"}]
      BY <2>1, <2>3, ReturnChanges
    <3>2. /\ connection' \in [Slots -> Generations \cup {None}]
          /\ exited' \in [Slots -> Generations \cup {None}]
          /\ UNCHANGED <<generation, queue>>
          /\ available' \subseteq available /\ busy' \subseteq busy
      BY <2>1, <2>3, MarkExitedChanges
    <3>3. QED
      BY <1>8, <2>3, <3>1, <3>2 DEF Send, TypeOK, fenceVars, processVars
  <2>4. QED BY <1>8, <2>2, <2>3 DEF Send
<1>9. ASSUME NEW th \in Threads, TakeRequest(th) PROVE TypeOK'
  <2>1. PICK p \in {"serve", "drain wait"} : Goto(th, p)
    BY <1>9 DEF TakeRequest
  <2>2. pc' \in [Threads -> PC]
    BY <2>1, GotoChanges DEF PC, Draining
  <2>3. held' \in [Threads -> Event \cup Request \cup {NoItem}] /\ requests' \in Seq(Request)
    <3>1. CASE requests # <<>>
      <4>1. Head(requests) \in Request /\ Tail(requests) \in Seq(Request)
        BY <3>1, HeadTailElements DEF TypeOK
      <4>2. QED BY <1>9, <3>1, <4>1 DEF TakeRequest, TypeOK
    <3>2. CASE requests = <<>>
      BY <1>9, <3>2 DEF TakeRequest, TypeOK
    <3>3. QED BY <3>1, <3>2
  <2>4. QED
    BY <1>9, <2>2, <2>3 DEF TakeRequest, TypeOK, slotVars, pipeVars, processVars, resultVars
<1>10. ASSUME NEW th \in Threads, ServeRequest(th) PROVE TypeOK'
  <2>1. pc' \in [Threads -> PC]
    BY <1>10, GotoChanges DEF ServeRequest, PC
  <2>2. held[th] \in Request
    BY <1>10 DEF ServeRequest, ThreadInv
  <2>3. PICK ok \in BOOLEAN :
          responses' = [responses EXCEPT ![held[th].slot] =
                          Append(@, [job |-> held[th].job, n |-> held[th].n, ok |-> ok])]
    BY <1>10 DEF ServeRequest
  <2>4. held[th].slot \in Slots /\ [job |-> held[th].job, n |-> held[th].n, ok |-> ok] \in Response
    BY <2>2 DEF Request, Response
  <2>5. responses' \in [Slots -> Seq(Response)]
    BY <2>3, <2>4, AppendElements DEF TypeOK
  <2>6. held' \in [Threads -> Event \cup Request \cup {NoItem}]
    BY <1>10 DEF ServeRequest, TypeOK
  <2>7. QED
    BY <1>10, <2>1, <2>5, <2>6 DEF ServeRequest, TypeOK, slotVars, pipeVars, processVars, resultVars
<1>11. ASSUME NEW th \in Threads, CheckExited(th) PROVE TypeOK'
  <2>1. job[th] \in Jobs
    BY <1>11, WaitingTyped DEF CheckExited
  <2> DEFINE gone == \/ exited[lease[th].slot] = lease[th].gen
                     \/ generation[lease[th].slot] # lease[th].gen
  <2>2. /\ gone => Return(th, "FAILED")
        /\ ~gone => Goto(th, "poll") /\ UNCHANGED outcome
    BY <1>11, Zenon DEF CheckExited
  <2>3. pc' \in [Threads -> PC] /\ outcome' \in [Jobs -> {"none", "COMPLETED", "FAILED"}]
    <3>1. CASE Return(th, "FAILED")
      BY <2>1, <3>1, ReturnChanges
    <3>2. CASE Goto(th, "poll") /\ UNCHANGED outcome
      BY <3>2, GotoChanges DEF PC, TypeOK
    <3>3. QED BY <2>2, <3>1, <3>2
  <2>4. QED
    BY <1>11, <2>3 DEF CheckExited, TypeOK, slotVars, fenceVars, pipeVars, processVars
<1>12. ASSUME NEW th \in Threads, BrokenPipe(th), pc[th] \in {"poll", "recv"},
              UNCHANGED <<events, fenceVars, pipeVars, job, lease, held, processVars, executed>>
       PROVE  TypeOK'
  <2>1. lease[th].slot \in Slots /\ lease[th].gen \in Generations /\ job[th] \in Jobs
    BY <1>12, WaitingTyped
  <2>2. MarkExited(lease[th].slot, lease[th].gen) /\ Return(th, "FAILED")
    BY <1>12 DEF BrokenPipe
  <2>3. pc' \in [Threads -> PC] /\ outcome' \in [Jobs -> {"none", "COMPLETED", "FAILED"}]
    BY <2>1, <2>2, ReturnChanges
  <2>4. /\ connection' \in [Slots -> Generations \cup {None}]
        /\ exited' \in [Slots -> Generations \cup {None}]
        /\ UNCHANGED <<generation, queue>>
        /\ available' \subseteq available /\ busy' \subseteq busy
    BY <2>1, <2>2, MarkExitedChanges
  <2>5. QED
    BY <1>12, <2>3, <2>4 DEF TypeOK, fenceVars, pipeVars, processVars
<1>13. ASSUME NEW th \in Threads, PollPipe(th) PROVE TypeOK'
  <2>1. CASE BrokenPipe(th)
    BY <1>12, <1>13, <2>1 DEF PollPipe
  <2>2. CASE \E p \in {"recv", "fence"} : Goto(th, p) /\ UNCHANGED <<slotVars, outcome>>
    <3>1. pc' \in [Threads -> PC]
      BY <2>2, GotoChanges DEF PC
    <3>2. /\ UNCHANGED <<job, lease, held, executed, events, requests, responses>>
          /\ UNCHANGED <<toExecutor, toBroker, executor, restarting, stuck, slotVars, outcome>>
      BY <1>13, <2>2 DEF PollPipe, fenceVars, pipeVars, processVars
    <3>3. QED BY <3>1, <3>2 DEF TypeOK, slotVars
  <2>3. QED BY <1>13, <2>1, <2>2 DEF PollPipe
<1>14. ASSUME NEW th \in Threads, Recv(th) PROVE TypeOK'
  <2>1. CASE BrokenPipe(th) /\ UNCHANGED toBroker
    BY Zenon, <1>12, <1>14, <2>1 DEF Recv, pipeVars
  <2>2. PICK s \in Slots, g \in Generations : s = lease[th].slot /\ g = lease[th].gen
    BY <1>14, WaitingTyped DEF Recv
  <2>3. job[th] \in Jobs
    BY <1>14, WaitingTyped DEF Recv
  <2>4. CASE /\ toBroker[s][g] # <<>> /\ toBroker' = [toBroker EXCEPT ![s][g] = Tail(@)]
             /\ Return(th, IF Head(toBroker[s][g]).job = job[th] THEN Head(toBroker[s][g]).status ELSE "FAILED")
             /\ UNCHANGED slotVars
    <3>1. toBroker[s][g] \in Seq(Completion) /\ toBroker[s][g] # <<>>
      BY <2>4, ExecutorTyped
    <3>2. PICK c \in Completion : c = Head(toBroker[s][g])
      BY <3>1, HeadTailElements
    <3>3. Tail(toBroker[s][g]) \in Seq(Completion)
      BY <3>1, HeadTailElements
    <3>4. toBroker' \in [Slots -> [Generations -> Seq(Completion)]]
      BY <2>4, <3>3 DEF TypeOK
    <3>5. PICK status \in {"COMPLETED", "FAILED"} : Return(th, status)
      BY <2>4, <3>2 DEF Completion
    <3>6. pc' \in [Threads -> PC] /\ outcome' \in [Jobs -> {"none", "COMPLETED", "FAILED"}]
      BY <2>3, <3>5, ReturnChanges
    <3>7. QED
      BY <1>14, <2>4, <3>4, <3>6 DEF Recv, TypeOK, slotVars, fenceVars, processVars
  <2>5. QED BY <1>14, <2>1, <2>2, <2>4 DEF Recv
<1>15. ASSUME NEW th \in Threads, Release(th) PROVE TypeOK'
  <2>1. lease[th].slot \in Slots
    BY <1>15, WaitingTyped DEF Release
  <2>2. pc' \in [Threads -> PC] /\ lease' \in [Threads -> Lease]
    BY <1>15, GotoChanges, LeaseChanges DEF Release, PC, Lease, NoLease
  <2>3. available' \subseteq Slots /\ queue' \in Seq(Slots)
    BY <1>15, <2>1, MarkAvailableChanges DEF Release, TypeOK
  <2>4. job' \in [Threads -> Jobs \cup {NoJob}] /\ busy' \subseteq Slots
    BY <1>15 DEF Release, TypeOK
  <2>5. QED
    BY <1>15, <2>2, <2>3, <2>4 DEF Release, TypeOK, Lease, fenceVars, pipeVars, processVars, resultVars
<1>16. ASSUME NEW s \in Slots, ReceiveAssignment(s) PROVE TypeOK'
  BY <1>16, ReceiveChanges DEF ReceiveAssignment, TypeOK, Executor, slotVars, fenceVars, threadVars,
                               resultVars
<1>17. ASSUME NEW s \in Slots, RequestSnapshot(s) PROVE TypeOK'
  <2> DEFINE n == executor[s].fences + 1
             r == [slot |-> s, job |-> executor[s].job, n |-> n]
  <2>1. /\ executor[s].job \in Jobs /\ n \in 1..MaxFences /\ n \in 0..MaxFences
    BY <1>17, ExecutorTyped, DispatchAssumption DEF RequestSnapshot, ExecutorInv
  <2>2. r \in Request
    BY <2>1 DEF Request
  <2>3. requests' = Append(requests, r) /\ SetExecutor(s, "fence", executor[s].job, n)
    BY <1>17 DEF RequestSnapshot
  <2> HIDE DEF n, r
  <2>4. requests' \in Seq(Request) /\ executor' \in [Slots -> Executor]
    BY <2>1, <2>2, <2>3, AppendElements, SetExecutorChanges DEF TypeOK
  <2>5. QED
    BY <1>17, <2>4 DEF RequestSnapshot, TypeOK, Executor, slotVars, pipeVars, threadVars, resultVars
<1>18. ASSUME NEW s \in Slots, GetSnapshot(s) PROVE TypeOK'
  <2>1. responses[s] # <<>> /\ responses' = [responses EXCEPT ![s] = Tail(@)]
    BY <1>18 DEF GetSnapshot
  <2>2. Tail(responses[s]) \in Seq(Response)
    BY <2>1, HeadTailElements DEF TypeOK
  <2>3. responses' \in [Slots -> Seq(Response)]
    BY <2>1, <2>2 DEF TypeOK
  <2>4. executor[s].job \in Jobs /\ executor[s].fences \in 0..MaxFences
    BY <1>18, ExecutorTyped DEF GetSnapshot, ExecutorInv
  <2>5. \/ /\ SetExecutor(s, "running", executor[s].job, executor[s].fences)
           /\ UNCHANGED <<toBroker, executed>>
        \/ Complete(s, "FAILED")
    BY <1>18 DEF GetSnapshot
  <2>6. /\ executor' \in [Slots -> Executor]
        /\ toBroker' \in [Slots -> [Generations -> Seq(Completion)]]
        /\ executed' \in [Jobs -> {"none", "COMPLETED", "FAILED"}]
    <3>1. CASE Complete(s, "FAILED")
      BY <2>4, <3>1, CompleteChanges
    <3>2. CASE /\ SetExecutor(s, "running", executor[s].job, executor[s].fences)
               /\ UNCHANGED <<toBroker, executed>>
      BY <2>4, <3>2, SetExecutorChanges DEF TypeOK
    <3>3. QED BY <2>5, <3>1, <3>2
  <2>7. QED
    BY <1>18, <2>3, <2>6 DEF GetSnapshot, TypeOK, Executor, slotVars, threadVars
<1>19. ASSUME NEW s \in Slots, FinishTask(s) PROVE TypeOK'
  <2>1. executor[s].job \in Jobs
    BY <1>19, ExecutorTyped DEF FinishTask, ExecutorInv
  <2>2. PICK status \in {"COMPLETED", "FAILED"} : Complete(s, status)
    BY <1>19 DEF FinishTask
  <2>3. /\ executor' \in [Slots -> Executor]
        /\ toBroker' \in [Slots -> [Generations -> Seq(Completion)]]
        /\ executed' \in [Jobs -> {"none", "COMPLETED", "FAILED"}]
    BY <2>1, <2>2, CompleteChanges
  <2>4. QED
    BY <1>19, <2>3 DEF FinishTask, TypeOK, Executor, slotVars, fenceVars, threadVars
<1>20. ASSUME NEW s \in Slots, Die(s) PROVE TypeOK'
  <2>1. executor' \in [Slots -> Executor]
    <3>1. SetExecutor(s, "dead", NoJob, 0) /\ 0 \in 0..MaxFences
      BY <1>20, DispatchAssumption DEF Die
    <3>2. QED BY <3>1, SetExecutorChanges
  <2>2. stuck' \subseteq Slots
    BY <1>20 DEF Die, TypeOK
  <2>3. QED
    BY <1>20, <2>1, <2>2 DEF Die, TypeOK, Executor, slotVars, fenceVars, pipeVars, threadVars, resultVars
<1>21. ASSUME NEW s \in Slots, ReportExit(s) PROVE TypeOK'
  <2>1. [kind |-> "exited", slot |-> s, gen |-> executor[s].gen] \in Event
    BY ExecutorTyped DEF Event
  <2>2. events' \in Seq(Event)
    BY <1>21, <2>1, AppendElements DEF ReportExit, TypeOK
  <2>3. QED
    BY <1>21, <2>2 DEF ReportExit, TypeOK, slotVars, fenceVars, pipeVars, threadVars, resultVars
<1>22. ASSUME NEW s \in Slots, StartReplacement(s) PROVE TypeOK'
  <2>1. executor[s].gen + 1 \in Generations /\ executor' \in [Slots -> Executor]
    BY <1>22, ReplacementChanges
  <2>2. [kind |-> "started", slot |-> s, gen |-> executor[s].gen + 1] \in Event
    BY <2>1 DEF Event
  <2>3. events' \in Seq(Event)
    BY <1>22, <2>2, AppendElements DEF StartReplacement, TypeOK
  <2>4. QED
    BY <1>22, <2>1, <2>3 DEF StartReplacement, TypeOK, Executor, slotVars, fenceVars, pipeVars,
                             threadVars, resultVars
<1>23. CASE Ended \/ UNCHANGED vars
  BY <1>23 DEF Ended, vars, TypeOK
<1>24. QED
  BY <1>1, <1>2, <1>3, <1>4, <1>5, <1>6, <1>7, <1>8, <1>9, <1>10, <1>11, <1>13, <1>14, <1>15,
     <1>16, <1>17, <1>18, <1>19, <1>20, <1>21, <1>22, <1>23
     DEF Next, ThreadStep, ExecutorStep, SupervisorStep

\* A step of one thread is no other's.
LEMMA OthersStay ==
  ASSUME TypeOK, NEW th \in Threads, ThreadStep(th), NEW ot \in Threads, ot # th
  PROVE  pc'[ot] = pc[ot] /\ job'[ot] = job[ot] /\ lease'[ot] = lease[ot] /\ held'[ot] = held[ot]
<1> DEFINE Stays == pc'[ot] = pc[ot] /\ job'[ot] = job[ot] /\ lease'[ot] = lease[ot] /\ held'[ot] = held[ot]
<1> USE DEF Goto, Return
<1>1. ASSUME TakeEvent(th) \/ HandleExited(th) \/ HandleStarted(th) PROVE Stays
  BY <1>1 DEF TypeOK, TakeEvent, HandleExited, HandleStarted
<1>2. ASSUME Drained(th) \/ Execute(th) \/ GetSlot(th) PROVE Stays
  BY <1>2 DEF TypeOK, Drained, Execute, GetSlot
<1>3. ASSUME LeaseSlot(th) PROVE Stays
  <2>1. PICK l : lease' = [lease EXCEPT ![th] = l]
    <3>1. CASE lease' = [lease EXCEPT ![th] = NoLease]
      BY <3>1
    <3>2. CASE lease' = [lease EXCEPT ![th].gen = connection[lease[th].slot]]
      BY <3>2
    <3>3. QED BY <1>3, <3>1, <3>2 DEF LeaseSlot
  <2>2. lease'[ot] = lease[ot]
    BY <2>1 DEF TypeOK
  <2>3. QED BY <1>3, <2>2 DEF LeaseSlot, TypeOK
<1>4. ASSUME Send(th) \/ TakeRequest(th) \/ ServeRequest(th) \/ CheckExited(th) PROVE Stays
  <2>1. CASE Send(th)
    BY <2>1 DEF TypeOK, Send
  <2>2. CASE TakeRequest(th) \/ ServeRequest(th)
    BY <2>2 DEF TypeOK, TakeRequest, ServeRequest
  <2>3. CASE CheckExited(th)
    BY <2>3 DEF TypeOK, CheckExited
  <2>4. QED BY <1>4, <2>1, <2>2, <2>3
<1>5. ASSUME PollPipe(th) \/ Recv(th) \/ Release(th) PROVE Stays
  <2>1. CASE PollPipe(th)
    BY <2>1 DEF TypeOK, PollPipe, BrokenPipe
  <2>2. CASE Recv(th)
    <3>1. UNCHANGED <<job, lease, held>>
      BY <2>2 DEF Recv
    <3>2. PICK p : pc' = [pc EXCEPT ![th] = p]
      BY <2>2 DEF Recv, BrokenPipe
    <3>3. QED BY <3>1, <3>2 DEF TypeOK
  <2>3. CASE Release(th)
    BY Zenon, <2>3 DEF TypeOK, Release
  <2>4. QED BY <1>5, <2>1, <2>2, <2>3
<1>6. QED BY <1>1, <1>2, <1>3, <1>4, <1>5, Zenon DEF ThreadStep

\* Executors do not read what threads keep, and threads do not run jobs.
LEMMA ThreadSteps ==
  ASSUME NEW th \in Threads, ThreadStep(th)
  PROVE  UNCHANGED <<executor, restarting, executed>>
BY DEF ThreadStep, TakeEvent, HandleExited, HandleStarted, Drained, Execute, GetSlot, LeaseSlot, Send,
       TakeRequest, ServeRequest, CheckExited, PollPipe, Recv, Release, processVars, resultVars

LEMMA ProcessSteps ==
  ASSUME NEW s \in Slots, ExecutorStep(s) \/ SupervisorStep(s) \/ Die(s)
  PROVE  UNCHANGED <<slotVars, threadVars, outcome>>
BY DEF ExecutorStep, SupervisorStep, ReceiveAssignment, RequestSnapshot, GetSnapshot, FinishTask, Die,
       ReportExit, StartReplacement, resultVars

\* A thread goes on holding what its place requires.
LEMMA ThreadKept ==
  ASSUME TypeOK, \A th \in Threads : ThreadInv(th), [Next]_vars, NEW ot \in Threads
  PROVE  ThreadInv(ot)'
<1>1. ASSUME UNCHANGED threadVars PROVE ThreadInv(ot)'
  BY <1>1, Zenon DEF threadVars, ThreadInv
<1>2. ASSUME NEW th \in Threads, ThreadStep(th), th # ot PROVE ThreadInv(ot)'
  BY <1>2, OthersStay DEF ThreadInv
<1>3. ASSUME ThreadStep(ot) PROVE ThreadInv(ot)'
  <2>0. ThreadInv(ot) /\ NoItem \notin Event
    BY DEF Event, NoItem
  <2> USE DEF ThreadInv, TypeOK, Unleased, Draining
  <2>1. ASSUME TakeEvent(ot) PROVE ThreadInv(ot)'
    <3>1. Head(events) \in Event
      BY <2>1, HeadTailElements DEF TakeEvent
    <3>2. held'[ot] \in Event \cup {NoItem} /\ UNCHANGED <<pc, job, lease>>
      BY <2>1, <3>1 DEF TakeEvent
    <3>3. pc[ot] \in Draining
      BY <2>1 DEF TakeEvent
    <3>4. QED BY <2>0, <3>2, <3>3
  <2>2. ASSUME HandleExited(ot) \/ HandleStarted(ot) PROVE ThreadInv(ot)'
    <3>1. held'[ot] = NoItem /\ UNCHANGED <<pc, job, lease>> /\ pc[ot] \in Draining
      BY <2>2 DEF HandleExited, HandleStarted
    <3>2. QED BY <2>0, <3>1
  <2>3. ASSUME Drained(ot) PROVE ThreadInv(ot)'
    <3>1. /\ UNCHANGED <<job, lease, held>> /\ held[ot] = NoItem
          /\ pc[ot] = "drain lease" => pc'[ot] = "get"
          /\ pc[ot] = "drain wait" => pc'[ot] = "check"
          /\ pc[ot] = "drain release" => pc'[ot] = "release"
          /\ pc[ot] \in Draining
      BY <2>3 DEF Drained, Goto
    <3>2. QED BY <2>0, <3>1
  <2>4. ASSUME Execute(ot) PROVE ThreadInv(ot)'
    <3>1. /\ UNCHANGED <<lease, held>> /\ pc[ot] = "idle" /\ pc'[ot] = "drain lease"
          /\ job'[ot] \in Jobs
      BY <2>4 DEF Execute, Goto
    <3>2. QED BY <2>0, <3>1, DispatchAssumption
  <2>5. ASSUME GetSlot(ot) PROVE ThreadInv(ot)'
    <3>1. CASE queue # <<>>
      <4>1. Head(queue) \in Slots
        BY <3>1, HeadTailElements
      <4>2. UNCHANGED <<job, held>> /\ pc[ot] = "get" /\ pc'[ot] = "lock"
        BY <2>5, <3>1 DEF GetSlot, Goto
      <4>3. lease' = [lease EXCEPT ![ot] = [slot |-> Head(queue), gen |-> None]]
        BY <2>5, <3>1 DEF GetSlot
      <4>4. lease'[ot].slot = Head(queue) /\ lease'[ot].gen = None
        BY <4>3
      <4>5. QED BY <2>0, <4>1, <4>2, <4>4
    <3>2. CASE queue = <<>>
      <4>1. UNCHANGED <<job, held, lease>> /\ pc[ot] = "get" /\ pc'[ot] = "drain lease"
        BY <2>5, <3>2 DEF GetSlot, Goto
      <4>2. QED BY <2>0, <4>1
    <3>3. QED BY <3>1, <3>2
  <2>6. ASSUME LeaseSlot(ot) PROVE ThreadInv(ot)'
    BY <2>0, <2>6, LeaseSlotChanges
  <2>7. ASSUME Send(ot) \/ CheckExited(ot) \/ PollPipe(ot) \/ Recv(ot) PROVE ThreadInv(ot)'
    <3>1. /\ UNCHANGED <<job, lease, held>> /\ pc[ot] \in {"send", "check", "poll", "recv"}
          /\ pc'[ot] \in {"fence", "drain release", "poll", "recv"}
      BY <2>7 DEF Send, CheckExited, PollPipe, Recv, BrokenPipe, Return, Goto
    <3>2. QED BY <2>0, <3>1
  <2>8. ASSUME TakeRequest(ot) PROVE ThreadInv(ot)'
    <3>1. CASE requests # <<>>
      <4>1. Head(requests) \in Request
        BY <3>1, HeadTailElements
      <4>2. /\ UNCHANGED <<job, lease>> /\ pc[ot] = "fence" /\ pc'[ot] = "serve"
            /\ held'[ot] \in Request
        BY <2>8, <3>1, <4>1 DEF TakeRequest, Goto
      <4>3. QED BY <2>0, <4>2
    <3>2. CASE requests = <<>>
      <4>1. UNCHANGED <<job, lease, held>> /\ pc[ot] = "fence" /\ pc'[ot] = "drain wait"
        BY <2>8, <3>2 DEF TakeRequest, Goto
      <4>2. QED BY <2>0, <4>1
    <3>3. QED BY <3>1, <3>2
  <2>9. ASSUME ServeRequest(ot) PROVE ThreadInv(ot)'
    <3>1. /\ UNCHANGED <<job, lease>> /\ pc[ot] = "serve" /\ pc'[ot] = "fence"
          /\ held'[ot] = NoItem
      BY <2>9 DEF ServeRequest, Goto
    <3>2. QED BY <2>0, <3>1
  <2>10. ASSUME Release(ot) PROVE ThreadInv(ot)'
    <3>1. /\ UNCHANGED held /\ pc[ot] = "release" /\ pc'[ot] = "idle"
          /\ lease'[ot] = NoLease /\ job'[ot] = NoJob
      BY <2>10 DEF Release, Goto
    <3>2. QED BY <2>0, <3>1
  <2>11. QED
    BY <1>3, <2>1, <2>2, <2>3, <2>4, <2>5, <2>6, <2>7, <2>8, <2>9, <2>10, Zenon DEF ThreadStep
<1>4. ASSUME NEW s \in Slots, ExecutorStep(s) \/ SupervisorStep(s) \/ Die(s)
      PROVE  UNCHANGED threadVars
  BY <1>4, ProcessSteps
<1>5. ASSUME Ended \/ UNCHANGED vars PROVE UNCHANGED threadVars
  BY <1>5 DEF Ended, vars, threadVars
<1>6. QED
  BY <1>1, <1>2, <1>3, <1>4, <1>5 DEF Next

\* An executor goes on having a job while it runs one.
LEMMA ExecutorKept ==
  ASSUME TypeOK, \A s \in Slots : ExecutorInv(s), [Next]_vars, NEW r \in Slots
  PROVE  ExecutorInv(r)'
<1>0. None \notin Slots /\ NoJob \notin Jobs /\ 0 \in 0..MaxFences
  BY DispatchAssumption DEF None, Slots
<1>1. ASSUME UNCHANGED <<executor, restarting>> PROVE ExecutorInv(r)'
  BY <1>1 DEF ExecutorInv
<1>2. ASSUME NEW th \in Threads, ThreadStep(th) PROVE UNCHANGED <<executor, restarting>>
  BY <1>2, ThreadSteps
<1>3. ASSUME Ended \/ UNCHANGED vars PROVE UNCHANGED <<executor, restarting>>
  BY <1>3 DEF Ended, vars
<1>4. ASSUME NEW s \in Slots, executor'[s].state # "dead" => restarting' # s,
             \A q \in Slots : q # s => executor'[q] = executor[q] /\ (restarting' = q => restarting = q),
             executor'[s].state \in {"running", "fence"} <=> executor'[s].job # NoJob,
             executor'[s].state = "fence" => executor'[s].fences # 0,
             executor'[s].state = "dead" => executor'[s].gen < MaxGeneration
      PROVE  ExecutorInv(r)'
  BY <1>4 DEF ExecutorInv
<1>5. ASSUME NEW s \in Slots, ExecutorStep(s) \/ SupervisorStep(s) \/ Die(s) PROVE ExecutorInv(r)'
  <2>0. ExecutorInv(s) /\ (executor[s].state # "dead" => restarting # s)
    BY DEF ExecutorInv
  <2>1. CASE ReceiveAssignment(s)
    <3>1. executor[s].state = "idle" /\ restarting' = restarting
      BY <2>1 DEF ReceiveAssignment
    <3>2. /\ executor'[s].state = "running" /\ executor'[s].job \in Jobs
          /\ \A q \in Slots : q # s => executor'[q] = executor[q]
      BY <2>1, ReceiveChanges
    <3>3. QED BY <1>0, <1>4, <2>0, <3>1, <3>2
  <2>2. CASE RequestSnapshot(s)
    <3> DEFINE n == executor[s].fences + 1
    <3>1. executor[s].state = "running" /\ restarting' = restarting /\ executor[s].fences < MaxFences
      BY <2>2 DEF RequestSnapshot
    <3>2. executor[s].job \in Jobs /\ n \in 0..MaxFences /\ n # 0
      BY <2>0, <3>1, ExecutorTyped, DispatchAssumption DEF ExecutorInv
    <3>3. SetExecutor(s, "fence", executor[s].job, n)
      BY <2>2 DEF RequestSnapshot
    <3> HIDE DEF n
    <3>4. /\ executor'[s].gen = executor[s].gen /\ executor'[s].state = "fence"
          /\ executor'[s].job = executor[s].job /\ executor'[s].fences = n
          /\ \A q \in Slots : q # s => executor'[q] = executor[q]
      BY <3>2, <3>3, SetExecutorChanges
    <3>5. QED BY <1>0, <1>4, <2>0, <3>1, <3>2, <3>4
  <2>3. CASE GetSnapshot(s)
    <3>1. executor[s].state = "fence" /\ restarting' = restarting
      BY <2>3 DEF GetSnapshot
    <3>2. executor[s].job \in Jobs /\ executor[s].fences \in 0..MaxFences
      BY <2>0, <3>1, ExecutorTyped DEF ExecutorInv
    <3>3. CASE SetExecutor(s, "running", executor[s].job, executor[s].fences)
      <4>1. /\ executor'[s].state = "running" /\ executor'[s].job = executor[s].job
            /\ \A q \in Slots : q # s => executor'[q] = executor[q]
        BY <3>2, <3>3, SetExecutorChanges
      <4>2. QED BY <1>0, <1>4, <2>0, <3>1, <3>2, <4>1
    <3>4. CASE Complete(s, "FAILED")
      <4>1. /\ executor'[s].state = "idle" /\ executor'[s].job = NoJob
            /\ \A q \in Slots : q # s => executor'[q] = executor[q]
        BY <3>2, <3>4, CompleteChanges
      <4>2. QED BY <1>0, <1>4, <2>0, <3>1, <4>1
    <3>5. QED BY <2>3, <3>3, <3>4 DEF GetSnapshot
  <2>4. CASE FinishTask(s)
    <3>1. executor[s].state = "running" /\ restarting' = restarting
      BY <2>4 DEF FinishTask
    <3>2. executor[s].job \in Jobs
      BY <2>0, <3>1, ExecutorTyped DEF ExecutorInv
    <3>3. PICK status \in {"COMPLETED", "FAILED"} : Complete(s, status)
      BY <2>4 DEF FinishTask
    <3>4. /\ executor'[s].state = "idle" /\ executor'[s].job = NoJob
          /\ \A q \in Slots : q # s => executor'[q] = executor[q]
      BY <3>2, <3>3, CompleteChanges
    <3>5. QED BY <1>0, <1>4, <2>0, <3>1, <3>4
  <2>5. CASE Die(s)
    <3>1. /\ SetExecutor(s, "dead", NoJob, 0) /\ restarting' = restarting
          /\ executor[s].gen < MaxGeneration
      BY <2>5 DEF Die
    <3>2. /\ executor'[s].gen = executor[s].gen /\ executor'[s].state = "dead"
          /\ executor'[s].job = NoJob /\ executor'[s].fences = 0
          /\ \A q \in Slots : q # s => executor'[q] = executor[q]
      BY <1>0, <3>1, SetExecutorChanges
    <3>3. QED BY <1>4, <3>1, <3>2
  <2>6. CASE ReportExit(s)
    BY <1>0, <2>6 DEF ReportExit, ExecutorInv
  <2>7. CASE StartReplacement(s)
    <3>1. restarting' = None
      BY <2>7 DEF StartReplacement
    <3>2. /\ executor'[s].state = "idle" /\ executor'[s].job = NoJob
          /\ \A q \in Slots : q # s => executor'[q] = executor[q]
      BY <2>0, <2>7, ReplacementChanges
    <3>3. QED BY <1>0, <1>4, <3>1, <3>2
  <2>8. QED
    BY <1>5, <2>1, <2>2, <2>3, <2>4, <2>5, <2>6, <2>7, Zenon DEF ExecutorStep, SupervisorStep
<1>6. QED BY <1>1, <1>2, <1>3, <1>5 DEF Next

\* What a thread's step does to its job: it goes on, ends it, starts it or drops it.
LEMMA JobSteps ==
  ASSUME TypeOK, NEW th \in Threads, ThreadInv(th), ThreadStep(th)
  PROVE  \/ /\ UNCHANGED <<job, outcome>> /\ (pc[th] \in Returned <=> pc'[th] \in Returned)
            /\ pc'[th] \in Unsent => pc[th] \in Unsent
         \/ /\ UNCHANGED job /\ pc[th] \notin Returned \cup {"idle"} /\ pc'[th] = "drain release"
            /\ \E status \in {"COMPLETED", "FAILED"} : Return(th, status)
         \/ Execute(th)
         \/ Release(th)
<1> DEFINE GoesOn == /\ UNCHANGED <<job, outcome>> /\ (pc[th] \in Returned <=> pc'[th] \in Returned)
                     /\ pc'[th] \in Unsent => pc[th] \in Unsent
           Ends == /\ UNCHANGED job /\ pc[th] \notin Returned \cup {"idle"} /\ pc'[th] = "drain release"
                   /\ \E status \in {"COMPLETED", "FAILED"} : Return(th, status)
<1> USE DEF TypeOK, Returned, Unsent
<1>1. ASSUME TakeEvent(th) \/ HandleExited(th) \/ HandleStarted(th) PROVE GoesOn
  BY <1>1 DEF TakeEvent, HandleExited, HandleStarted, resultVars
<1>2. ASSUME Drained(th) PROVE GoesOn
  BY <1>2 DEF Drained, Goto, Draining, resultVars
<1>3. ASSUME GetSlot(th) PROVE GoesOn
  BY <1>3 DEF GetSlot, Goto, resultVars
<1>4. ASSUME LeaseSlot(th) PROVE GoesOn
  <2>1. UNCHANGED <<job, outcome>> /\ pc[th] = "lock"
    BY <1>4 DEF LeaseSlot, resultVars
  <2>2. pc'[th] \in {"send", "drain lease"}
    BY <1>4 DEF LeaseSlot, Goto
  <2>3. QED BY <2>1, <2>2
<1>5. ASSUME TakeRequest(th) \/ ServeRequest(th) PROVE GoesOn
  BY <1>5 DEF TakeRequest, ServeRequest, Goto, resultVars
<1>6. ASSUME NEW status \in {"COMPLETED", "FAILED"}, Return(th, status), UNCHANGED job,
             pc[th] \in {"send", "check", "poll", "recv"}
      PROVE  Ends
  BY <1>6 DEF Return, Goto
<1>7. ASSUME Send(th) PROVE GoesOn \/ Ends
  <2>1. CASE Return(th, "FAILED")
    BY <1>6, <1>7, <2>1 DEF Send
  <2>2. CASE Goto(th, "fence") /\ UNCHANGED outcome
    BY <1>7, <2>2 DEF Send, Goto
  <2>3. QED BY <1>7, <2>1, <2>2 DEF Send
<1>8. ASSUME CheckExited(th) PROVE GoesOn \/ Ends
  <2>1. CASE Return(th, "FAILED")
    BY <1>6, <1>8, <2>1 DEF CheckExited
  <2>2. CASE Goto(th, "poll") /\ UNCHANGED outcome
    BY <1>8, <2>2 DEF CheckExited, Goto
  <2>3. Return(th, "FAILED") \/ (Goto(th, "poll") /\ UNCHANGED outcome)
    BY <1>8, Zenon DEF CheckExited
  <2>4. QED BY <2>1, <2>2, <2>3
<1>9. ASSUME PollPipe(th) PROVE GoesOn \/ Ends
  <2>1. CASE BrokenPipe(th)
    BY <1>6, <1>9, <2>1 DEF PollPipe, BrokenPipe
  <2>2. CASE \E p \in {"recv", "fence"} : Goto(th, p) /\ UNCHANGED outcome
    BY <1>9, <2>2 DEF PollPipe, Goto
  <2>3. QED BY <1>9, <2>1, <2>2 DEF PollPipe
<1>10. ASSUME Recv(th) PROVE Ends
  <2>1. CASE BrokenPipe(th)
    BY <1>6, <1>10, <2>1 DEF Recv, BrokenPipe
  <2> DEFINE s == lease[th].slot
             g == lease[th].gen
             c == Head(toBroker[s][g])
  <2>2. CASE toBroker[s][g] # <<>> /\ Return(th, IF c.job = job[th] THEN c.status ELSE "FAILED")
    <3>1. c \in Completion
      <4>1. s \in Slots /\ g \in Generations
        BY <1>10, WaitingTyped DEF Recv
      <4>2. toBroker[s][g] \in Seq(Completion)
        BY <4>1, ExecutorTyped
      <4>3. QED BY <2>2, <4>2, HeadTailElements
    <3>2. PICK status \in {"COMPLETED", "FAILED"} : Return(th, status)
      BY <2>2, <3>1 DEF Completion
    <3>3. QED BY <1>6, <1>10, <3>2 DEF Recv
  <2>3. QED BY <1>10, <2>1, <2>2 DEF Recv
<1>11. QED
  BY <1>1, <1>2, <1>3, <1>4, <1>5, <1>7, <1>8, <1>9, <1>10, Zenon DEF ThreadStep

\* Threads keep different jobs, and a job has a result as long as its thread returns it.
LEMMA ThreadsApartKept ==
  ASSUME TypeOK, \A th \in Threads : ThreadInv(th), ThreadsApart, [Next]_vars
  PROVE  ThreadsApart'
<1>1. ASSUME UNCHANGED <<job, pc, outcome>> PROVE ThreadsApart'
  BY <1>1 DEF ThreadsApart
<1>2. ASSUME NEW s \in Slots, ExecutorStep(s) \/ SupervisorStep(s) \/ Die(s)
      PROVE  UNCHANGED <<job, pc, outcome>>
  BY <1>2, ProcessSteps DEF threadVars
<1>3. ASSUME Ended \/ UNCHANGED vars PROVE UNCHANGED <<job, pc, outcome>>
  BY <1>3 DEF Ended, vars
<1>4. ASSUME NEW th \in Threads, ThreadStep(th) PROVE ThreadsApart'
  <2>0. \A ot \in Threads : ot # th => job'[ot] = job[ot] /\ pc'[ot] = pc[ot]
    BY <1>4, OthersStay
  <2>1. CASE UNCHANGED <<job, outcome>> /\ (pc[th] \in Returned <=> pc'[th] \in Returned)
    BY <2>0, <2>1 DEF ThreadsApart
  <2>2. CASE /\ UNCHANGED job /\ pc[th] \notin Returned \cup {"idle"} /\ pc'[th] = "drain release"
             /\ \E status \in {"COMPLETED", "FAILED"} : Return(th, status)
    <3>1. job[th] \in Jobs
      BY <2>2, WaitingTyped
    <3>2. PICK status \in {"COMPLETED", "FAILED"} : Return(th, status)
      BY <2>2
    <3>3. /\ outcome'[job[th]] # "none"
          /\ \A j \in Jobs : j # job[th] => outcome'[j] = outcome[j]
      BY <3>1, <3>2, ReturnChanges
    <3>4. pc'[th] \in Returned
      BY <2>2 DEF Returned
    <3>5. \A ot \in Threads : job[ot] # NoJob => job[ot] \in Jobs
      BY DEF TypeOK
    <3>6. QED BY <2>0, <2>2, <3>1, <3>3, <3>4, <3>5 DEF ThreadsApart
  <2>3. CASE Execute(th)
    <3>1. PICK j \in Jobs : ~Started(j) /\ job' = [job EXCEPT ![th] = j]
      BY <2>3 DEF Execute
    <3>2. job'[th] = j /\ pc'[th] = "drain lease" /\ UNCHANGED outcome
      BY <2>3, <3>1 DEF Execute, Goto, TypeOK, resultVars
    <3>3. outcome[j] = "none" /\ \A ot \in Threads : job[ot] # j
      BY <3>1 DEF Started
    <3>4. outcome'[job'[th]] = "none" /\ pc'[th] \notin Returned
      BY <3>2, <3>3 DEF Returned
    <3>5. ASSUME NEW at \in Threads, NEW ot \in Threads, job'[at] = job'[ot], job'[at] # NoJob
          PROVE  at = ot
      <4>1. CASE at = th \/ ot = th
        BY <2>0, <3>2, <3>3, <3>5, <4>1
      <4>2. CASE at # th /\ ot # th
        <5>1. job'[at] = job[at] /\ job'[ot] = job[ot]
          BY <2>0, <4>2
        <5>2. QED BY <3>5, <5>1 DEF ThreadsApart
      <4>3. QED BY <4>1, <4>2
    <3>6. ASSUME NEW ot \in Threads, job'[ot] # NoJob
          PROVE  outcome'[job'[ot]] # "none" <=> pc'[ot] \in Returned
      <4>1. CASE ot = th
        BY <3>4, <4>1
      <4>2. CASE ot # th
        <5>1. job'[ot] = job[ot] /\ pc'[ot] = pc[ot]
          BY <2>0, <4>2
        <5>2. outcome[job[ot]] # "none" <=> pc[ot] \in Returned
          BY <3>6, <5>1 DEF ThreadsApart
        <5>3. QED BY <3>2, <5>1, <5>2
      <4>3. QED BY <4>1, <4>2
    <3>7. QED BY <3>5, <3>6 DEF ThreadsApart
  <2>4. CASE Release(th)
    <3>1. job'[th] = NoJob /\ UNCHANGED outcome
      BY <2>4 DEF Release, TypeOK, resultVars
    <3>2. QED BY <2>0, <3>1 DEF ThreadsApart
  <2>5. QED BY <1>4, <2>1, <2>2, <2>3, <2>4, JobSteps
<1>5. QED BY <1>1, <1>2, <1>3, <1>4 DEF Next

\* A job that has been sent stays sent.
LEMMA SentKept ==
  ASSUME TypeOK, \A th \in Threads : ThreadInv(th), ThreadsApart, [Next]_vars, NEW j \in Jobs, Sent(j)
  PROVE  Sent(j)'
<1>1. ASSUME UNCHANGED <<job, pc, outcome>> PROVE Sent(j)'
  BY <1>1 DEF Sent, Started
<1>2. ASSUME NEW s \in Slots, ExecutorStep(s) \/ SupervisorStep(s) \/ Die(s)
      PROVE  UNCHANGED <<job, pc, outcome>>
  BY <1>2, ProcessSteps DEF threadVars
<1>3. ASSUME Ended \/ UNCHANGED vars PROVE UNCHANGED <<job, pc, outcome>>
  BY <1>3 DEF Ended, vars
<1>4. ASSUME NEW th \in Threads, ThreadStep(th) PROVE Sent(j)'
  <2>0. \A ot \in Threads : ot # th => job'[ot] = job[ot] /\ pc'[ot] = pc[ot]
    BY <1>4, OthersStay
  <2>1. CASE UNCHANGED <<job, outcome>> /\ (pc'[th] \in Unsent => pc[th] \in Unsent)
    BY <2>0, <2>1 DEF Sent, Started
  <2>2. CASE /\ UNCHANGED job /\ pc[th] \notin Returned \cup {"idle"} /\ pc'[th] = "drain release"
             /\ \E status \in {"COMPLETED", "FAILED"} : Return(th, status)
    <3>1. job[th] \in Jobs
      BY <2>2, WaitingTyped
    <3>2. PICK status \in {"COMPLETED", "FAILED"} : Return(th, status)
      BY <2>2
    <3>3. outcome[j] # "none" => outcome'[j] # "none"
      BY <3>1, <3>2, ReturnChanges
    <3>4. QED BY <2>0, <2>2, <3>3 DEF Sent, Started, Unsent
  <2>3. CASE Execute(th)
    <3>1. PICK i \in Jobs : ~Started(i) /\ job' = [job EXCEPT ![th] = i]
      BY <2>3 DEF Execute
    <3>2. job'[th] = i /\ i # j /\ UNCHANGED outcome /\ job[th] = NoJob /\ j # NoJob
      BY <2>3, <3>1, DispatchAssumption DEF Execute, TypeOK, resultVars, Sent, ThreadInv
    <3>3. QED BY <2>0, <3>2 DEF Sent, Started
  <2>4. CASE Release(th)
    <3>1. job'[th] = NoJob /\ UNCHANGED outcome /\ j # NoJob /\ pc[th] \in Returned
      BY <2>4, DispatchAssumption DEF Release, TypeOK, resultVars, Returned
    <3>2. job[th] = j => outcome[j] # "none"
      BY <3>1 DEF ThreadsApart
    <3>3. QED BY <2>0, <3>1, <3>2 DEF Sent, Started
  <2>5. QED BY <1>4, <2>1, <2>2, <2>3, <2>4, JobSteps
<1>5. QED BY <1>1, <1>2, <1>3, <1>4 DEF Next

\* Steps that send, take and end no job keep its run one.
LEMMA OneRunFramed ==
  ASSUME TypeOK, OneRun, \A j \in Jobs : Sent(j) => Sent(j)',
         UNCHANGED <<toExecutor, executed>>,
         \A s \in Slots : executor'[s].job \in {executor[s].job, NoJob}
  PROVE  OneRun'
<1>1. \A s \in Slots, g \in Generations : toExecutor[s][g] \in Seq(Jobs) /\ NoJob \notin Elements(toExecutor[s][g])
  BY ExecutorTyped, DispatchAssumption DEF Elements
<1>2. \A j \in Jobs : j # NoJob
  BY DispatchAssumption
<1>3. \A s, r \in Slots, h \in Generations : executor'[s].job \notin Elements(toExecutor[r][h])
  BY <1>1 DEF OneRun
<1>4. \A s, r \in Slots : executor'[s].job = executor'[r].job /\ executor'[s].job # NoJob => s = r
  BY DEF OneRun
<1>5. \A s \in Slots, g \in Generations, j \in Jobs :
        j \in Elements(toExecutor[s][g]) \/ executor'[s].job = j => Sent(j)' /\ executed[j] = "none"
  BY <1>2 DEF OneRun
<1>6. QED BY <1>3, <1>4, <1>5 DEF OneRun

\* A job that nothing has run or will run can be put into a pipe.
LEMMA OneRunGrown ==
  ASSUME OneRun, \A j \in Jobs : Sent(j) => Sent(j)',
         NEW s \in Slots, NEW g \in Generations, NEW j \in Jobs, Sent(j)', executed[j] = "none",
         \A r \in Slots, h \in Generations : j \notin Elements(toExecutor[r][h]),
         \A r \in Slots : executor[r].job # j,
         UNCHANGED <<executor, executed>>,
         \A r \in Slots, h \in Generations : Distinct(toExecutor'[r][h]),
         \A r \in Slots, h \in Generations : \A i \in Elements(toExecutor'[r][h]) :
           i \in Elements(toExecutor[r][h]) \/ (i = j /\ r = s /\ h = g)
  PROVE  OneRun'
<1>1. ASSUME NEW q \in Slots, NEW r \in Slots, NEW f \in Generations, NEW h \in Generations,
             NEW i \in Jobs, i \in Elements(toExecutor'[q][f]), i \in Elements(toExecutor'[r][h])
      PROVE  q = r /\ f = h
  <2>1. i \in Elements(toExecutor[q][f]) \/ (i = j /\ q = s /\ f = g)
    BY <1>1
  <2>2. i \in Elements(toExecutor[r][h]) \/ (i = j /\ r = s /\ h = g)
    BY <1>1
  <2>3. CASE i = j
    BY <2>1, <2>2, <2>3
  <2>4. CASE i # j
    BY <2>1, <2>2, <2>4 DEF OneRun
  <2>5. QED BY <2>3, <2>4
<1>2. \A q, r \in Slots, h \in Generations : executor[q].job \notin Elements(toExecutor'[r][h])
  BY DEF OneRun
<1>3. ASSUME NEW r \in Slots, NEW h \in Generations, NEW i \in Jobs,
             i \in Elements(toExecutor'[r][h]) \/ executor[r].job = i
      PROVE  Sent(i)' /\ executed[i] = "none"
  BY <1>3 DEF OneRun
<1>4. \A i \in Jobs : executed[i] # "none" => Sent(i)'
  BY DEF OneRun
<1>5. \A q, r \in Slots : executor[q].job = executor[r].job /\ executor[q].job # NoJob => q = r
  BY DEF OneRun
<1>6. QED BY <1>1, <1>2, <1>3, <1>4, <1>5 DEF OneRun

\* What a thread sends is added to the pipe of the process it leases.
LEMMA SentThere ==
  ASSUME TypeOK, NEW th \in Threads, ThreadInv(th), Send(th), ~UNCHANGED toExecutor
  PROVE  \E s \in Slots, g \in Generations, j \in Jobs :
           /\ s = lease[th].slot /\ g = lease[th].gen /\ j = job[th]
           /\ Elements(toExecutor'[s][g]) = Elements(toExecutor[s][g]) \cup {j}
           /\ \A r \in Slots, h \in Generations : r # s \/ h # g => toExecutor'[r][h] = toExecutor[r][h]
<1>1. PICK s \in Slots, g \in Generations, j \in Jobs : s = lease[th].slot /\ g = lease[th].gen /\ j = job[th]
  BY WaitingTyped DEF Send
<1>2. toExecutor' = [toExecutor EXCEPT ![s][g] = Append(@, j)]
  BY <1>1 DEF Send
<1>3. SUFFICES ASSUME TypeOK, toExecutor' = [toExecutor EXCEPT ![s][g] = Append(@, j)]
               PROVE  /\ Elements(toExecutor'[s][g]) = Elements(toExecutor[s][g]) \cup {j}
                      /\ \A r \in Slots, h \in Generations :
                           r # s \/ h # g => toExecutor'[r][h] = toExecutor[r][h]
  BY <1>1, <1>2
<1>4. QED BY ONLY <1>3, SendChanges, s \in Slots, g \in Generations, j \in Jobs

\* The job a thread sends for the first time runs nowhere yet.
LEMMA OneRunSent ==
  ASSUME TypeOK, OneRun, ThreadsApart, \A j \in Jobs : Sent(j) => Sent(j)',
         NEW th \in Threads, NEW s \in Slots, NEW g \in Generations, NEW j \in Jobs, job[th] = j,
         Send(th), toExecutor' = [toExecutor EXCEPT ![s][g] = Append(@, j)], Goto(th, "fence")
  PROVE  OneRun'
<1>1. j # NoJob
  BY DispatchAssumption
<1>2. ~Sent(j)
  BY <1>1 DEF Send, Sent, Unsent
<1>3. /\ \A r \in Slots, h \in Generations : j \notin Elements(toExecutor[r][h])
      /\ \A r \in Slots : executor[r].job # j
      /\ executed[j] = "none"
  BY <1>1, <1>2 DEF OneRun
<1>4. UNCHANGED <<executor, executed, job>>
  BY DEF Send, processVars
<1>5. Sent(j)'
  <2>1. pc'[th] = "fence" /\ \A ot \in Threads : ot # th => job[ot] # j
    BY <1>1 DEF Goto, TypeOK, ThreadsApart
  <2>2. QED BY <1>4, <2>1 DEF Sent, Started, Unsent
<1>6. /\ Elements(toExecutor'[s][g]) = Elements(toExecutor[s][g]) \cup {j}
      /\ Distinct(toExecutor[s][g]) /\ j \notin Elements(toExecutor[s][g]) => Distinct(toExecutor'[s][g])
      /\ \A r \in Slots, h \in Generations : r # s \/ h # g => toExecutor'[r][h] = toExecutor[r][h]
  BY ONLY TypeOK, toExecutor' = [toExecutor EXCEPT ![s][g] = Append(@, j)], SendChanges,
          s \in Slots, g \in Generations, j \in Jobs
<1>7. \A r \in Slots, h \in Generations : Distinct(toExecutor[r][h])
  BY DEF OneRun
<1>8. ASSUME NEW r \in Slots, NEW h \in Generations PROVE Distinct(toExecutor'[r][h])
  <2>1. CASE r = s /\ h = g
    BY <1>3, <1>6, <1>7, <2>1, Zenon
  <2>2. CASE ~(r = s /\ h = g)
    <3>1. toExecutor'[r][h] = toExecutor[r][h]
      BY <1>6, <2>2
    <3>2. QED BY <1>7, <3>1
  <2>3. QED BY <2>1, <2>2
<1>9. ASSUME NEW r \in Slots, NEW h \in Generations, NEW i \in Elements(toExecutor'[r][h])
      PROVE  i \in Elements(toExecutor[r][h]) \/ (i = j /\ r = s /\ h = g)
  BY <1>6, <1>9
<1>10. QED BY <1>3, <1>4, <1>5, <1>8, <1>9, OneRunGrown

\* An assignment that is taken leaves the pipe it was in.
LEMMA OneRunReceived ==
  ASSUME TypeOK, OneRun, \A j \in Jobs : Sent(j) => Sent(j)', NEW s \in Slots, ExecutorInv(s),
         ReceiveAssignment(s)
  PROVE  OneRun'
<1>1. PICK g \in Generations : g = executor[s].gen
  BY ExecutorTyped
<1>2. toExecutor[s][g] \in Seq(Jobs) /\ toExecutor[s][g] # <<>>
  BY <1>1, ExecutorTyped DEF ReceiveAssignment
<1>3. PICK j \in Jobs : j = Head(toExecutor[s][g])
  BY <1>2, HeadTailElements
<1>4. /\ toExecutor'[s][g] = Tail(toExecutor[s][g])
      /\ \A r \in Slots, h \in Generations : r # s \/ h # g => toExecutor'[r][h] = toExecutor[r][h]
  BY <1>1, ReceiveChanges
<1>5. executor'[s].job = j /\ \A r \in Slots : r # s => executor'[r] = executor[r]
  BY <1>1, <1>3, ReceiveChanges
<1>6. /\ Elements(toExecutor[s][g]) = {j} \cup Elements(toExecutor'[s][g])
      /\ Distinct(toExecutor'[s][g]) /\ j \notin Elements(toExecutor'[s][g])
  BY <1>2, <1>3, <1>4, HeadTailElements DEF OneRun
<1>7. UNCHANGED executed
  BY DEF ReceiveAssignment, resultVars
<1>8. ASSUME NEW r \in Slots, NEW h \in Generations
      PROVE  /\ Elements(toExecutor'[r][h]) \subseteq Elements(toExecutor[r][h])
             /\ Distinct(toExecutor'[r][h]) /\ j \notin Elements(toExecutor'[r][h])
  <2>1. CASE r = s /\ h = g
    BY <1>6, <2>1
  <2>2. CASE ~(r = s /\ h = g)
    <3>1. toExecutor'[r][h] = toExecutor[r][h]
      BY <1>4, <2>2
    <3>2. j \notin Elements(toExecutor[r][h])
      BY <1>6, <2>2 DEF OneRun
    <3>3. QED BY <3>1, <3>2 DEF OneRun
  <2>3. QED BY <2>1, <2>2
<1>9. \A r \in Slots : executor[r].job # j
  BY <1>6 DEF OneRun
<1>10. ASSUME NEW q \in Slots, NEW r \in Slots, NEW h \in Generations
       PROVE  executor'[q].job \notin Elements(toExecutor'[r][h])
  <2>1. CASE q = s
    BY <1>5, <1>8, <2>1
  <2>2. CASE q # s
    <3>1. executor[q].job \notin Elements(toExecutor[r][h])
      BY DEF OneRun
    <3>2. executor'[q] = executor[q] /\ Elements(toExecutor'[r][h]) \subseteq Elements(toExecutor[r][h])
      BY <1>5, <1>8, <2>2
    <3>3. QED BY <3>1, <3>2
  <2>3. QED BY <2>1, <2>2
<1>11. \A q, r \in Slots : executor'[q].job = executor'[r].job /\ executor'[q].job # NoJob => q = r
  BY <1>5, <1>9 DEF OneRun
<1>12. Sent(j)' /\ executed[j] = "none"
  BY <1>6 DEF OneRun
<1>13. ASSUME NEW r \in Slots, NEW h \in Generations, NEW i \in Jobs,
              i \in Elements(toExecutor'[r][h]) \/ executor'[r].job = i
       PROVE  Sent(i)' /\ executed[i] = "none"
  BY <1>5, <1>8, <1>12, <1>13 DEF OneRun
<1>14. \A q, r \in Slots, f, h \in Generations, i \in Jobs :
        i \in Elements(toExecutor'[q][f]) /\ i \in Elements(toExecutor'[r][h]) => q = r /\ f = h
  BY <1>8 DEF OneRun
<1>15. \A i \in Jobs : executed[i] # "none" => Sent(i)'
  BY DEF OneRun
<1>16. QED BY <1>7, <1>8, <1>10, <1>11, <1>13, <1>14, <1>15 DEF OneRun

\* The run that ends was its job's only one, and the job runs no more.
LEMMA OneRunCompleted ==
  ASSUME TypeOK, OneRun, \A j \in Jobs : Sent(j) => Sent(j)', NEW s \in Slots,
         NEW j \in Jobs, executor[s].job = j, NEW status \in {"COMPLETED", "FAILED"},
         Complete(s, status), UNCHANGED toExecutor
  PROVE  OneRun'
<1>1. NoJob \notin Jobs /\ j # NoJob
  BY DispatchAssumption
<1>2. /\ executed'[j] = status /\ \A i \in Jobs : i # j => executed'[i] = executed[i]
      /\ executor'[s].job = NoJob /\ \A r \in Slots : r # s => executor'[r] = executor[r]
  BY CompleteChanges
<1>3. Sent(j)' /\ \A r \in Slots, h \in Generations : j \notin Elements(toExecutor[r][h])
  BY ExecutorTyped DEF OneRun
<1>4. \A r \in Slots : r # s => executor[r].job # j
  BY <1>1 DEF OneRun
<1>5. \A r \in Slots, h \in Generations : NoJob \notin Elements(toExecutor[r][h])
  BY <1>1, ExecutorTyped DEF Elements
<1>6. \A q, r \in Slots, h \in Generations : executor'[q].job \notin Elements(toExecutor[r][h])
  BY <1>2, <1>5 DEF OneRun
<1>7. \A q, r \in Slots : executor'[q].job = executor'[r].job /\ executor'[q].job # NoJob => q = r
  BY <1>2 DEF OneRun
<1>8. ASSUME NEW r \in Slots, NEW h \in Generations, NEW i \in Jobs,
             i \in Elements(toExecutor[r][h]) \/ executor'[r].job = i
      PROVE  Sent(i)' /\ executed'[i] = "none"
  <2>1. i # j
    BY <1>1, <1>2, <1>3, <1>4, <1>8
  <2>2. i \in Elements(toExecutor[r][h]) \/ executor[r].job = i
    BY <1>1, <1>2, <1>8
  <2>3. QED BY <1>2, <2>1, <2>2 DEF OneRun
<1>9. \A i \in Jobs : executed'[i] # "none" => Sent(i)'
  BY <1>2, <1>3 DEF OneRun
<1>10. QED BY <1>6, <1>7, <1>8, <1>9 DEF OneRun

\* A job is run once.
LEMMA OneRunKept ==
  ASSUME TypeOK, \A th \in Threads : ThreadInv(th), \A s \in Slots : ExecutorInv(s),
         ThreadsApart, OneRun, [Next]_vars
  PROVE  OneRun'
<1>0. \A j \in Jobs : Sent(j) => Sent(j)'
  BY SentKept
<1>1. ASSUME UNCHANGED <<toExecutor, executed, executor>> PROVE OneRun'
  BY <1>0, <1>1, OneRunFramed
<1>2. ASSUME NEW th \in Threads, ThreadStep(th) PROVE OneRun'
  <2>1. CASE Send(th)
    <3>1. PICK s \in Slots, g \in Generations, j \in Jobs :
            s = lease[th].slot /\ g = lease[th].gen /\ j = job[th]
      <4>1. lease[th].slot \in Slots /\ lease[th].gen \in Generations /\ job[th] \in Jobs
        BY <2>1, WaitingTyped DEF Send
      <4>2. QED BY <4>1
    <3>2. CASE UNCHANGED toExecutor
      BY <1>1, <2>1, <3>2 DEF Send, processVars
    <3>3. CASE toExecutor' = [toExecutor EXCEPT ![s][g] = Append(@, j)] /\ Goto(th, "fence")
      BY <1>0, <2>1, <3>1, <3>3, OneRunSent
    <3>4. QED BY <2>1, <3>1, <3>2, <3>3 DEF Send
  <2>2. CASE ~Send(th)
    BY <1>1, <1>2, <2>2 DEF ThreadStep, TakeEvent, HandleExited, HandleStarted, Drained, Execute, GetSlot,
       LeaseSlot, TakeRequest, ServeRequest, CheckExited, PollPipe, Recv, Release, processVars, pipeVars,
       resultVars
  <2>3. QED BY <2>1, <2>2
<1>3. ASSUME NEW s \in Slots, ExecutorStep(s) \/ SupervisorStep(s) \/ Die(s) PROVE OneRun'
  <2>1. CASE ReceiveAssignment(s)
    BY <1>0, <2>1, OneRunReceived
  <2>2. ASSUME UNCHANGED <<toExecutor, executed>>, executor'[s].job \in {executor[s].job, NoJob},
               \A r \in Slots : r # s => executor'[r] = executor[r]
        PROVE  OneRun'
    BY <1>0, <2>2, OneRunFramed
  <2>3. CASE RequestSnapshot(s)
    <3>1. UNCHANGED <<toExecutor, executed>>
      BY <2>3 DEF RequestSnapshot, pipeVars, resultVars
    <3>2. /\ executor[s].job \in Jobs \cup {NoJob} /\ executor[s].fences + 1 \in 0..MaxFences
          /\ SetExecutor(s, "fence", executor[s].job, executor[s].fences + 1)
      BY <2>3, ExecutorTyped, DispatchAssumption DEF RequestSnapshot
    <3>3. QED BY <2>2, <3>1, <3>2, SetExecutorChanges
  <2>4. ASSUME NEW status \in {"COMPLETED", "FAILED"}, Complete(s, status), UNCHANGED toExecutor,
               executor[s].state \in {"running", "fence"}
        PROVE  OneRun'
    <3>1. PICK j \in Jobs : executor[s].job = j
      BY <2>4, ExecutorTyped DEF ExecutorInv
    <3>2. QED BY <1>0, <2>4, <3>1, OneRunCompleted
  <2>5. CASE GetSnapshot(s)
    <3>1. CASE Complete(s, "FAILED")
      BY <2>4, <2>5, <3>1 DEF GetSnapshot
    <3>2. CASE /\ SetExecutor(s, "running", executor[s].job, executor[s].fences)
               /\ UNCHANGED <<toBroker, executed>>
      <4>1. executor[s].job \in Jobs \cup {NoJob} /\ executor[s].fences \in 0..MaxFences
        BY ExecutorTyped
      <4>2. UNCHANGED <<toExecutor, executed>>
        BY <2>5, <3>2 DEF GetSnapshot
      <4>3. QED BY <2>2, <3>2, <4>1, <4>2, SetExecutorChanges
    <3>3. QED BY <2>5, <3>1, <3>2 DEF GetSnapshot
  <2>6. CASE FinishTask(s)
    BY <2>4, <2>6 DEF FinishTask
  <2>7. CASE Die(s)
    <3>1. SetExecutor(s, "dead", NoJob, 0) /\ 0 \in 0..MaxFences /\ UNCHANGED <<toExecutor, executed>>
      BY <2>7, DispatchAssumption DEF Die, pipeVars, resultVars
    <3>2. QED BY <2>2, <3>1, SetExecutorChanges
  <2>8. CASE ReportExit(s)
    BY <1>1, <2>8 DEF ReportExit, pipeVars, resultVars
  <2>9. CASE StartReplacement(s)
    <3>1. UNCHANGED <<toExecutor, executed>>
      BY <2>9 DEF StartReplacement, pipeVars, resultVars
    <3>2. QED BY <2>2, <2>9, <3>1, ReplacementChanges
  <2>10. QED
    BY <1>3, <2>1, <2>3, <2>5, <2>6, <2>7, <2>8, <2>9, Zenon DEF ExecutorStep, SupervisorStep
<1>4. ASSUME Ended \/ UNCHANGED vars PROVE OneRun'
  <2>1. UNCHANGED <<toExecutor, executed, executor>>
    BY <1>4 DEF Ended, vars
  <2>2. QED BY <1>1, <2>1
<1>5. QED BY <1>2, <1>3, <1>4 DEF Next

\* The completion an executor sends for its job is the only one.
LEMMA CompletionTrue ==
  ASSUME TypeOK, OneRun, TrueCompletions, NEW s \in Slots, executor[s].job \in Jobs,
         NEW status \in {"COMPLETED", "FAILED"}, Complete(s, status)
  PROVE  /\ TrueCompletions'
         /\ \A j \in Jobs : executed[j] # "none" => executed'[j] = executed[j]
<1>1. PICK j \in Jobs, g \in Generations : j = executor[s].job /\ g = executor[s].gen
  BY ExecutorTyped
<1>2. executed[j] = "none"
  BY <1>1 DEF OneRun
<1>3. executed'[j] = status /\ \A i \in Jobs : i # j => executed'[i] = executed[i]
  BY <1>1, CompleteChanges
<1>4. /\ Elements(toBroker'[s][g]) = Elements(toBroker[s][g]) \cup {[job |-> j, status |-> status]}
      /\ \A r \in Slots, h \in Generations : r # s \/ h # g => toBroker'[r][h] = toBroker[r][h]
  BY <1>1, CompleteChanges
<1>5. ASSUME NEW r \in Slots, NEW h \in Generations, NEW c \in Elements(toBroker[r][h])
      PROVE  executed'[c.job] = c.status
  <2>1. c \in Completion
    BY <1>5, ExecutorTyped DEF Elements
  <2>2. c.job \in Jobs /\ c.status # "none" /\ executed[c.job] = c.status
    BY <1>5, <2>1 DEF Completion, TrueCompletions
  <2>3. QED BY <1>2, <1>3, <2>2
<1>6. ASSUME NEW r \in Slots, NEW h \in Generations, NEW c \in Elements(toBroker'[r][h])
      PROVE  executed'[c.job] = c.status
  <2>1. CASE c \in Elements(toBroker[r][h])
    BY <1>5, <2>1
  <2>2. CASE c \notin Elements(toBroker[r][h])
    <3>1. c = [job |-> j, status |-> status]
      BY <1>4, <1>6, <2>2
    <3>2. QED BY <1>3, <3>1
  <2>3. QED BY <2>1, <2>2
<1>7. QED BY <1>2, <1>3, <1>6 DEF TrueCompletions

\* Nobody but the executor that ends a run writes or changes its result.
LEMMA TrueCompletionsKept ==
  ASSUME TypeOK, \A th \in Threads : ThreadInv(th), \A s \in Slots : ExecutorInv(s),
         OneRun, TrueCompletions, [Next]_vars
  PROVE  /\ TrueCompletions'
         /\ \A j \in Jobs : executed[j] # "none" => executed'[j] = executed[j]
<1> DEFINE Kept == /\ TrueCompletions'
                   /\ \A j \in Jobs : executed[j] # "none" => executed'[j] = executed[j]
<1>1. ASSUME UNCHANGED <<toBroker, executed>> PROVE Kept
  BY <1>1 DEF TrueCompletions
<1>2. ASSUME NEW th \in Threads, ThreadStep(th) PROVE Kept
  <2>1. CASE Recv(th)
    <3>1. UNCHANGED executed
      BY <2>1 DEF Recv
    <3>2. CASE UNCHANGED toBroker
      BY <1>1, <3>1, <3>2
    <3>3. CASE /\ toBroker[lease[th].slot][lease[th].gen] # <<>>
               /\ toBroker' = [toBroker EXCEPT ![lease[th].slot][lease[th].gen] = Tail(@)]
      <4>1. PICK s \in Slots, g \in Generations : s = lease[th].slot /\ g = lease[th].gen
        <5>1. lease[th].slot \in Slots /\ lease[th].gen \in Generations
          BY <2>1, WaitingTyped DEF Recv
        <5>2. QED BY <5>1
      <4>2. toBroker[s][g] \in Seq(Completion) /\ toBroker[s][g] # <<>>
        BY <3>3, <4>1, ExecutorTyped
      <4>3. Elements(Tail(toBroker[s][g])) \subseteq Elements(toBroker[s][g])
        BY <4>2, HeadTailElements
      <4>4. /\ toBroker'[s][g] = Tail(toBroker[s][g])
            /\ \A r \in Slots, h \in Generations : r # s \/ h # g => toBroker'[r][h] = toBroker[r][h]
        BY <3>3, <4>1 DEF TypeOK
      <4>5. ASSUME NEW r \in Slots, NEW h \in Generations
            PROVE  Elements(toBroker'[r][h]) \subseteq Elements(toBroker[r][h])
        BY <4>3, <4>4
      <4>6. QED BY <3>1, <4>5 DEF TrueCompletions
    <3>4. QED BY <2>1, <3>2, <3>3 DEF Recv
  <2>2. CASE ~Recv(th)
    BY <1>1, <1>2, <2>2 DEF ThreadStep, TakeEvent, HandleExited, HandleStarted, Drained, Execute, GetSlot,
       LeaseSlot, Send, TakeRequest, ServeRequest, CheckExited, PollPipe, Release, pipeVars, resultVars
  <2>3. QED BY <2>1, <2>2
<1>3. ASSUME NEW s \in Slots, ExecutorStep(s) \/ SupervisorStep(s) \/ Die(s) PROVE Kept
  <2>1. ASSUME executor[s].state \in {"running", "fence"}, NEW status \in {"COMPLETED", "FAILED"},
               Complete(s, status)
        PROVE  Kept
    <3>1. executor[s].job \in Jobs
      BY <2>1, ExecutorTyped DEF ExecutorInv
    <3>2. QED BY <2>1, <3>1, CompletionTrue
  <2>2. CASE GetSnapshot(s)
    BY <1>1, <2>1, <2>2 DEF GetSnapshot
  <2>3. CASE FinishTask(s)
    BY <2>1, <2>3 DEF FinishTask
  <2>4. CASE ~GetSnapshot(s) /\ ~FinishTask(s)
    BY <1>1, <1>3, <2>4 DEF ExecutorStep, SupervisorStep, ReceiveAssignment, RequestSnapshot, Die,
       ReportExit, StartReplacement, pipeVars, resultVars
  <2>5. QED BY <2>2, <2>3, <2>4
<1>4. ASSUME Ended \/ UNCHANGED vars PROVE Kept
  <2>1. UNCHANGED <<toBroker, executed>>
    BY <1>4 DEF Ended, vars
  <2>2. QED BY <1>1, <2>1
<1>5. QED BY <1>2, <1>3, <1>4 DEF Next

\* A thread reports COMPLETED with a completion of its own job.
LEMMA OwnResultKept ==
  ASSUME TypeOK, \A th \in Threads : ThreadInv(th), \A s \in Slots : ExecutorInv(s),
         OneRun, TrueCompletions, OwnResultOnly, [Next]_vars
  PROVE  OwnResultOnly'
<1>0. \A j \in Jobs : executed[j] # "none" => executed'[j] = executed[j]
  BY TrueCompletionsKept
<1>1. ASSUME UNCHANGED outcome PROVE OwnResultOnly'
  BY <1>0, <1>1 DEF OwnResultOnly
<1>2. ASSUME NEW th \in Threads, job[th] \in Jobs, NEW status \in {"COMPLETED", "FAILED"},
             Return(th, status), status = "COMPLETED" => executed[job[th]] = "COMPLETED"
      PROVE  OwnResultOnly'
  <2>1. /\ outcome'[job[th]] = status
        /\ \A j \in Jobs : j # job[th] => outcome'[j] = outcome[j]
    BY <1>2, ReturnChanges
  <2>2. QED BY <1>0, <1>2, <2>1 DEF OwnResultOnly
<1>3. ASSUME NEW th \in Threads, ThreadStep(th) PROVE OwnResultOnly'
  <2>0. pc[th] # "idle" => job[th] \in Jobs
    BY WaitingTyped
  <2>1. CASE Return(th, "FAILED") /\ pc[th] # "idle"
    BY <1>2, <2>0, <2>1
  <2>2. CASE Recv(th)
    <3>1. pc[th] # "idle"
      BY <2>2 DEF Recv
    <3>2. CASE BrokenPipe(th)
      BY <2>1, <3>1, <3>2 DEF BrokenPipe
    <3>3. PICK s \in Slots, g \in Generations : s = lease[th].slot /\ g = lease[th].gen
      <4>1. lease[th].slot \in Slots /\ lease[th].gen \in Generations
        BY <2>2, WaitingTyped DEF Recv
      <4>2. QED BY <4>1
    <3> DEFINE c == Head(toBroker[s][g])
    <3>4. CASE toBroker[s][g] # <<>> /\ Return(th, IF c.job = job[th] THEN c.status ELSE "FAILED")
      <4>1. c \in Completion /\ c \in Elements(toBroker[s][g])
        BY <3>4, ExecutorTyped, HeadTailElements
      <4>2. c.status \in {"COMPLETED", "FAILED"} /\ executed[c.job] = c.status
        BY <4>1 DEF Completion, TrueCompletions
      <4>3. CASE c.job = job[th]
        <5>1. Return(th, c.status)
          BY <3>4, <4>3
        <5>2. QED BY <1>2, <2>0, <3>1, <4>2, <4>3, <5>1
      <4>4. CASE c.job # job[th]
        BY <2>1, <3>1, <3>4, <4>4
      <4>5. QED BY <4>3, <4>4
    <3>5. QED BY <2>2, <3>2, <3>3, <3>4 DEF Recv
  <2>3. CASE Send(th) \/ PollPipe(th) \/ CheckExited(th)
    <3>1. UNCHANGED outcome \/ (Return(th, "FAILED") /\ pc[th] # "idle")
      <4>1. CASE Send(th)
        BY <4>1 DEF Send
      <4>2. CASE PollPipe(th)
        BY <4>2 DEF PollPipe, BrokenPipe
      <4>3. CASE CheckExited(th)
        <5>1. pc[th] = "check"
          BY <4>3 DEF CheckExited
        <5>2. Return(th, "FAILED") \/ UNCHANGED outcome
          BY <4>3, Zenon DEF CheckExited
        <5>3. QED BY <5>1, <5>2
      <4>4. QED BY <2>3, <4>1, <4>2, <4>3
    <3>2. QED BY <1>1, <2>1, <3>1
  <2>4. CASE ~Recv(th) /\ ~(Send(th) \/ PollPipe(th) \/ CheckExited(th))
    BY <1>1, <1>3, <2>4 DEF ThreadStep, TakeEvent, HandleExited, HandleStarted, Drained, Execute, GetSlot,
       LeaseSlot, TakeRequest, ServeRequest, Release, resultVars
  <2>5. QED BY <2>2, <2>3, <2>4
<1>4. ASSUME NEW s \in Slots, ExecutorStep(s) \/ SupervisorStep(s) \/ Die(s) PROVE UNCHANGED outcome
  BY <1>4, ProcessSteps
<1>5. ASSUME Ended \/ UNCHANGED vars PROVE UNCHANGED outcome
  BY <1>5 DEF Ended, vars
<1>6. QED BY <1>1, <1>3, <1>4, <1>5 DEF Next

\* An available slot is in the queue, or a thread has just taken it from there.
Queued(s) == s \in Elements(queue) \/ \E th \in Threads : pc[th] = "lock" /\ lease[th].slot = s

\* SlotInv and SlotNotLost, slot by slot.
SlotKept(s) ==
  /\ connection[s] \in {None, generation[s]}
  /\ s \in busy => \E th \in Threads : Leased(th, s)
  /\ connection[s] # None => s \in available \/ \E th \in Threads : Leased(th, s)
  /\ s \in available => connection[s] = generation[s] /\ Queued(s)

LEMMA SlotBySlot == (\A s \in Slots : SlotKept(s)) <=> SlotInv /\ SlotNotLost
  BY DEF SlotKept, SlotInv, SlotNotLost, Queued, Elements

\* A slot whose entries stay and that no thread lets go of is not lost.
LEMMA SlotFramed ==
  ASSUME NEW s \in Slots, SlotKept(s), connection'[s] = connection[s], generation'[s] = generation[s],
         s \in available' <=> s \in available, s \in busy' => s \in busy,
         s \in Elements(queue) => s \in Elements(queue'),
         \A th \in Threads : Leased(th, s) => Leased(th, s)',
         \A th \in Threads : pc[th] = "lock" /\ lease[th].slot = s
                               => pc'[th] = "lock" /\ lease'[th].slot = s
  PROVE  SlotKept(s)'
BY DEF SlotKept, Queued

\* Recording an exit takes the slot of the current generation off, and no other.
LEMMA SlotExited ==
  ASSUME TypeOK, NEW s \in Slots, NEW g \in Generations, MarkExited(s, g), UNCHANGED lease,
         \A th \in Threads : pc[th] = "lock" => pc'[th] = "lock",
         NEW r \in Slots, SlotKept(r)
  PROVE  SlotKept(r)'
<1>1. CASE r # s \/ generation[s] # g
  <2>1. /\ connection'[r] = connection[r] /\ UNCHANGED <<generation, queue>>
        /\ r \in available' <=> r \in available
        /\ r \in busy' => r \in busy
    BY <1>1, MarkExitedChanges
  <2>2. \A th \in Threads : Leased(th, r) => Leased(th, r)'
    BY DEF Leased
  <2>3. QED BY <2>1, <2>2, SlotFramed
<1>2. CASE r = s /\ generation[s] = g
  <2>1. connection'[s] = None /\ s \notin available' /\ busy' \subseteq busy
    BY <1>2, MarkExitedChanges
  <2>2. QED BY <1>2, <2>1 DEF SlotKept, Leased
<1>3. QED BY <1>1, <1>2

\* A replacement's slot is available, unless a thread still has it leased.
LEMMA SlotStarted ==
  ASSUME TypeOK, NEW th \in Threads, ThreadInv(th), HandleStarted(th), NEW r \in Slots, SlotKept(r)
  PROVE  SlotKept(r)'
<1>1. UNCHANGED <<pc, lease>>
  BY DEF HandleStarted
<1>2. PICK s \in Slots, g \in Generations : s = held[th].slot /\ g = held[th].gen
  <2>1. pc[th] \in Draining /\ held[th] # NoItem
    BY DEF HandleStarted, NoItem
  <2>2. held[th] \in Event
    BY <2>1, WaitingTyped
  <2>3. held[th].slot \in Slots /\ held[th].gen \in Generations
    BY <2>2 DEF Event
  <2>4. QED BY <2>3
<1>3. CASE UNCHANGED slotVars
  <2>1. \A ot \in Threads : Leased(ot, r) => Leased(ot, r)'
    BY <1>1 DEF Leased
  <2>2. QED BY <1>1, <1>3, <2>1, SlotFramed DEF slotVars
<1>4. CASE /\ connection' = [connection EXCEPT ![s] = g]
           /\ generation' = [generation EXCEPT ![s] = g]
           /\ IF s \in busy THEN UNCHANGED <<available, queue>> ELSE MarkAvailable(s)
           /\ UNCHANGED busy
  <2>1. /\ available \subseteq available' /\ available' \subseteq available \cup {s}
        /\ Elements(queue) \subseteq Elements(queue')
        /\ s \notin busy => s \in available' /\ (s \in available \/ s \in Elements(queue'))
    <3>1. CASE s \in busy
      BY <1>4, <3>1
    <3>2. CASE s \notin busy
      <4>1. MarkAvailable(s)
        BY <1>4, <3>2
      <4>2. QED BY <4>1, MarkAvailableChanges
    <3>3. QED BY <3>1, <3>2
  <2>2. CASE r # s
    <3>1. /\ connection'[r] = connection[r] /\ generation'[r] = generation[r]
          /\ r \in available' <=> r \in available
      BY <1>4, <2>1, <2>2 DEF TypeOK
    <3>2. \A ot \in Threads : Leased(ot, r) => Leased(ot, r)'
      BY <1>1 DEF Leased
    <3>3. QED BY <1>1, <1>4, <2>1, <3>1, <3>2, SlotFramed
  <2>3. CASE r = s
    <3>1. connection'[s] = g /\ generation'[s] = g
      BY <1>4 DEF TypeOK
    <3>2. \A ot \in Threads : Leased(ot, s) => Leased(ot, s)'
      BY <1>1 DEF Leased
    <3>3. Queued(s) => Queued(s)'
      BY <1>1, <2>1 DEF Queued
    <3>4. s \in available' => Queued(s)'
      <4>1. CASE s \in available
        BY <2>3, <3>3, <4>1 DEF SlotKept
      <4>2. CASE s \notin available /\ s \notin busy
        BY <2>1, <4>2 DEF Queued
      <4>3. CASE s \notin available /\ s \in busy
        BY <1>4, <4>3
      <4>4. QED BY <4>1, <4>2, <4>3
    <3>5. s \in busy => \E ot \in Threads : Leased(ot, s)'
      BY <2>3, <3>2 DEF SlotKept
    <3>6. QED BY <1>4, <2>1, <2>3, <3>1, <3>4, <3>5 DEF SlotKept
  <2>4. QED BY <2>2, <2>3
<1>5. QED BY <1>2, <1>3, <1>4, Zenon DEF HandleStarted

\* The slot a thread takes from the queue is its, until it has the lock.
LEMMA SlotTaken ==
  ASSUME TypeOK, NEW th \in Threads, ThreadInv(th), GetSlot(th), NEW r \in Slots, SlotKept(r)
  PROVE  SlotKept(r)'
<1>1. UNCHANGED <<connection, generation, available, busy>> /\ pc[th] = "get"
  BY DEF GetSlot
<1>2. \A ot \in Threads : ot # th => pc'[ot] = pc[ot] /\ lease'[ot] = lease[ot]
  BY DEF GetSlot, Goto, TypeOK
<1>3. lease[th].gen = None
  BY <1>1 DEF ThreadInv, Unleased, NoLease
<1>4. \A ot \in Threads : Leased(ot, r) => Leased(ot, r)'
  BY <1>2, <1>3 DEF Leased
<1>5. \A ot \in Threads : pc[ot] = "lock" /\ lease[ot].slot = r => pc'[ot] = "lock" /\ lease'[ot].slot = r
  BY <1>1, <1>2
<1>6. CASE queue = <<>>
  <2>1. UNCHANGED queue
    BY <1>6 DEF GetSlot
  <2>2. QED BY <1>1, <1>4, <1>5, <2>1, SlotFramed
<1>7. CASE queue # <<>>
  <2>1. /\ lease' = [lease EXCEPT ![th] = [slot |-> Head(queue), gen |-> None]]
        /\ queue' = Tail(queue) /\ pc'[th] = "lock"
    BY <1>7 DEF GetSlot, Goto, TypeOK
  <2>2. lease'[th].slot = Head(queue)
    BY <2>1 DEF TypeOK
  <2>3. Elements(queue) = {Head(queue)} \cup Elements(queue')
    BY <1>7, <2>1, HeadTailElements DEF TypeOK
  <2>4. Queued(r) => Queued(r)'
    BY <1>5, <2>1, <2>2, <2>3 DEF Queued
  <2>5. QED BY <1>1, <1>4, <2>4 DEF SlotKept
<1>8. QED BY <1>6, <1>7

\* The slot a thread has taken is leased if it is available, and nobody's otherwise.
LEMMA SlotLeased ==
  ASSUME TypeOK, NEW th \in Threads, ThreadInv(th), LeaseSlot(th), NEW r \in Slots, SlotKept(r)
  PROVE  SlotKept(r)'
<1>1. UNCHANGED <<connection, generation, queue>>
  BY DEF LeaseSlot
<1>2. pc[th] = "lock" /\ lease[th].slot \in Slots /\ lease[th].gen = None
  BY DEF LeaseSlot, ThreadInv
<1>3. \A ot \in Threads : ot # th => pc'[ot] = pc[ot] /\ lease'[ot] = lease[ot]
  BY OthersStay DEF ThreadStep
<1>4. \A ot \in Threads : Leased(ot, r) => Leased(ot, r)'
  BY <1>2, <1>3 DEF Leased
<1>5. CASE /\ lease[th].slot \notin available \/ connection[lease[th].slot] = None
           /\ UNCHANGED <<available, busy>>
  <2>1. CASE r = lease[th].slot
    <3>1. generation[r] # None
      BY DispatchAssumption DEF TypeOK, Generations, None
    <3>2. r \notin available
      BY <1>5, <2>1, <3>1 DEF SlotKept
    <3>3. QED BY <1>1, <1>4, <1>5, <3>2 DEF SlotKept
  <2>2. CASE r # lease[th].slot
    <3>1. \A ot \in Threads : pc[ot] = "lock" /\ lease[ot].slot = r => pc'[ot] = "lock" /\ lease'[ot].slot = r
      BY <1>3, <2>2
    <3>2. QED BY <1>1, <1>4, <1>5, <3>1, SlotFramed
  <2>3. QED BY <2>1, <2>2
<1>6. CASE /\ connection[lease[th].slot] \in Generations
           /\ lease'[th].slot = lease[th].slot /\ lease'[th].gen = connection[lease[th].slot]
           /\ available' = available \ {lease[th].slot} /\ busy' = busy \cup {lease[th].slot}
  <2>1. CASE r = lease[th].slot
    <3>1. Leased(th, r)'
      BY <1>6, <2>1, DispatchAssumption DEF Leased, Generations, None
    <3>2. QED BY <1>1, <1>6, <2>1, <3>1 DEF SlotKept
  <2>2. CASE r # lease[th].slot
    <3>1. \A ot \in Threads : pc[ot] = "lock" /\ lease[ot].slot = r => pc'[ot] = "lock" /\ lease'[ot].slot = r
      BY <1>3, <2>2
    <3>2. (r \in available' <=> r \in available) /\ (r \in busy' => r \in busy)
      BY <1>6, <2>2
    <3>3. QED BY <1>1, <1>4, <3>1, <3>2, SlotFramed
  <2>3. QED BY <2>1, <2>2
<1>7. QED BY <1>5, <1>6, LeaseSlotChanges

\* The slot a thread releases is available again, if it still has a pipe.
LEMMA SlotReleased ==
  ASSUME TypeOK, NEW th \in Threads, ThreadInv(th), Release(th), NEW r \in Slots, SlotKept(r)
  PROVE  SlotKept(r)'
<1>1. UNCHANGED <<connection, generation>> /\ pc[th] = "release"
  BY DEF Release
<1>2. PICK s \in Slots : s = lease[th].slot
  BY <1>1, WaitingTyped
<1>3. \A ot \in Threads : ot # th => pc'[ot] = pc[ot] /\ lease'[ot] = lease[ot]
  BY OthersStay DEF ThreadStep
<1>4. \A ot \in Threads : pc[ot] = "lock" /\ lease[ot].slot = r => pc'[ot] = "lock" /\ lease'[ot].slot = r
  BY <1>1, <1>3
<1>5. busy' = busy \ {s}
  BY <1>2 DEF Release
<1>6. /\ available \subseteq available' /\ available' \subseteq available \cup {s}
      /\ Elements(queue) \subseteq Elements(queue')
      /\ connection[s] # None => s \in available' /\ (s \in available \/ s \in Elements(queue'))
      /\ connection[s] = None => UNCHANGED available
  <2>1. CASE connection[s] # None
    <3>1. MarkAvailable(s)
      BY <1>2, <2>1 DEF Release
    <3>2. QED BY <2>1, <3>1, MarkAvailableChanges
  <2>2. CASE connection[s] = None
    BY <1>2, <2>2 DEF Release
  <2>3. QED BY <2>1, <2>2
<1>7. Queued(r) => Queued(r)'
  BY <1>4, <1>6 DEF Queued
<1>8. CASE r # s
  <2>1. (r \in available' <=> r \in available) /\ (r \in busy' => r \in busy)
    BY <1>5, <1>6, <1>8
  <2>2. \A ot \in Threads : Leased(ot, r) => Leased(ot, r)'
    BY <1>2, <1>3, <1>8 DEF Leased
  <2>3. QED BY <1>1, <1>4, <1>6, <2>1, <2>2, SlotFramed
<1>9. CASE r = s
  <2>1. s \in available' => Queued(s)'
    BY <1>6, <1>7, <1>9 DEF SlotKept, Queued
  <2>2. s \in available' => connection[s] = generation[s]
    BY <1>6, <1>9 DEF SlotKept
  <2>3. QED BY <1>1, <1>5, <1>6, <1>9, <2>1, <2>2 DEF SlotKept
<1>10. QED BY <1>8, <1>9

\* No step loses a slot.
LEMMA SlotsKept ==
  ASSUME TypeOK, \A th \in Threads : ThreadInv(th), NEW r \in Slots, SlotKept(r), [Next]_vars
  PROVE  SlotKept(r)'
<1>1. ASSUME UNCHANGED <<slotVars, lease>>, \A th \in Threads : pc[th] = "lock" => pc'[th] = "lock"
      PROVE  SlotKept(r)'
  <2>1. \A th \in Threads : Leased(th, r) => Leased(th, r)'
    BY <1>1 DEF Leased
  <2>2. QED BY <1>1, <2>1, SlotFramed DEF slotVars
<1>2. ASSUME NEW th \in Threads, ThreadStep(th) PROVE SlotKept(r)'
  <2>0. \A ot \in Threads : ot # th => pc'[ot] = pc[ot]
    BY <1>2, OthersStay
  <2>1. ASSUME pc[th] # "lock", UNCHANGED lease, NEW s \in Slots, NEW g \in Generations, MarkExited(s, g)
        PROVE  SlotKept(r)'
    <3>1. \A ot \in Threads : pc[ot] = "lock" => pc'[ot] = "lock"
      BY <2>0, <2>1
    <3>2. QED BY <2>1, <3>1, SlotExited
  <2>2. ASSUME pc[th] # "lock", UNCHANGED <<slotVars, lease>> PROVE SlotKept(r)'
    BY <1>1, <2>0, <2>2
  <2>3. ASSUME pc[th] \in {"send", "poll", "recv"}, UNCHANGED lease, MarkExited(lease[th].slot, lease[th].gen)
        PROVE  SlotKept(r)'
    <3>1. lease[th].slot \in Slots /\ lease[th].gen \in Generations
      BY <2>3, WaitingTyped
    <3>2. QED BY <2>1, <2>3, <3>1
  <2>4. CASE TakeEvent(th) \/ Drained(th)
    BY <2>2, <2>4 DEF TakeEvent, Drained, Draining
  <2>5. CASE Execute(th) \/ TakeRequest(th) \/ ServeRequest(th) \/ CheckExited(th)
    BY <2>2, <2>5 DEF Execute, TakeRequest, ServeRequest, CheckExited
  <2>6. CASE HandleExited(th)
    <3>0. pc[th] \in Draining /\ held[th].kind # "none" /\ UNCHANGED lease
      BY <2>6 DEF HandleExited
    <3>1. held[th] # NoItem
      BY <3>0 DEF NoItem
    <3>2. held[th] \in Event
      BY <3>0, <3>1, WaitingTyped
    <3>3. held[th].slot \in Slots /\ held[th].gen \in Generations
      BY <3>2 DEF Event
    <3>4. MarkExited(held[th].slot, held[th].gen)
      BY <2>6 DEF HandleExited
    <3>5. pc[th] # "lock"
      BY <3>0 DEF Draining
    <3>6. QED BY <2>1, <3>0, <3>3, <3>4, <3>5
  <2>7. CASE Send(th)
    BY <2>2, <2>3, <2>7 DEF Send
  <2>8. CASE PollPipe(th) \/ Recv(th)
    BY <2>2, <2>3, <2>8 DEF PollPipe, Recv, BrokenPipe
  <2>9. QED
    BY <1>2, <2>4, <2>5, <2>6, <2>7, <2>8, SlotStarted, SlotTaken, SlotLeased, SlotReleased DEF ThreadStep
<1>3. ASSUME NEW s \in Slots, ExecutorStep(s) \/ SupervisorStep(s) \/ Die(s)
      PROVE  UNCHANGED <<slotVars, lease, pc>>
  BY <1>3, ProcessSteps DEF threadVars
<1>4. ASSUME Ended \/ UNCHANGED vars PROVE UNCHANGED <<slotVars, lease, pc>>
  BY <1>4 DEF Ended, vars, slotVars
<1>5. QED BY <1>1, <1>2, <1>3, <1>4 DEF Next

\* The invariant is inductive.
LEMMA StepKeeps == DispatchInv /\ [Next]_vars => DispatchInv'
<1> SUFFICES ASSUME DispatchInv, [Next]_vars PROVE DispatchInv'
  OBVIOUS
<1>1. /\ TypeOK
      /\ \A th \in Threads : ThreadInv(th)
      /\ \A s \in Slots : ExecutorInv(s)
      /\ ThreadsApart /\ OneRun /\ TrueCompletions /\ OwnResultOnly
  BY DEF DispatchInv
<1>2. TypeOK'
  BY <1>1, TypeKept
<1>3. \A th \in Threads : ThreadInv(th)'
  BY <1>1, ThreadKept
<1>4. \A s \in Slots : ExecutorInv(s)'
  BY <1>1, ExecutorKept
<1>5. ThreadsApart' /\ OneRun'
  BY <1>1, ThreadsApartKept, OneRunKept
<1>6. TrueCompletions' /\ OwnResultOnly'
  BY <1>1, TrueCompletionsKept, OwnResultKept
<1>7. SlotInv' /\ SlotNotLost'
  <2>1. \A s \in Slots : SlotKept(s)
    BY SlotBySlot DEF DispatchInv
  <2>2. \A s \in Slots : SlotKept(s)'
    BY <1>1, <2>1, SlotsKept
  <2>3. ((\A s \in Slots : SlotKept(s)) <=> SlotInv /\ SlotNotLost)'
    BY DEF SlotKept, SlotInv, SlotNotLost, Queued, Elements
  <2>4. QED BY <2>2, <2>3
<1>8. QED
  BY <1>2, <1>3, <1>4, <1>5, <1>6, <1>7 DEF DispatchInv

-----------------------------------------------------------------------------
\* The theorems

\* Threads, pipes and executors stay consistent in whatever order threads,
\* executors and supervisor step, and wherever a process dies.
THEOREM DispatchInvHolds == Spec => []DispatchInv
<1>1. Init => DispatchInv
  BY InitEstablishes
<1>2. DispatchInv /\ [Next]_vars => DispatchInv'
  BY StepKeeps
<1>3. QED BY <1>1, <1>2, PTL DEF Spec

\* Every variable has its type: no item of a queue or a pipe is handled as what
\* it is not, and no lease names a slot or generation that does not exist.
THEOREM TypeCorrect == Spec => []TypeOK
<1>1. DispatchInv => TypeOK
  BY DEF DispatchInv
<1>2. QED BY <1>1, DispatchInvHolds, PTL

\* No executor slot is lost to leases, releases, exits and replacements that cross
\* (_lease_slot, _release_slot and the event handlers under _slot_lock).
THEOREM NoSlotIsLost == Spec => []SlotNotLost
<1>1. DispatchInv => SlotNotLost
  BY DEF DispatchInv
<1>2. QED BY <1>1, DispatchInvHolds, PTL

\* What Conductor hears as COMPLETED of an attempt, an executor completed as that
\* very attempt (the checks of task and execution id in execute).
THEOREM ResultsAreOwn == Spec => []OwnResultOnly
<1>1. DispatchInv => OwnResultOnly
  BY DEF DispatchInv
<1>2. QED BY <1>1, DispatchInvHolds, PTL

-----------------------------------------------------------------------------
\* What the broker knows of the processes' ends

\* The process of generation g has ended: it is dead or has been replaced.
Gone(s, g) == g < executor[s].gen \/ (g = executor[s].gen /\ executor[s].state = "dead")
Known(e) == e.gen <= executor[e.slot].gen /\ (e.kind = "exited" => Gone(e.slot, e.gen))

\* The broker lags behind the supervisor, and takes no living process for dead.
SlotLags(s) ==
  /\ generation[s] <= executor[s].gen
  /\ exited[s] # None => Gone(s, exited[s]) /\ connection[s] = None
HeldKnown(th) == pc[th] \in Draining /\ held[th] # NoItem => Known(held[th])
LeaseLags(th) == lease[th].gen # None => lease[th].gen <= generation[lease[th].slot]
ThreadLags(th) == HeldKnown(th) /\ LeaseLags(th)
BrokerLags ==
  /\ \A s \in Slots : SlotLags(s)
  /\ \A e \in Elements(events) : Known(e)
  /\ \A th \in Threads : ThreadLags(th)

\* A process stays what it is, or goes on living, or dies, or is replaced when it is dead.
LEMMA ExecutorMoves ==
  ASSUME TypeOK, \A s \in Slots : ExecutorInv(s), [Next]_vars, NEW r \in Slots
  PROVE  \/ executor'[r] = executor[r]
         \/ executor'[r].gen = executor[r].gen /\ executor[r].state # "dead"
         \/ /\ executor[r].state = "dead" /\ executor'[r].gen = executor[r].gen + 1
            /\ executor'[r].job = NoJob
<1> DEFINE Moves == \/ executor'[r] = executor[r]
                    \/ executor'[r].gen = executor[r].gen /\ executor[r].state # "dead"
                    \/ /\ executor[r].state = "dead" /\ executor'[r].gen = executor[r].gen + 1
                       /\ executor'[r].job = NoJob
<1>1. ASSUME UNCHANGED executor PROVE Moves
  BY <1>1
<1>2. ASSUME NEW s \in Slots, NEW state \in {"idle", "running", "fence", "dead"},
             NEW j \in Jobs \cup {NoJob}, NEW n \in 0..MaxFences, SetExecutor(s, state, j, n),
             executor[s].state # "dead"
      PROVE  Moves
  BY <1>2, SetExecutorChanges
<1>3. ASSUME NEW s \in Slots, ExecutorStep(s) \/ SupervisorStep(s) \/ Die(s) PROVE Moves
  <2>0. 0 \in 0..MaxFences /\ executor[s].fences \in 0..MaxFences /\ executor[s].job \in Jobs \cup {NoJob}
    BY ExecutorTyped, DispatchAssumption
  <2>1. CASE ReceiveAssignment(s)
    <3>1. executor[s].state = "idle"
      BY <2>1 DEF ReceiveAssignment
    <3>2. QED BY <2>1, <3>1, ReceiveChanges
  <2>2. CASE RequestSnapshot(s)
    <3>1. executor[s].fences + 1 \in 0..MaxFences
      BY <2>0, <2>2, DispatchAssumption DEF RequestSnapshot
    <3>2. QED BY <1>2, <2>0, <2>2, <3>1 DEF RequestSnapshot
  <2>3. CASE GetSnapshot(s)
    BY <1>2, <2>0, <2>3 DEF GetSnapshot, Complete
  <2>4. CASE FinishTask(s)
    BY <1>2, <2>0, <2>4 DEF FinishTask, Complete
  <2>5. CASE Die(s)
    BY <1>2, <2>0, <2>5 DEF Die
  <2>6. CASE ReportExit(s)
    BY <1>1, <2>6 DEF ReportExit
  <2>7. CASE StartReplacement(s)
    <3>1. executor[s].state = "dead"
      BY <2>7 DEF StartReplacement, ExecutorInv
    <3>2. QED BY <2>7, <3>1, ReplacementChanges
  <2>8. QED
    BY <1>3, <2>1, <2>2, <2>3, <2>4, <2>5, <2>6, <2>7, Zenon DEF ExecutorStep, SupervisorStep
<1>4. ASSUME NEW th \in Threads, ThreadStep(th) PROVE Moves
  BY <1>1, <1>4, ThreadSteps
<1>5. ASSUME Ended \/ UNCHANGED vars PROVE Moves
  <2>1. UNCHANGED executor
    BY <1>5 DEF Ended, vars
  <2>2. QED BY <1>1, <2>1
<1>6. QED BY <1>3, <1>4, <1>5 DEF Next

\* Who is gone stays gone.
LEMMA GoneStays ==
  ASSUME TypeOK, TypeOK', \A s \in Slots : ExecutorInv(s), [Next]_vars, NEW s \in Slots
  PROVE  /\ executor[s].gen <= executor'[s].gen
         /\ \A g \in Generations : Gone(s, g) => Gone(s, g)'
<1>1. executor[s].gen \in Nat /\ executor'[s].gen \in Nat /\ Generations \subseteq Nat
  <2>1. executor[s] \in Executor /\ executor'[s] \in Executor
    BY DEF TypeOK, Executor
  <2>2. QED BY <2>1 DEF Executor, Generations
<1>2. CASE executor'[s] = executor[s]
  BY <1>1, <1>2 DEF Gone
<1>3. CASE executor'[s].gen = executor[s].gen /\ executor[s].state # "dead"
  BY <1>1, <1>3 DEF Gone
<1>4. CASE executor'[s].gen = executor[s].gen + 1
  BY <1>1, <1>4 DEF Gone
<1>5. QED BY <1>2, <1>3, <1>4, ExecutorMoves

\* What is known of a process stays true.
LEMMA KnownStays ==
  ASSUME TypeOK, TypeOK', \A s \in Slots : ExecutorInv(s), [Next]_vars, NEW e \in Event, Known(e)
  PROVE  Known(e)'
<1>1. e.slot \in Slots /\ e.gen \in Generations /\ Generations \subseteq Nat
  BY DEF Event, Generations
<1>2. executor[e.slot].gen \in Nat /\ executor'[e.slot].gen \in Nat
  <2>1. executor[e.slot] \in Executor /\ executor'[e.slot] \in Executor
    BY <1>1 DEF TypeOK, Executor
  <2>2. QED BY <2>1 DEF Executor, Generations
<1>3. executor[e.slot].gen <= executor'[e.slot].gen /\ (Gone(e.slot, e.gen) => Gone(e.slot, e.gen)')
  BY <1>1, GoneStays
<1>4. e.gen <= executor'[e.slot].gen
  <2>1. e.gen <= executor[e.slot].gen /\ e.gen \in Nat
    BY <1>1 DEF Known
  <2>2. QED BY <1>2, <1>3, <2>1
<1>5. e.kind = "exited" => Gone(e.slot, e.gen)'
  BY <1>3 DEF Known
<1>6. QED BY <1>4, <1>5 DEF Known

\* A recorded exit is one of a process that has ended.
LEMMA ExitRecorded ==
  ASSUME TypeOK, NEW s \in Slots, NEW g \in Generations, MarkExited(s, g), Gone(s, g),
         UNCHANGED executor, NEW r \in Slots, SlotLags(r)
  PROVE  SlotLags(r)'
<1>1. /\ UNCHANGED generation
      /\ r # s => connection'[r] = connection[r] /\ exited'[r] = exited[r]
      /\ \/ connection'[s] = None /\ exited'[s] = g
         \/ connection'[s] = connection[s] /\ exited'[s] = exited[s]
  BY MarkExitedChanges
<1>2. CASE connection'[r] = connection[r] /\ exited'[r] = exited[r]
  BY <1>1, <1>2 DEF SlotLags, Gone
<1>3. CASE r = s /\ connection'[s] = None /\ exited'[s] = g
  BY <1>1, <1>3 DEF SlotLags, Gone
<1>4. QED BY <1>1, <1>2, <1>3

\* What is not alive and was leased is gone.
LEMMA BrokenIsGone ==
  ASSUME TypeOK, BrokerLags, NEW th \in Threads, NEW s \in Slots, NEW g \in Generations,
         lease[th].slot = s, lease[th].gen = g, ~Alive(s, g)
  PROVE  Gone(s, g)
<1>0. g # None /\ generation[s] \in Generations /\ executor[s].gen \in Generations
  <2>1. generation[s] \in Generations
    BY DEF TypeOK
  <2>2. QED BY <2>1, ExecutorTyped DEF Generations, None
<1>1. g \in Nat /\ generation[s] \in Nat /\ executor[s].gen \in Nat
  BY <1>0 DEF Generations
<1>2. g <= generation[s] /\ generation[s] <= executor[s].gen
  BY <1>0 DEF BrokerLags, ThreadLags, LeaseLags, SlotLags
<1>3. QED BY <1>1, <1>2 DEF Alive, Gone

\* A thread finds the pipe broken: it records the exit and returns FAILED.
FindsBroken(th) ==
  /\ pc[th] \in {"send", "poll", "recv"}
  /\ ~Alive(lease[th].slot, lease[th].gen)
  /\ MarkExited(lease[th].slot, lease[th].gen)
  /\ Return(th, "FAILED")
  /\ UNCHANGED <<toExecutor, toBroker, lease, job>>

\* Only the handlers of events and a broken pipe change what a slot's process is.
LEMMA SlotSteps ==
  ASSUME NEW th \in Threads, ThreadStep(th)
  PROVE  \/ UNCHANGED <<connection, generation, exited>>
         \/ HandleStarted(th) \/ HandleExited(th) \/ FindsBroken(th)
<1>1. ASSUME TakeEvent(th) \/ Drained(th) \/ Execute(th) \/ GetSlot(th) \/ LeaseSlot(th) \/ TakeRequest(th)
             \/ ServeRequest(th) \/ CheckExited(th) \/ Release(th)
      PROVE  UNCHANGED <<connection, generation, exited>>
  BY <1>1 DEF TakeEvent, Drained, Execute, GetSlot, LeaseSlot, TakeRequest, ServeRequest, CheckExited,
              Release, slotVars
<1>2. ASSUME Send(th) PROVE UNCHANGED slotVars \/ FindsBroken(th)
  BY <1>2 DEF Send, FindsBroken
<1>3. ASSUME PollPipe(th) PROVE UNCHANGED slotVars \/ FindsBroken(th)
  BY <1>3 DEF PollPipe, BrokenPipe, FindsBroken, pipeVars
<1>4. ASSUME Recv(th) PROVE UNCHANGED slotVars \/ FindsBroken(th)
  BY <1>4 DEF Recv, BrokenPipe, FindsBroken
<1>5. UNCHANGED slotVars => UNCHANGED <<connection, generation, exited>>
  BY DEF slotVars
<1>6. QED BY <1>1, <1>2, <1>3, <1>4, <1>5, Zenon DEF ThreadStep

\* The lease of a thread that finds its pipe broken, and the event a thread handles.
LEMMA BrokenTyped ==
  ASSUME TypeOK, NEW th \in Threads, ThreadInv(th), FindsBroken(th)
  PROVE  lease[th].slot \in Slots /\ lease[th].gen \in Generations /\ job[th] \in Jobs
BY WaitingTyped DEF FindsBroken

LEMMA HandledTyped ==
  ASSUME TypeOK, NEW th \in Threads, ThreadInv(th), HandleExited(th) \/ HandleStarted(th)
  PROVE  /\ pc[th] \in Draining /\ held[th] # NoItem /\ held[th] \in Event
         /\ held[th].slot \in Slots /\ held[th].gen \in Generations
<1>1. pc[th] \in Draining /\ held[th].kind # "none"
  BY DEF HandleExited, HandleStarted
<1>2. held[th] # NoItem
  BY <1>1 DEF NoItem
<1>3. held[th] \in Event
  BY <1>1, <1>2, WaitingTyped
<1>4. QED BY <1>1, <1>2, <1>3 DEF Event

\* A replacement's generation is recorded only if it is the later one.
LEMMA StartedChanges ==
  ASSUME TypeOK, NEW th \in Threads, ThreadInv(th), HandleStarted(th), NEW s \in Slots, s = held[th].slot
  PROVE  \/ UNCHANGED slotVars
         \/ /\ generation[s] < held[th].gen
            /\ connection'[s] = held[th].gen /\ generation'[s] = held[th].gen /\ exited'[s] = None
            /\ \A r \in Slots : r # s => /\ connection'[r] = connection[r]
                                         /\ generation'[r] = generation[r] /\ exited'[r] = exited[r]
<1>1. held[th].gen \in Generations /\ generation[s] \in Generations
  BY HandledTyped DEF TypeOK
<1>2. CASE held[th].gen <= generation[s]
  BY <1>2 DEF HandleStarted
<1>3. CASE ~(held[th].gen <= generation[s])
  <2>1. generation[s] < held[th].gen
    BY <1>1, <1>3 DEF Generations
  <2>2. /\ connection' = [connection EXCEPT ![s] = held[th].gen]
        /\ generation' = [generation EXCEPT ![s] = held[th].gen]
        /\ exited' = [exited EXCEPT ![s] = None]
    BY <1>3 DEF HandleStarted
  <2>3. QED BY <2>1, <2>2 DEF TypeOK
<1>4. QED BY <1>2, <1>3

\* Generations grow.
LEMMA GenerationGrows ==
  ASSUME TypeOK, \A th \in Threads : ThreadInv(th), [Next]_vars, NEW s \in Slots
  PROVE  generation[s] <= generation'[s]
<1>0. generation[s] \in Nat
  BY DEF TypeOK, Generations
<1>1. ASSUME UNCHANGED generation PROVE generation[s] <= generation'[s]
  BY <1>0, <1>1
<1>2. ASSUME NEW th \in Threads, ThreadStep(th) PROVE generation[s] <= generation'[s]
  <2>1. CASE HandleStarted(th)
    <3>1. PICK r \in Slots : r = held[th].slot
      BY <2>1, HandledTyped
    <3>2. held[th].gen \in Nat
      BY <2>1, HandledTyped DEF Generations
    <3>3. CASE UNCHANGED slotVars
      BY <1>1, <3>3 DEF slotVars
    <3>4. CASE /\ generation[r] < held[th].gen /\ generation'[r] = held[th].gen
               /\ \A q \in Slots : q # r => generation'[q] = generation[q]
      BY <1>0, <3>2, <3>4
    <3>5. QED BY <2>1, <3>1, <3>3, <3>4, StartedChanges
  <2>2. CASE HandleExited(th)
    BY <1>1, <2>2, HandledTyped, MarkExitedChanges DEF HandleExited
  <2>3. CASE FindsBroken(th)
    BY <1>1, <2>3, BrokenTyped, MarkExitedChanges DEF FindsBroken
  <2>4. QED BY <1>1, <1>2, <2>1, <2>2, <2>3, SlotSteps
<1>3. ASSUME NEW r \in Slots, ExecutorStep(r) \/ SupervisorStep(r) \/ Die(r) PROVE UNCHANGED generation
  BY <1>3, ProcessSteps DEF slotVars
<1>4. ASSUME Ended \/ UNCHANGED vars PROVE UNCHANGED generation
  BY <1>4 DEF Ended, vars
<1>5. QED BY <1>1, <1>2, <1>3, <1>4 DEF Next

\* A slot's record lags behind its process.
LEMMA SlotLagsKept ==
  ASSUME DispatchInv, TypeOK', BrokerLags, [Next]_vars, NEW r \in Slots
  PROVE  SlotLags(r)'
<1>0. /\ TypeOK /\ SlotLags(r)
      /\ \A th \in Threads : ThreadInv(th) /\ ThreadLags(th)
      /\ \A s \in Slots : ExecutorInv(s)
  BY DEF DispatchInv, BrokerLags
<1>1. executor[r].gen <= executor'[r].gen /\ \A g \in Generations : Gone(r, g) => Gone(r, g)'
  BY <1>0, GoneStays
<1>2. /\ generation[r] \in Nat /\ executor[r].gen \in Nat /\ executor'[r].gen \in Nat
      /\ exited[r] # None => exited[r] \in Generations
  <2>1. executor[r] \in Executor /\ executor'[r] \in Executor
    BY <1>0 DEF TypeOK, Executor
  <2>2. executor[r].gen \in Nat /\ executor'[r].gen \in Nat
    BY <2>1 DEF Executor, Generations
  <2>3. generation[r] \in Generations /\ exited[r] \in Generations \cup {None}
    BY <1>0 DEF TypeOK
  <2>4. generation[r] \in Nat
    BY <2>3 DEF Generations
  <2>5. QED BY <2>2, <2>3, <2>4
<1>3. ASSUME UNCHANGED <<connection, generation, exited>> PROVE SlotLags(r)'
  <2>1. generation'[r] <= executor'[r].gen
    <3>1. generation[r] <= executor[r].gen
      BY <1>0 DEF SlotLags
    <3>2. QED BY <1>1, <1>2, <1>3, <3>1
  <2>2. exited[r] # None => Gone(r, exited[r])' /\ connection'[r] = None
    BY <1>0, <1>1, <1>2, <1>3 DEF SlotLags, Gone
  <2>3. QED BY <1>3, <2>1, <2>2 DEF SlotLags, Gone
<1>4. ASSUME NEW th \in Threads, ThreadStep(th) PROVE SlotLags(r)'
  <2>0. ThreadInv(th) /\ ThreadLags(th) /\ UNCHANGED executor
    BY <1>0, <1>4, ThreadSteps
  <2>1. CASE HandleStarted(th)
    <3>1. PICK s \in Slots : s = held[th].slot
      BY <1>0, <2>0, <2>1, HandledTyped
    <3>2. held[th].gen <= executor[s].gen
      BY <1>0, <2>0, <2>1, <3>1, HandledTyped DEF ThreadLags, HeldKnown, Known
    <3>3. CASE UNCHANGED slotVars
      BY <1>3, <3>3 DEF slotVars
    <3>4. CASE /\ connection'[s] = held[th].gen /\ generation'[s] = held[th].gen /\ exited'[s] = None
               /\ \A q \in Slots : q # s => /\ connection'[q] = connection[q]
                                            /\ generation'[q] = generation[q] /\ exited'[q] = exited[q]
      <4>1. CASE r = s
        BY <2>0, <3>2, <3>4, <4>1 DEF SlotLags
      <4>2. CASE r # s
        BY <1>0, <2>0, <3>4, <4>2 DEF SlotLags, Gone
      <4>3. QED BY <4>1, <4>2
    <3>5. QED BY <1>0, <2>0, <2>1, <3>1, <3>3, <3>4, StartedChanges
  <2>2. CASE HandleExited(th)
    <3>1. PICK s \in Slots, g \in Generations : s = held[th].slot /\ g = held[th].gen
      BY <1>0, <2>0, <2>2, HandledTyped
    <3>2. MarkExited(s, g) /\ held[th].kind = "exited"
      BY <2>2, <3>1 DEF HandleExited
    <3>3. Gone(s, g)
      BY <1>0, <2>0, <2>2, <3>1, <3>2, HandledTyped DEF ThreadLags, HeldKnown, Known
    <3>4. QED BY <1>0, <2>0, <3>2, <3>3, ExitRecorded
  <2>3. CASE FindsBroken(th)
    <3>1. PICK s \in Slots, g \in Generations : s = lease[th].slot /\ g = lease[th].gen
      BY <1>0, <2>0, <2>3, BrokenTyped
    <3>2. MarkExited(s, g) /\ ~Alive(s, g)
      BY <2>3, <3>1 DEF FindsBroken
    <3>3. Gone(s, g)
      BY <1>0, <3>1, <3>2, BrokenIsGone
    <3>4. QED BY <1>0, <2>0, <3>2, <3>3, ExitRecorded
  <2>4. QED BY <1>3, <1>4, <2>1, <2>2, <2>3, SlotSteps
<1>5. ASSUME NEW s \in Slots, ExecutorStep(s) \/ SupervisorStep(s) \/ Die(s)
      PROVE  UNCHANGED <<connection, generation, exited>>
  BY <1>5, ProcessSteps DEF slotVars
<1>6. ASSUME Ended \/ UNCHANGED vars PROVE UNCHANGED <<connection, generation, exited>>
  BY <1>6 DEF Ended, vars
<1>7. QED BY <1>3, <1>4, <1>5, <1>6 DEF Next

\* An event in the queue is true.
LEMMA EventsKnown ==
  ASSUME DispatchInv, TypeOK', BrokerLags, [Next]_vars, NEW e \in Elements(events')
  PROVE  Known(e)'
<1>0. /\ TypeOK
      /\ \A s \in Slots : ExecutorInv(s)
      /\ \A d \in Elements(events) : Known(d)
  BY DEF DispatchInv, BrokerLags
<1>1. Elements(events) \subseteq Event
  BY <1>0, ElementsTyped DEF TypeOK
<1>2. ASSUME e \in Elements(events) PROVE Known(e)'
  BY <1>0, <1>1, <1>2, KnownStays
<1>3. ASSUME NEW th \in Threads, TakeEvent(th) PROVE e \in Elements(events)
  BY <1>0, <1>3, HeadTailElements DEF TakeEvent, TypeOK
<1>4. ASSUME NEW th \in Threads, ThreadStep(th), ~TakeEvent(th) PROVE e \in Elements(events)
  <2>1. CASE HandleExited(th) \/ HandleStarted(th) \/ Drained(th) \/ Execute(th) \/ GetSlot(th) \/ LeaseSlot(th)
    <3>1. CASE HandleExited(th) \/ HandleStarted(th) \/ Drained(th)
      BY <3>1 DEF HandleExited, HandleStarted, Drained
    <3>2. CASE Execute(th) \/ GetSlot(th) \/ LeaseSlot(th)
      BY <3>2 DEF Execute, GetSlot, LeaseSlot
    <3>3. QED BY <2>1, <3>1, <3>2
  <2>2. CASE Send(th) \/ TakeRequest(th) \/ ServeRequest(th) \/ CheckExited(th) \/ PollPipe(th) \/ Recv(th)
             \/ Release(th)
    <3>1. CASE Send(th) \/ TakeRequest(th) \/ ServeRequest(th) \/ CheckExited(th)
      BY <3>1 DEF Send, TakeRequest, ServeRequest, CheckExited
    <3>2. CASE PollPipe(th) \/ Recv(th) \/ Release(th)
      BY <3>2 DEF PollPipe, Recv, Release
    <3>3. QED BY <2>2, <3>1, <3>2
  <2>3. QED BY <1>4, <2>1, <2>2 DEF ThreadStep
<1>5. ASSUME NEW s \in Slots, ReportExit(s) PROVE Known(e)'
  <2> DEFINE d == [kind |-> "exited", slot |-> s, gen |-> executor[s].gen]
  <2>1. d \in Event /\ executor[s].gen \in Nat
    BY <1>0, ExecutorTyped DEF Event, Generations
  <2>2. Elements(events') = Elements(events) \cup {d}
    <3>1. events \in Seq(Event) /\ events' = Append(events, d)
      BY <1>0, <1>5 DEF ReportExit, TypeOK
    <3> HIDE DEF d
    <3>2. QED BY <2>1, <3>1, AppendElements
  <2>3. UNCHANGED executor /\ executor[s].state = "dead"
    BY <1>5 DEF ReportExit
  <2>4. CASE e = d
    BY <2>1, <2>3, <2>4 DEF Known, Gone
  <2>5. QED BY <1>2, <2>2, <2>4
<1>6. ASSUME NEW s \in Slots, StartReplacement(s) PROVE Known(e)'
  <2> DEFINE g == executor[s].gen + 1
             d == [kind |-> "started", slot |-> s, gen |-> g]
  <2>1. g \in Generations /\ executor'[s].gen = g /\ g <= executor'[s].gen
    BY <1>0, <1>6, ReplacementChanges DEF Generations
  <2>2. d \in Event /\ events' = Append(events, d)
    BY <1>6, <2>1 DEF Event, StartReplacement
  <2>3. Elements(events') = Elements(events) \cup {d}
    <3>1. events \in Seq(Event)
      BY <1>0 DEF TypeOK
    <3> HIDE DEF d
    <3>2. QED BY <2>2, <3>1, AppendElements
  <2>4. CASE e = d
    <3>1. e.slot = s /\ e.gen <= executor'[s].gen /\ e.kind # "exited"
      BY <2>1, <2>4
    <3>2. QED BY <3>1 DEF Known
  <2>5. QED BY <1>2, <2>3, <2>4
<1>7. ASSUME NEW s \in Slots, ExecutorStep(s) \/ Die(s) PROVE e \in Elements(events)
  BY <1>7 DEF ExecutorStep, ReceiveAssignment, RequestSnapshot, GetSnapshot, FinishTask, Die
<1>8. ASSUME Ended \/ UNCHANGED vars PROVE e \in Elements(events)
  <2>1. UNCHANGED events
    BY <1>8 DEF Ended, vars
  <2>2. QED BY <2>1
<1>9. QED BY <1>2, <1>3, <1>4, <1>5, <1>6, <1>7, <1>8 DEF Next, SupervisorStep

\* What a thread holds and leases lags too.
LEMMA ThreadLagsKept ==
  ASSUME DispatchInv, TypeOK', BrokerLags, [Next]_vars, NEW ot \in Threads
  PROVE  ThreadLags(ot)'
<1>0. /\ TypeOK /\ ThreadInv(ot) /\ HeldKnown(ot) /\ LeaseLags(ot) /\ SlotInv
      /\ \A th \in Threads : ThreadInv(th)
      /\ \A s \in Slots : ExecutorInv(s)
      /\ \A e \in Elements(events) : Known(e)
  BY DEF DispatchInv, BrokerLags, ThreadLags
<1>1. /\ \A e \in Event : Known(e) => Known(e)'
      /\ \A s \in Slots : generation[s] <= generation'[s]
      /\ \A s \in Slots : generation[s] \in Nat /\ generation'[s] \in Nat
  <2>1. \A e \in Event : Known(e) => Known(e)'
    BY <1>0, KnownStays
  <2>2. \A s \in Slots : generation[s] <= generation'[s]
    BY <1>0, GenerationGrows
  <2>3. \A s \in Slots : generation[s] \in Generations /\ generation'[s] \in Generations
    BY <1>0 DEF TypeOK
  <2>4. QED BY <2>1, <2>2, <2>3 DEF Generations
<1>2. ASSUME lease'[ot] = lease[ot] PROVE LeaseLags(ot)'
  <2>1. CASE lease[ot].gen = None
    BY <1>2, <2>1 DEF LeaseLags
  <2>2. CASE lease[ot].gen # None
    <3>1. pc[ot] \notin Unleased \cup {"lock"}
      BY <1>0, <2>2 DEF ThreadInv, NoLease
    <3>2. lease[ot].slot \in Slots /\ lease[ot].gen \in Generations
      BY <1>0, <3>1 DEF ThreadInv
    <3>3. lease[ot].gen \in Nat
      BY <3>2 DEF Generations
    <3>4. lease[ot].gen <= generation[lease[ot].slot]
      BY <1>0, <2>2 DEF LeaseLags
    <3>5. lease[ot].gen <= generation'[lease[ot].slot]
      BY <1>1, <3>2, <3>3, <3>4
    <3>6. QED BY <1>2, <3>5 DEF LeaseLags
  <2>3. QED BY <2>1, <2>2
<1>3. ASSUME lease'[ot].gen = None PROVE LeaseLags(ot)'
  BY <1>3 DEF LeaseLags
<1>4. ASSUME NEW e \in Event, e = held'[ot], Known(e) PROVE HeldKnown(ot)'
  <2>1. Known(e)'
    BY <1>1, <1>4
  <2>2. QED BY <1>4, <2>1 DEF HeldKnown, Known, Gone
<1>5. ASSUME held'[ot] = NoItem \/ pc'[ot] \notin Draining PROVE HeldKnown(ot)'
  BY <1>5 DEF HeldKnown
<1>6. ASSUME held'[ot] = held[ot], pc[ot] \in Draining PROVE HeldKnown(ot)'
  <2>1. CASE held[ot] = NoItem
    BY <1>5, <1>6, <2>1
  <2>2. CASE held[ot] # NoItem
    <3>1. held[ot] \in Event /\ Known(held[ot])
      BY <1>0, <1>6, <2>2, WaitingTyped DEF HeldKnown
    <3>2. QED BY <1>4, <1>6, <3>1
  <2>3. QED BY <2>1, <2>2
<1>7. ASSUME held'[ot] = held[ot], pc'[ot] = pc[ot], lease'[ot] = lease[ot] PROVE ThreadLags(ot)'
  <2>1. HeldKnown(ot)'
    BY <1>5, <1>6, <1>7
  <2>2. QED BY <1>2, <1>7, <2>1 DEF ThreadLags
<1>8. ASSUME ThreadStep(ot) PROVE ThreadLags(ot)'
  <2>1. CASE TakeEvent(ot)
    <3>1. Head(events) \in Event /\ Known(Head(events))
      BY <1>0, <2>1, HeadTailElements DEF TakeEvent, TypeOK
    <3>2. held'[ot] = Head(events) /\ lease'[ot] = lease[ot]
      BY <1>0, <2>1 DEF TakeEvent, TypeOK
    <3>3. QED BY <1>2, <1>4, <3>1, <3>2 DEF ThreadLags
  <2>2. CASE HandleExited(ot) \/ HandleStarted(ot)
    <3>1. held'[ot] = NoItem /\ lease'[ot] = lease[ot]
      BY <1>0, <2>2 DEF HandleExited, HandleStarted, TypeOK
    <3>2. QED BY <1>2, <1>5, <3>1 DEF ThreadLags
  <2>3. ASSUME held'[ot] = NoItem \/ pc'[ot] \notin Draining, lease'[ot] = lease[ot] \/ lease'[ot].gen = None
        PROVE  ThreadLags(ot)'
    BY <1>2, <1>3, <1>5, <2>3 DEF ThreadLags
  <2>4. CASE Drained(ot) \/ Execute(ot) \/ TakeRequest(ot) \/ ServeRequest(ot)
    <3>1. lease'[ot] = lease[ot]
      BY <2>4 DEF Drained, Execute, TakeRequest, ServeRequest
    <3>2. CASE Drained(ot)
      <4>1. held'[ot] = NoItem
        BY <3>2 DEF Drained
      <4>2. QED BY <2>3, <3>1, <4>1
    <3>3. CASE Execute(ot)
      <4>1. pc[ot] = "idle" /\ held'[ot] = held[ot]
        BY <3>3 DEF Execute
      <4>2. held[ot] = NoItem
        BY <1>0, <4>1 DEF ThreadInv, Draining
      <4>3. QED BY <2>3, <3>1, <4>1, <4>2
    <3>4. CASE TakeRequest(ot)
      <4>1. pc[ot] = "fence"
        BY <3>4 DEF TakeRequest
      <4>2. held[ot] = NoItem
        BY <1>0, <4>1 DEF ThreadInv, Draining
      <4>3. held'[ot] = held[ot] \/ pc'[ot] = "serve"
        BY <1>0, <3>4 DEF TakeRequest, Goto, TypeOK
      <4>4. held'[ot] = NoItem \/ pc'[ot] \notin Draining
        BY <4>2, <4>3 DEF Draining
      <4>5. QED BY <2>3, <3>1, <4>4
    <3>5. CASE ServeRequest(ot)
      <4>1. held'[ot] = NoItem
        BY <1>0, <3>5 DEF ServeRequest, TypeOK
      <4>2. QED BY <2>3, <3>1, <4>1
    <3>6. QED BY <2>4, <3>2, <3>3, <3>4, <3>5
  <2>5. CASE GetSlot(ot) \/ LeaseSlot(ot)
    <3>1. held'[ot] = held[ot] /\ pc[ot] \in {"get", "lock"}
      BY <2>5 DEF GetSlot, LeaseSlot
    <3>2. held'[ot] = NoItem
      BY <1>0, <3>1 DEF ThreadInv, Draining
    <3>3. CASE GetSlot(ot)
      <4>1. lease'[ot] = lease[ot] \/ lease' = [lease EXCEPT ![ot] = [slot |-> Head(queue), gen |-> None]]
        BY <3>3 DEF GetSlot
      <4>2. lease'[ot] = lease[ot] \/ lease'[ot].gen = None
        BY <1>0, <4>1 DEF TypeOK
      <4>3. QED BY <2>3, <3>2, <4>2
    <3>4. CASE LeaseSlot(ot)
      <4>1. CASE lease'[ot] = NoLease
        BY <2>3, <3>2, <4>1 DEF NoLease
      <4>2. CASE /\ connection[lease[ot].slot] \in Generations /\ lease[ot].slot \in Slots
                 /\ lease'[ot].slot = lease[ot].slot /\ lease'[ot].gen = connection[lease[ot].slot]
        <5>1. PICK s \in Slots : s = lease[ot].slot
          BY <4>2
        <5>2. connection[s] = generation[s]
          BY <1>0, <4>2, <5>1, DispatchAssumption DEF SlotInv, Generations, None
        <5>3. generation'[s] = generation[s] /\ generation[s] \in Nat
          BY <1>1, <3>4 DEF LeaseSlot
        <5>4. LeaseLags(ot)'
          BY <4>2, <5>1, <5>2, <5>3 DEF LeaseLags
        <5>5. QED BY <1>5, <3>2, <5>4 DEF ThreadLags
      <4>3. QED BY <1>0, <3>4, <4>1, <4>2, LeaseSlotChanges
    <3>5. QED BY <2>5, <3>3, <3>4
  <2>6. CASE Send(ot) \/ CheckExited(ot) \/ PollPipe(ot) \/ Recv(ot)
    <3>1. held'[ot] = held[ot] /\ lease'[ot] = lease[ot] /\ pc[ot] \in {"send", "check", "poll", "recv"}
      BY <2>6 DEF Send, CheckExited, PollPipe, Recv
    <3>2. held[ot] = NoItem
      BY <1>0, <3>1 DEF ThreadInv, Draining
    <3>3. QED BY <2>3, <3>1, <3>2
  <2>7. CASE Release(ot)
    <3>1. pc'[ot] = "idle" /\ lease'[ot].gen = None
      BY <1>0, <2>7 DEF Release, Goto, TypeOK, NoLease
    <3>2. QED BY <2>3, <3>1 DEF Draining
  <2>8. QED
    BY <1>8, <2>1, <2>2, <2>4, <2>5, <2>6, <2>7, Zenon DEF ThreadStep
<1>9. ASSUME NEW th \in Threads, ThreadStep(th), th # ot PROVE ThreadLags(ot)'
  BY <1>0, <1>7, <1>9, OthersStay
<1>10. ASSUME NEW s \in Slots, ExecutorStep(s) \/ SupervisorStep(s) \/ Die(s) PROVE ThreadLags(ot)'
  BY <1>7, <1>10, ProcessSteps DEF threadVars
<1>11. ASSUME Ended \/ UNCHANGED vars PROVE ThreadLags(ot)'
  <2>1. UNCHANGED threadVars
    BY <1>11 DEF Ended, vars, threadVars
  <2>2. QED BY <1>7, <2>1 DEF threadVars
<1>12. QED BY <1>8, <1>9, <1>10, <1>11 DEF Next

LEMMA BrokerLagsKept ==
  ASSUME DispatchInv, TypeOK', BrokerLags, [Next]_vars
  PROVE  BrokerLags'
<1>1. \A s \in Slots : SlotLags(s)'
  BY SlotLagsKept
<1>2. \A e \in Elements(events') : Known(e)'
  BY EventsKnown
<1>3. \A th \in Threads : ThreadLags(th)'
  BY ThreadLagsKept
<1>4. QED BY <1>1, <1>2, <1>3 DEF BrokerLags


-----------------------------------------------------------------------------
\* Where the snapshots that executors ask for are

JobsOf(q) == {e.job : e \in Elements(q)}
DistinctJobs(q) == \A i, k \in 1..Len(q) : q[i].job = q[k].job => i = k

\* Job j can only be at fence n of slot s.
Stands(s, j, n) ==
  /\ Sent(j)
  /\ \A r \in Slots, h \in Generations : j \notin Elements(toExecutor[r][h])
  /\ \A r \in Slots : executor[r].job = j =>
       r = s /\ executor[r].state = "fence" /\ executor[r].fences = n

\* A request or response is for the fence at which its job stands ...
AskedWhere ==
  /\ \A q \in Elements(requests) : Stands(q.slot, q.job, q.n)
  /\ \A th \in Threads : pc[th] = "serve" => Stands(held[th].slot, held[th].job, held[th].n)
  /\ \A s \in Slots : \A a \in Elements(responses[s]) : Stands(s, a.job, a.n)

\* ... and the only one for its job.
AskedOnce ==
  /\ DistinctJobs(requests)
  /\ \A s \in Slots : DistinctJobs(responses[s])
  /\ \A s, r \in Slots : s # r => JobsOf(responses[s]) \cap JobsOf(responses[r]) = {}
  /\ \A s \in Slots : JobsOf(responses[s]) \cap JobsOf(requests) = {}
  /\ \A th \in Threads : pc[th] = "serve" =>
       /\ held[th].job \notin JobsOf(requests)
       /\ \A s \in Slots : held[th].job \notin JobsOf(responses[s])
       /\ \A ot \in Threads : pc[ot] = "serve" /\ held[ot].job = held[th].job => ot = th

LEMMA AppendJobs ==
  ASSUME NEW S, NEW q \in Seq(S), NEW x \in S
  PROVE  /\ JobsOf(Append(q, x)) = JobsOf(q) \cup {x.job}
         /\ DistinctJobs(q) /\ x.job \notin JobsOf(q) => DistinctJobs(Append(q, x))
<1>1. Len(q) \in Nat /\ Len(Append(q, x)) = Len(q) + 1
  OBVIOUS
<1>2. /\ Append(q, x)[Len(q) + 1] = x
      /\ \A i \in 1..Len(q) : Append(q, x)[i] = q[i]
  BY <1>1
<1>3. \A i \in 1..(Len(q) + 1) : i = Len(q) + 1 \/ i \in 1..Len(q)
  BY <1>1
<1>4. ASSUME DistinctJobs(q), x.job \notin JobsOf(q),
             NEW i \in 1..Len(Append(q, x)), NEW k \in 1..Len(Append(q, x)),
             Append(q, x)[i].job = Append(q, x)[k].job
      PROVE  i = k
  <2>1. \A l \in 1..Len(q) : q[l].job \in JobsOf(q)
    BY DEF JobsOf, Elements
  <2>2. QED BY <1>1, <1>2, <1>3, <1>4, <2>1 DEF DistinctJobs
<1>5. JobsOf(Append(q, x)) = JobsOf(q) \cup {x.job}
  BY AppendElements DEF JobsOf
<1>6. QED BY <1>4, <1>5 DEF DistinctJobs

LEMMA HeadTailJobs ==
  ASSUME NEW S, NEW q \in Seq(S), q # <<>>
  PROVE  /\ JobsOf(q) = {Head(q).job} \cup JobsOf(Tail(q))
         /\ DistinctJobs(q) => DistinctJobs(Tail(q)) /\ Head(q).job \notin JobsOf(Tail(q))
<1>1. Len(q) \in Nat /\ Len(q) >= 1 /\ Head(q) = q[1]
  OBVIOUS
<1>2. /\ Len(Tail(q)) = Len(q) - 1
      /\ \A i \in 1..Len(Tail(q)) : Tail(q)[i] = q[i + 1]
  BY HeadTailProperties
<1>3. \A i \in 1..Len(Tail(q)) : i + 1 \in 1..Len(q) /\ i + 1 # 1
  BY <1>1, <1>2
<1>4. ASSUME DistinctJobs(q) PROVE DistinctJobs(Tail(q))
  BY <1>1, <1>2, <1>3, <1>4 DEF DistinctJobs
<1>5. ASSUME DistinctJobs(q) PROVE Head(q).job \notin JobsOf(Tail(q))
  <2>1. \A i \in 1..Len(Tail(q)) : Tail(q)[i].job # Head(q).job
    BY <1>1, <1>2, <1>3, <1>5 DEF DistinctJobs
  <2>2. QED BY <2>1 DEF JobsOf, Elements
<1>6. JobsOf(q) = {Head(q).job} \cup JobsOf(Tail(q))
  BY HeadTailElements DEF JobsOf
<1>7. QED BY <1>4, <1>5, <1>6

\* An executor takes a response for job j while it works on it.
TakesFor(s, j) ==
  /\ responses[s] # <<>> /\ responses'[s] = Tail(responses[s])
  /\ executor[s].job = j /\ Head(responses[s]).job = j

\* A job that waits at a fence stays there until its executor takes the response.
LEMMA StandsStays ==
  ASSUME TypeOK, \A th \in Threads : ThreadInv(th), \A s \in Slots : ExecutorInv(s), ThreadsApart,
         [Next]_vars, NEW s \in Slots, NEW j \in Jobs, NEW n, Stands(s, j, n),
         \A r \in Slots : ~TakesFor(r, j)
  PROVE  Stands(s, j, n)'
<1>1. Sent(j)'
  BY SentKept DEF Stands
<1>2. ASSUME UNCHANGED toExecutor, \A r \in Slots : executor'[r].job = j => executor'[r] = executor[r]
      PROVE  Stands(s, j, n)'
  BY <1>1, <1>2 DEF Stands
<1>3. ASSUME NEW r \in Slots, \A q \in Slots : q # r => executor'[q] = executor[q],
             executor'[r].job # j, UNCHANGED toExecutor
      PROVE  Stands(s, j, n)'
  BY <1>2, <1>3
<1>4. ASSUME NEW th \in Threads, ThreadStep(th) PROVE Stands(s, j, n)'
  <2>1. UNCHANGED executor
    BY <1>4, ThreadSteps
  <2>2. CASE UNCHANGED toExecutor
    BY <1>2, <2>1, <2>2
  <2>3. CASE Send(th) /\ ~UNCHANGED toExecutor
    <3>1. ThreadInv(th)
      OBVIOUS
    <3>5. PICK t \in Slots, g \in Generations, i \in Jobs :
                 /\ t = lease[th].slot /\ g = lease[th].gen /\ i = job[th]
                 /\ Elements(toExecutor'[t][g]) = Elements(toExecutor[t][g]) \cup {i}
                 /\ \A r \in Slots, h \in Generations : r # t \/ h # g => toExecutor'[r][h] = toExecutor[r][h]
      BY <2>3, <3>1, SentThere
    <3>4. i # j
      BY <2>3, <3>5 DEF Stands, Sent, Send, Unsent
    <3>6. \A r \in Slots, h \in Generations : j \notin Elements(toExecutor[r][h])
      BY DEF Stands
    <3>7. ASSUME NEW r \in Slots, NEW h \in Generations PROVE j \notin Elements(toExecutor'[r][h])
      <4>1. CASE r = t /\ h = g
        BY <3>4, <3>5, <3>6, <4>1
      <4>2. CASE r # t \/ h # g
        BY <3>5, <3>6, <4>2
      <4>3. QED BY <4>1, <4>2
    <3>8. QED BY <1>1, <2>1, <3>7 DEF Stands
  <2>4. QED
    BY <1>4, <2>2, <2>3 DEF ThreadStep, TakeEvent, HandleExited, HandleStarted, Drained, Execute, GetSlot,
       LeaseSlot, TakeRequest, ServeRequest, CheckExited, PollPipe, Recv, Release, pipeVars
<1>5. ASSUME NEW r \in Slots, ReceiveAssignment(r) PROVE Stands(s, j, n)'
  <2> DEFINE g == executor[r].gen
  <2>1. g \in Generations /\ toExecutor[r][g] \in Seq(Jobs) /\ toExecutor[r][g] # <<>>
    BY <1>5, ExecutorTyped DEF ReceiveAssignment
  <2>2. Elements(toExecutor[r][g]) = {Head(toExecutor[r][g])} \cup Elements(Tail(toExecutor[r][g]))
    BY <2>1, HeadTailElements
  <2>3. ASSUME NEW q \in Slots, NEW h \in Generations PROVE j \notin Elements(toExecutor'[q][h])
    <3>1. j \notin Elements(toExecutor[q][h]) /\ j \notin Elements(Tail(toExecutor[r][g]))
      BY <2>1, <2>2 DEF Stands
    <3>2. CASE q = r /\ h = g
      BY <1>5, <3>1, <3>2, ReceiveChanges
    <3>3. CASE q # r \/ h # g
      BY <1>5, <3>1, <3>3, ReceiveChanges
    <3>4. QED BY <3>2, <3>3
  <2>4. executor'[r].job # j /\ \A q \in Slots : q # r => executor'[q] = executor[q]
    <3>1. Head(toExecutor[r][g]) # j
      BY <2>1, <2>2 DEF Stands
    <3>2. QED BY <1>5, <3>1, ReceiveChanges
  <2>5. QED BY <1>1, <2>3, <2>4 DEF Stands
<1>6. ASSUME NEW r \in Slots, RequestSnapshot(r) PROVE Stands(s, j, n)'
  <2>1. executor[r].state = "running" /\ executor[r].fences + 1 \in 0..MaxFences
    BY <1>6, ExecutorTyped, DispatchAssumption DEF RequestSnapshot
  <2>2. executor[r].job # j
    BY <2>1 DEF Stands
  <2>3. /\ executor'[r].job = executor[r].job
        /\ \A q \in Slots : q # r => executor'[q] = executor[q]
    <3>1. SetExecutor(r, "fence", executor[r].job, executor[r].fences + 1)
      BY <1>6 DEF RequestSnapshot
    <3>2. QED BY <2>1, <3>1, SetExecutorChanges, ExecutorTyped
  <2>4. UNCHANGED toExecutor
    BY <1>6 DEF RequestSnapshot, pipeVars
  <2>5. QED BY <1>3, <2>2, <2>3, <2>4
<1>7. ASSUME NEW r \in Slots, GetSnapshot(r) PROVE Stands(s, j, n)'
  <2>1. /\ executor[r].state = "fence" /\ UNCHANGED toExecutor
        /\ responses[r] # <<>> /\ responses' = [responses EXCEPT ![r] = Tail(@)]
    BY <1>7 DEF GetSnapshot
  <2>2. executor[r].job \in Jobs
    BY <2>1, ExecutorTyped DEF ExecutorInv
  <2>3. CASE Complete(r, "FAILED")
    <3>1. executor'[r].job = NoJob /\ \A q \in Slots : q # r => executor'[q] = executor[q]
      BY <2>2, <2>3, CompleteChanges
    <3>2. QED BY <1>3, <2>1, <3>1, DispatchAssumption
  <2>4. CASE Head(responses[r]).job = executor[r].job /\ SetExecutor(r, "running", executor[r].job, executor[r].fences)
    <3>1. executor'[r].job = executor[r].job /\ \A q \in Slots : q # r => executor'[q] = executor[q]
      BY <2>4, SetExecutorChanges, ExecutorTyped
    <3>2. responses'[r] = Tail(responses[r])
      BY <2>1 DEF TypeOK
    <3>3. executor[r].job # j
      BY <2>1, <2>4, <3>2 DEF TakesFor
    <3>4. QED BY <1>3, <2>1, <3>1, <3>3
  <2>5. QED BY <1>7, <2>3, <2>4 DEF GetSnapshot
<1>8. ASSUME NEW r \in Slots, FinishTask(r) PROVE Stands(s, j, n)'
  <2>1. executor[r].job \in Jobs /\ UNCHANGED toExecutor
    BY <1>8, ExecutorTyped DEF FinishTask, ExecutorInv
  <2>2. PICK status \in {"COMPLETED", "FAILED"} : Complete(r, status)
    BY <1>8 DEF FinishTask
  <2>3. executor'[r].job = NoJob /\ \A q \in Slots : q # r => executor'[q] = executor[q]
    BY <2>1, <2>2, CompleteChanges
  <2>4. QED BY <1>3, <2>1, <2>3, DispatchAssumption
<1>9. ASSUME NEW r \in Slots, Die(r) PROVE Stands(s, j, n)'
  <2>1. UNCHANGED toExecutor /\ SetExecutor(r, "dead", NoJob, 0) /\ 0 \in 0..MaxFences
    BY <1>9, DispatchAssumption DEF Die, pipeVars
  <2>2. executor'[r].job = NoJob /\ \A q \in Slots : q # r => executor'[q] = executor[q]
    BY <2>1, SetExecutorChanges
  <2>3. QED BY <1>3, <2>1, <2>2, DispatchAssumption
<1>10. ASSUME NEW r \in Slots, StartReplacement(r) PROVE Stands(s, j, n)'
  <2>1. UNCHANGED toExecutor
    BY <1>10 DEF StartReplacement, pipeVars
  <2>2. executor'[r].job = NoJob /\ \A q \in Slots : q # r => executor'[q] = executor[q]
    BY <1>10, ReplacementChanges
  <2>3. QED BY <1>3, <2>1, <2>2, DispatchAssumption
<1>11. ASSUME NEW r \in Slots, ReportExit(r) PROVE Stands(s, j, n)'
  BY <1>2, <1>11 DEF ReportExit, pipeVars
<1>12. ASSUME Ended \/ UNCHANGED vars PROVE Stands(s, j, n)'
  <2>1. UNCHANGED <<toExecutor, executor>>
    BY <1>12 DEF Ended, vars
  <2>2. QED BY <1>2, <2>1
<1>13. QED
  BY <1>4, <1>5, <1>6, <1>7, <1>8, <1>9, <1>10, <1>11, <1>12 DEF Next, ExecutorStep, SupervisorStep

\* A queue that stays or grows was not taken from.
LEMMA TailsDiffer ==
  ASSUME NEW S, NEW q \in Seq(S), q # <<>>
  PROVE  Tail(q) # q /\ \A x \in S : Tail(q) # Append(q, x)
<1> DEFINE t == Tail(q)
<1>1. Len(q) \in Nat /\ Len(t) = Len(q) - 1
  BY HeadTailProperties
<1> HIDE DEF t
<1>2. t # q
  <2>1. SUFFICES ASSUME t = q PROVE FALSE
    OBVIOUS
  <2>2. Len(t) = Len(q)
    BY <2>1, Zenon
  <2>3. QED BY <1>1, <2>2
<1>3. ASSUME NEW x \in S, t = Append(q, x) PROVE FALSE
  <2>1. Len(Append(q, x)) = Len(q) + 1
    OBVIOUS
  <2>2. Len(t) = Len(Append(q, x))
    BY <1>3, Zenon
  <2>3. QED BY <1>1, <2>1, <2>2
<1>4. QED BY <1>2, <1>3 DEF t

\* Requests and responses have their types, and so have those a thread serves.
LEMMA AskedTyped ==
  ASSUME TypeOK, \A th \in Threads : ThreadInv(th)
  PROVE  /\ \A q \in Elements(requests) : q.slot \in Slots /\ q.job \in Jobs
         /\ \A s \in Slots : \A a \in Elements(responses[s]) : a.job \in Jobs
         /\ \A th \in Threads : pc[th] = "serve" => held[th].slot \in Slots /\ held[th].job \in Jobs
<1>1. Elements(requests) \subseteq Request
  BY ElementsTyped DEF TypeOK
<1>2. \A s \in Slots : Elements(responses[s]) \subseteq Response
  BY ElementsTyped DEF TypeOK
<1>3. \A th \in Threads : pc[th] = "serve" => held[th] \in Request
  BY DEF ThreadInv
<1>4. QED BY <1>1, <1>2, <1>3 DEF Request, Response

\* A step that leaves the queues and the serving threads alone disturbs nothing.
LEMMA AskedFramed ==
  ASSUME TypeOK, \A th \in Threads : ThreadInv(th), AskedWhere, AskedOnce, UNCHANGED fenceVars,
         \A th \in Threads : pc'[th] = "serve" => pc[th] = "serve" /\ held'[th] = held[th],
         \A s \in Slots, j \in Jobs : \A n : Stands(s, j, n) => Stands(s, j, n)'
  PROVE  AskedWhere' /\ AskedOnce'
<1>1. UNCHANGED <<requests, responses>>
  BY DEF fenceVars
<1>2. \A q \in Elements(requests) : Stands(q.slot, q.job, q.n)'
  BY AskedTyped DEF AskedWhere
<1>3. ASSUME NEW s \in Slots, NEW a \in Elements(responses[s]) PROVE Stands(s, a.job, a.n)'
  BY AskedTyped DEF AskedWhere
<1>4. ASSUME NEW th \in Threads, pc'[th] = "serve"
      PROVE  Stands(held[th].slot, held[th].job, held[th].n)' /\ held'[th] = held[th]
  <2>1. pc[th] = "serve" /\ held'[th] = held[th]
    BY <1>4
  <2>2. PICK r \in Request : r = held[th]
    BY <2>1 DEF ThreadInv
  <2>3. r.slot \in Slots /\ r.job \in Jobs
    BY DEF Request
  <2>4. Stands(r.slot, r.job, r.n)
    BY <2>1, <2>2 DEF AskedWhere
  <2>5. Stands(r.slot, r.job, r.n)'
    BY <2>3, <2>4
  <2>6. QED BY <2>1, <2>2, <2>5
<1>5. AskedWhere'
  BY <1>1, <1>2, <1>3, <1>4 DEF AskedWhere
<1>6. AskedOnce'
  BY <1>1 DEF AskedOnce
<1>7. QED BY <1>5, <1>6

\* What waits at a fence stays there when no response is taken.
LEMMA AllStand ==
  ASSUME TypeOK, \A th \in Threads : ThreadInv(th), \A s \in Slots : ExecutorInv(s), ThreadsApart,
         [Next]_vars,
         \A r \in Slots : responses[r] # <<>> => responses'[r] # Tail(responses[r]),
         NEW s \in Slots, NEW j \in Jobs, NEW n, Stands(s, j, n)
  PROVE  Stands(s, j, n)'
BY StandsStays DEF TakesFor

\* A request is put when no other for its job is on its way.
LEMMA AskedRequested ==
  ASSUME DispatchInv, [Next]_vars, AskedWhere, AskedOnce, NEW s \in Slots, RequestSnapshot(s)
  PROVE  AskedWhere' /\ AskedOnce'
<1>0. /\ TypeOK /\ ThreadsApart /\ OneRun
      /\ \A th \in Threads : ThreadInv(th)
      /\ \A r \in Slots : ExecutorInv(r)
  BY DEF DispatchInv
<1>1. /\ executor[s].state = "running" /\ executor[s].fences < MaxFences
      /\ UNCHANGED <<responses, toExecutor, pc, held, executed>>
  BY DEF RequestSnapshot, pipeVars, threadVars, resultVars
<1>2. PICK j \in Jobs, n \in 1..MaxFences : j = executor[s].job /\ n = executor[s].fences + 1
  <2>1. executor[s].job \in Jobs
    BY <1>0, <1>1, ExecutorTyped DEF ExecutorInv
  <2>2. executor[s].fences + 1 \in 1..MaxFences
    BY <1>0, <1>1, ExecutorTyped, DispatchAssumption
  <2>3. QED BY <2>1, <2>2
<1> DEFINE q == [slot |-> s, job |-> j, n |-> n]
<1>3. q \in Request /\ requests \in Seq(Request) /\ requests' = Append(requests, q)
  BY <1>0, <1>2 DEF Request, TypeOK, RequestSnapshot
<1>4. q.slot = s /\ q.job = j /\ q.n = n
  OBVIOUS
<1> HIDE DEF q
<1>5. /\ Elements(requests') = Elements(requests) \cup {q}
      /\ JobsOf(requests') = JobsOf(requests) \cup {j}
      /\ DistinctJobs(requests) /\ j \notin JobsOf(requests) => DistinctJobs(requests')
  BY <1>3, <1>4, AppendElements, AppendJobs
<1>6. \A r \in Slots : \A i : ~Stands(r, j, i)
  BY <1>1, <1>2 DEF Stands
<1>7. /\ j \notin JobsOf(requests)
      /\ \A r \in Slots : j \notin JobsOf(responses[r])
      /\ \A th \in Threads : pc[th] = "serve" => held[th].job # j
  <2>1. ASSUME NEW e \in Elements(requests) PROVE e.job # j
    BY <1>0, <1>6, AskedTyped DEF AskedWhere
  <2>2. ASSUME NEW r \in Slots, NEW a \in Elements(responses[r]) PROVE a.job # j
    BY <1>0, <1>6 DEF AskedWhere
  <2>3. ASSUME NEW th \in Threads, pc[th] = "serve" PROVE held[th].job # j
    <3>1. held[th].slot \in Slots
      BY <1>0, <2>3, AskedTyped
    <3>2. Stands(held[th].slot, held[th].job, held[th].n)
      BY <2>3 DEF AskedWhere
    <3>3. QED BY <1>6, <3>1, <3>2
  <2>4. QED BY <2>1, <2>2, <2>3 DEF JobsOf
<1>8. Stands(s, j, n)'
  <2>1. Sent(j)'
    <3>1. executor[s].gen \in Generations
      BY <1>0, ExecutorTyped
    <3>2. Sent(j)
      BY <1>0, <1>2, <3>1 DEF OneRun
    <3>3. QED BY <1>0, <3>2, SentKept
  <2>2. \A r \in Slots, h \in Generations : j \notin Elements(toExecutor'[r][h])
    BY <1>0, <1>1, <1>2 DEF OneRun
  <2>3. /\ executor'[s].job = j /\ executor'[s].state = "fence" /\ executor'[s].fences = n
        /\ \A r \in Slots : r # s => executor'[r] = executor[r]
    <3>1. SetExecutor(s, "fence", j, n) /\ n \in 0..MaxFences
      BY <1>2 DEF RequestSnapshot
    <3>2. QED BY <1>0, <3>1, SetExecutorChanges
  <2>4. \A r \in Slots : executor[r].job = j => r = s
    BY <1>0, <1>2, DispatchAssumption DEF OneRun
  <2>5. QED BY <2>1, <2>2, <2>3, <2>4 DEF Stands
<1>9. \A r \in Slots, i \in Jobs : \A k : Stands(r, i, k) => Stands(r, i, k)'
  <2>1. \A r \in Slots : responses[r] # <<>> => responses'[r] # Tail(responses[r])
    BY <1>0, <1>1, TailsDiffer DEF TypeOK
  <2>2. QED BY <1>0, <2>1, AllStand
<1>10. AskedWhere'
  <2>1. ASSUME NEW e \in Elements(requests') PROVE Stands(e.slot, e.job, e.n)'
    BY <1>0, <1>4, <1>5, <1>8, <1>9, AskedTyped DEF AskedWhere
  <2>2. ASSUME NEW r \in Slots, NEW a \in Elements(responses'[r]) PROVE Stands(r, a.job, a.n)'
    BY <1>0, <1>1, <1>9, AskedTyped DEF AskedWhere
  <2>3. ASSUME NEW th \in Threads, pc'[th] = "serve" PROVE Stands(held[th].slot, held[th].job, held[th].n)'
    <3>1. PICK e \in Request : e = held[th]
      BY <1>0, <1>1, <2>3 DEF ThreadInv
    <3>2. Stands(e.slot, e.job, e.n) /\ e.slot \in Slots /\ e.job \in Jobs
      BY <1>1, <2>3, <3>1 DEF AskedWhere, Request
    <3>3. Stands(e.slot, e.job, e.n)' /\ held'[th] = e
      BY <1>1, <1>9, <3>1, <3>2
    <3>4. QED BY <3>3
  <2>4. QED BY <2>1, <2>2, <2>3 DEF AskedWhere
<1>11. AskedOnce'
  BY <1>1, <1>5, <1>7 DEF AskedOnce
<1>12. QED BY <1>10, <1>11

\* A request that a thread takes is no longer in the queue.
LEMMA AskedTaken ==
  ASSUME DispatchInv, [Next]_vars, AskedWhere, AskedOnce, NEW th \in Threads, TakeRequest(th),
         requests # <<>>
  PROVE  AskedWhere' /\ AskedOnce'
<1>0. /\ TypeOK /\ ThreadsApart
      /\ \A ot \in Threads : ThreadInv(ot)
      /\ \A r \in Slots : ExecutorInv(r)
  BY DEF DispatchInv
<1>1. /\ UNCHANGED responses /\ requests' = Tail(requests)
      /\ held'[th] = Head(requests) /\ pc'[th] = "serve"
      /\ \A ot \in Threads : ot # th => pc'[ot] = pc[ot] /\ held'[ot] = held[ot]
  BY <1>0 DEF TakeRequest, Goto, TypeOK
<1>2. /\ Head(requests) \in Request /\ Head(requests) \in Elements(requests)
      /\ Elements(requests) = {Head(requests)} \cup Elements(requests')
      /\ JobsOf(requests) = {Head(requests).job} \cup JobsOf(requests')
      /\ DistinctJobs(requests) => DistinctJobs(requests') /\ Head(requests).job \notin JobsOf(requests')
  BY <1>0, <1>1, HeadTailElements, HeadTailJobs DEF TypeOK
<1>3. PICK q \in Request : q = Head(requests)
  BY <1>2
<1>4. q.slot \in Slots /\ q.job \in Jobs /\ Stands(q.slot, q.job, q.n)
  BY <1>2, <1>3 DEF Request, AskedWhere
<1>5. \A r \in Slots, j \in Jobs : \A n : Stands(r, j, n) => Stands(r, j, n)'
  <2>1. \A r \in Slots : responses[r] # <<>> => responses'[r] # Tail(responses[r])
    BY <1>0, <1>1, TailsDiffer DEF TypeOK
  <2>2. QED BY <1>0, <2>1, AllStand
<1>6. AskedWhere'
  <2>1. ASSUME NEW e \in Elements(requests') PROVE Stands(e.slot, e.job, e.n)'
    BY <1>0, <1>2, <1>5, AskedTyped DEF AskedWhere
  <2>2. ASSUME NEW r \in Slots, NEW a \in Elements(responses'[r]) PROVE Stands(r, a.job, a.n)'
    BY <1>0, <1>1, <1>5, AskedTyped DEF AskedWhere
  <2>3. ASSUME NEW ot \in Threads, pc'[ot] = "serve" PROVE Stands(held[ot].slot, held[ot].job, held[ot].n)'
    <3>1. PICK e \in Request : e = held'[ot]
      BY <1>0, <1>1, <1>2, <2>3 DEF ThreadInv
    <3>2. Stands(e.slot, e.job, e.n) /\ e.slot \in Slots /\ e.job \in Jobs
      <4>1. CASE ot = th
        BY <1>1, <1>3, <1>4, <3>1, <4>1
      <4>2. CASE ot # th
        BY <1>1, <2>3, <3>1, <4>2 DEF AskedWhere, Request
      <4>3. QED BY <4>1, <4>2
    <3>3. Stands(e.slot, e.job, e.n)'
      BY <1>5, <3>2
    <3>4. QED BY <3>1, <3>3
  <2>4. QED BY <2>1, <2>2, <2>3 DEF AskedWhere
<1>7. AskedOnce'
  <2>1. /\ q.job \in JobsOf(requests) /\ q.job \notin JobsOf(requests')
        /\ JobsOf(requests') \subseteq JobsOf(requests) /\ DistinctJobs(requests')
    BY <1>2, <1>3 DEF AskedOnce
  <2>2. \A s \in Slots : JobsOf(responses[s]) \cap JobsOf(requests) = {}
    BY DEF AskedOnce
  <2>3. ASSUME NEW ot \in Threads, pc'[ot] = "serve"
        PROVE  /\ held'[ot].job \notin JobsOf(requests')
               /\ \A s \in Slots : held'[ot].job \notin JobsOf(responses[s])
               /\ ot # th => held'[ot].job # q.job
    <3>1. CASE ot = th
      BY <1>1, <1>3, <2>1, <2>2, <3>1
    <3>2. CASE ot # th
      BY <1>1, <2>1, <2>3, <3>2 DEF AskedOnce
    <3>3. QED BY <3>1, <3>2
  <2>4. ASSUME NEW ot \in Threads, NEW it \in Threads, pc'[ot] = "serve", pc'[it] = "serve",
               held'[it].job = held'[ot].job
        PROVE  it = ot
    <3>1. held'[th].job = q.job
      BY <1>1, <1>3
    <3>2. CASE ot = th \/ it = th
      BY <2>3, <2>4, <3>1, <3>2
    <3>3. CASE ot # th /\ it # th
      BY <1>1, <2>4, <3>3 DEF AskedOnce
    <3>4. QED BY <3>2, <3>3
  <2>5. QED BY <1>1, <2>1, <2>2, <2>3, <2>4 DEF AskedOnce
<1>8. QED BY <1>6, <1>7

\* The answer to a request is put in the queue of the executor that asked.
LEMMA AskedServed ==
  ASSUME DispatchInv, [Next]_vars, AskedWhere, AskedOnce, NEW th \in Threads, ServeRequest(th)
  PROVE  AskedWhere' /\ AskedOnce'
<1>0. /\ TypeOK /\ ThreadsApart
      /\ \A ot \in Threads : ThreadInv(ot)
      /\ \A r \in Slots : ExecutorInv(r)
  BY DEF DispatchInv
<1>1. /\ UNCHANGED requests /\ pc[th] = "serve" /\ pc'[th] = "fence"
      /\ \A ot \in Threads : ot # th => pc'[ot] = pc[ot] /\ held'[ot] = held[ot]
  BY <1>0 DEF ServeRequest, Goto, TypeOK
<1>2. PICK q \in Request : q = held[th]
  BY <1>0, <1>1 DEF ThreadInv
<1>3. PICK s \in Slots, j \in Jobs, n \in 1..MaxFences : s = q.slot /\ j = q.job /\ n = q.n
  BY DEF Request
<1>4. Stands(s, j, n)
  BY <1>1, <1>2, <1>3 DEF AskedWhere
<1>5. PICK ok \in BOOLEAN :
        responses' = [responses EXCEPT ![s] = Append(@, [job |-> j, n |-> n, ok |-> ok])]
  BY <1>2, <1>3 DEF ServeRequest
<1> DEFINE a == [job |-> j, n |-> n, ok |-> ok]
<1>6. a \in Response /\ a.job = j /\ a.n = n
  BY DEF Response
<1> HIDE DEF a
<1>7. /\ responses'[s] = Append(responses[s], a)
      /\ \A r \in Slots : r # s => responses'[r] = responses[r]
      /\ \A r \in Slots : responses[r] \in Seq(Response)
  BY <1>0, <1>5 DEF TypeOK, a
<1>8. /\ Elements(responses'[s]) = Elements(responses[s]) \cup {a}
      /\ JobsOf(responses'[s]) = JobsOf(responses[s]) \cup {j}
      /\ DistinctJobs(responses[s]) /\ j \notin JobsOf(responses[s]) => DistinctJobs(responses'[s])
  BY <1>6, <1>7, AppendElements, AppendJobs
<1>9. \A r \in Slots, i \in Jobs : \A k : Stands(r, i, k) => Stands(r, i, k)'
  <2>1. \A r \in Slots : responses[r] # <<>> => responses'[r] # Tail(responses[r])
    BY <1>6, <1>7, TailsDiffer
  <2>2. QED BY <1>0, <2>1, AllStand
<1>10. AskedWhere'
  <2>1. ASSUME NEW e \in Elements(requests') PROVE Stands(e.slot, e.job, e.n)'
    BY <1>0, <1>1, <1>9, AskedTyped DEF AskedWhere
  <2>2. ASSUME NEW r \in Slots, NEW b \in Elements(responses'[r]) PROVE Stands(r, b.job, b.n)'
    <3>1. CASE b \in Elements(responses[r])
      BY <1>0, <1>9, <3>1, AskedTyped DEF AskedWhere
    <3>2. CASE r = s /\ b = a
      BY <1>4, <1>6, <1>9, <3>2
    <3>3. QED BY <1>7, <1>8, <3>1, <3>2
  <2>3. ASSUME NEW ot \in Threads, pc'[ot] = "serve" PROVE Stands(held[ot].slot, held[ot].job, held[ot].n)'
    <3>1. ot # th
      BY <1>1, <2>3
    <3>2. PICK e \in Request : e = held[ot]
      BY <1>0, <1>1, <2>3, <3>1 DEF ThreadInv
    <3>3. Stands(e.slot, e.job, e.n) /\ e.slot \in Slots /\ e.job \in Jobs
      BY <1>1, <2>3, <3>1, <3>2 DEF AskedWhere, Request
    <3>4. Stands(e.slot, e.job, e.n)' /\ held'[ot] = e
      BY <1>1, <1>9, <3>1, <3>2, <3>3
    <3>5. QED BY <3>4
  <2>4. QED BY <2>1, <2>2, <2>3 DEF AskedWhere
<1>11. AskedOnce'
  <2>1. /\ j \notin JobsOf(requests)
        /\ \A r \in Slots : j \notin JobsOf(responses[r])
        /\ \A ot \in Threads : pc[ot] = "serve" /\ held[ot].job = j => ot = th
    BY <1>1, <1>2, <1>3 DEF AskedOnce
  <2>2. \A r \in Slots : DistinctJobs(responses'[r])
    BY <1>7, <1>8, <2>1 DEF AskedOnce
  <2>3. \A r \in Slots : JobsOf(responses'[r]) \subseteq JobsOf(responses[r]) \cup (IF r = s THEN {j} ELSE {})
    BY <1>7, <1>8
  <2>4. ASSUME NEW r \in Slots, NEW t \in Slots, r # t, NEW i \in JobsOf(responses'[r]) \cap JobsOf(responses'[t])
        PROVE  FALSE
    <3>1. CASE i = j
      BY <2>1, <2>3, <2>4, <3>1
    <3>2. CASE i # j
      <4>1. i \in JobsOf(responses[r]) \cap JobsOf(responses[t])
        BY <2>3, <2>4, <3>2
      <4>2. QED BY <2>4, <4>1 DEF AskedOnce
    <3>3. QED BY <3>1, <3>2
  <2>5. ASSUME NEW r \in Slots PROVE JobsOf(responses'[r]) \cap JobsOf(requests) = {}
    <3>1. JobsOf(responses[r]) \cap JobsOf(requests) = {}
      BY DEF AskedOnce
    <3>2. QED BY <2>1, <2>3, <3>1
  <2>6. ASSUME NEW ot \in Threads, pc'[ot] = "serve"
        PROVE  /\ ot # th /\ pc[ot] = "serve" /\ held'[ot] = held[ot]
               /\ held[ot].job \notin JobsOf(requests)
               /\ \A r \in Slots : held[ot].job \notin JobsOf(responses'[r])
    <3>1. ot # th /\ pc[ot] = "serve" /\ held'[ot] = held[ot]
      BY <1>1, <2>6
    <3>2. /\ held[ot].job # j /\ held[ot].job \notin JobsOf(requests)
          /\ \A r \in Slots : held[ot].job \notin JobsOf(responses[r])
      BY <2>1, <3>1 DEF AskedOnce
    <3>3. QED BY <2>3, <3>1, <3>2
  <2>7. ASSUME NEW ot \in Threads, NEW it \in Threads, pc'[ot] = "serve", pc'[it] = "serve",
               held'[it].job = held'[ot].job
        PROVE  it = ot
    <3>1. /\ pc[ot] = "serve" /\ pc[it] = "serve" /\ held'[ot] = held[ot] /\ held'[it] = held[it]
      BY <2>6, <2>7
    <3>2. QED BY <2>7, <3>1 DEF AskedOnce
  <2>8. DistinctJobs(requests)
    BY DEF AskedOnce
  <2>9. QED BY <1>1, <2>2, <2>4, <2>5, <2>6, <2>7, <2>8 DEF AskedOnce
<1>12. QED BY <1>10, <1>11

\* The response that an executor takes was the only one for its job.
LEMMA AskedAnswered ==
  ASSUME DispatchInv, [Next]_vars, AskedWhere, AskedOnce, NEW s \in Slots, GetSnapshot(s)
  PROVE  AskedWhere' /\ AskedOnce'
<1>0. /\ TypeOK /\ ThreadsApart
      /\ \A th \in Threads : ThreadInv(th)
      /\ \A r \in Slots : ExecutorInv(r)
  BY DEF DispatchInv
<1>1. /\ UNCHANGED <<requests, pc, held>> /\ responses[s] # <<>>
      /\ responses' = [responses EXCEPT ![s] = Tail(@)]
  BY DEF GetSnapshot, threadVars
<1>2. /\ responses'[s] = Tail(responses[s])
      /\ \A r \in Slots : r # s => responses'[r] = responses[r]
      /\ \A r \in Slots : responses[r] \in Seq(Response)
  BY <1>0, <1>1 DEF TypeOK
<1>3. /\ Head(responses[s]) \in Elements(responses[s])
      /\ Elements(responses[s]) = {Head(responses[s])} \cup Elements(responses'[s])
      /\ JobsOf(responses[s]) = {Head(responses[s]).job} \cup JobsOf(responses'[s])
      /\ DistinctJobs(responses[s])
           => DistinctJobs(responses'[s]) /\ Head(responses[s]).job \notin JobsOf(responses'[s])
  BY <1>1, <1>2, HeadTailElements, HeadTailJobs
<1>4. PICK j : j = Head(responses[s]).job
  OBVIOUS
<1>5. /\ j \in JobsOf(responses[s]) /\ j \notin JobsOf(responses'[s]) /\ DistinctJobs(responses'[s])
      /\ JobsOf(responses'[s]) \subseteq JobsOf(responses[s])
  BY <1>3, <1>4 DEF AskedOnce
<1>6. /\ j \notin JobsOf(requests)
      /\ \A r \in Slots : r # s => j \notin JobsOf(responses[r])
      /\ \A th \in Threads : pc[th] = "serve" => held[th].job # j
  BY <1>5 DEF AskedOnce
<1>7. \A r \in Slots, i \in Jobs : i # j => \A k : Stands(r, i, k) => Stands(r, i, k)'
  <2>1. \A r \in Slots, i \in Jobs : i # j => ~TakesFor(r, i)
    <3>1. \A r \in Slots : r # s /\ responses[r] # <<>> => responses'[r] # Tail(responses[r])
      BY <1>2, TailsDiffer
    <3>2. QED BY <1>4, <3>1 DEF TakesFor
  <2>2. QED BY <1>0, <2>1, StandsStays
<1>8. AskedWhere'
  <2>1. ASSUME NEW e \in Elements(requests') PROVE Stands(e.slot, e.job, e.n)'
    <3>1. e.job # j /\ e \in Elements(requests)
      BY <1>1, <1>6 DEF JobsOf
    <3>2. QED BY <1>0, <1>7, <3>1, AskedTyped DEF AskedWhere
  <2>2. ASSUME NEW r \in Slots, NEW a \in Elements(responses'[r]) PROVE Stands(r, a.job, a.n)'
    <3>1. a \in Elements(responses[r]) /\ a.job \in JobsOf(responses'[r])
      BY <1>2, <1>3 DEF JobsOf
    <3>2. a.job # j
      BY <1>2, <1>5, <1>6, <3>1
    <3>3. QED BY <1>0, <1>7, <3>1, <3>2, AskedTyped DEF AskedWhere
  <2>3. ASSUME NEW th \in Threads, pc'[th] = "serve" PROVE Stands(held[th].slot, held[th].job, held[th].n)'
    <3>1. PICK e \in Request : e = held[th]
      BY <1>0, <1>1, <2>3 DEF ThreadInv
    <3>2. Stands(e.slot, e.job, e.n) /\ e.slot \in Slots /\ e.job \in Jobs /\ e.job # j
      BY <1>1, <1>6, <2>3, <3>1 DEF AskedWhere, Request
    <3>3. Stands(e.slot, e.job, e.n)' /\ held'[th] = e
      BY <1>1, <1>7, <3>1, <3>2
    <3>4. QED BY <3>3
  <2>4. QED BY <2>1, <2>2, <2>3 DEF AskedWhere
<1>9. AskedOnce'
  <2>1. \A r \in Slots : JobsOf(responses'[r]) \subseteq JobsOf(responses[r])
    BY <1>2, <1>5
  <2>2. \A r \in Slots : DistinctJobs(responses'[r])
    BY <1>2, <1>5 DEF AskedOnce
  <2>3. QED BY <1>1, <2>1, <2>2 DEF AskedOnce
<1>10. QED BY <1>8, <1>9

\* The steps that concern the queues of requests and responses.
LEMMA FenceSteps ==
  ASSUME TypeOK, \A th \in Threads : ThreadInv(th), Next
  PROVE  \/ /\ UNCHANGED fenceVars
            /\ \A th \in Threads : pc'[th] = "serve" => pc[th] = "serve" /\ held'[th] = held[th]
         \/ \E s \in Slots : RequestSnapshot(s) \/ GetSnapshot(s)
         \/ \E th \in Threads : ServeRequest(th) \/ (TakeRequest(th) /\ requests # <<>>)
<1> DEFINE Idle == /\ UNCHANGED fenceVars
                   /\ \A th \in Threads : pc'[th] = "serve" => pc[th] = "serve" /\ held'[th] = held[th]
<1>1. ASSUME NEW th \in Threads, ThreadStep(th),
             ~(ServeRequest(th) \/ (TakeRequest(th) /\ requests # <<>>))
      PROVE  Idle
  <2>1. \A ot \in Threads : ot # th => pc'[ot] = pc[ot] /\ held'[ot] = held[ot]
    BY <1>1, OthersStay
  <2>2. CASE TakeRequest(th)
    <3>1. UNCHANGED fenceVars /\ pc'[th] = "drain wait"
      BY <1>1, <2>2 DEF TakeRequest, fenceVars, Goto, TypeOK
    <3>2. QED BY <2>1, <3>1
  <2>3. CASE TakeEvent(th) \/ HandleExited(th) \/ HandleStarted(th)
    <3>1. UNCHANGED fenceVars /\ pc'[th] = pc[th] /\ pc[th] # "serve"
      BY <2>3 DEF TakeEvent, HandleExited, HandleStarted, Draining
    <3>2. QED BY <2>1, <3>1
  <2>4. CASE Drained(th)
    <3>1. UNCHANGED fenceVars /\ pc[th] \in Draining
      BY <2>4 DEF Drained
    <3>2. pc'[th] # "serve"
      <4>1. CASE pc[th] = "drain lease"
        BY <2>4, <4>1 DEF Drained, Goto, TypeOK
      <4>2. CASE pc[th] = "drain wait"
        BY <2>4, <4>2 DEF Drained, Goto, TypeOK
      <4>3. CASE pc[th] = "drain release"
        BY <2>4, <4>3 DEF Drained, Goto, TypeOK
      <4>4. QED BY <3>1, <4>1, <4>2, <4>3 DEF Draining
    <3>3. QED BY <2>1, <3>1, <3>2
  <2>5. CASE Execute(th) \/ GetSlot(th) \/ LeaseSlot(th) \/ Release(th)
    <3>1. UNCHANGED fenceVars
      BY <2>5 DEF Execute, GetSlot, LeaseSlot, Release
    <3>2. CASE Execute(th) \/ GetSlot(th)
      BY <2>1, <3>1, <3>2 DEF Execute, GetSlot, Goto, TypeOK
    <3>3. CASE LeaseSlot(th) \/ Release(th)
      BY <2>1, <3>1, <3>3 DEF LeaseSlot, Release, Goto, TypeOK
    <3>4. QED BY <2>5, <3>2, <3>3
  <2>6. CASE Send(th) \/ CheckExited(th) \/ PollPipe(th) \/ Recv(th)
    <3>1. UNCHANGED fenceVars
      BY <2>6 DEF Send, CheckExited, PollPipe, Recv
    <3>2. pc'[th] # "serve"
      BY <2>6 DEF Send, CheckExited, PollPipe, Recv, BrokenPipe, Return, Goto, TypeOK
    <3>3. QED BY <2>1, <3>1, <3>2
  <2>7. QED
    BY <1>1, <2>2, <2>3, <2>4, <2>5, <2>6, Zenon DEF ThreadStep
<1>2. ASSUME NEW s \in Slots, ExecutorStep(s) \/ SupervisorStep(s) \/ Die(s),
             ~(RequestSnapshot(s) \/ GetSnapshot(s))
      PROVE  Idle
  <2>1. UNCHANGED threadVars
    BY <1>2, ProcessSteps
  <2>2. UNCHANGED fenceVars
    BY <1>2 DEF ExecutorStep, SupervisorStep, ReceiveAssignment, FinishTask, ReportExit, StartReplacement, Die
  <2>3. QED BY <2>1, <2>2 DEF threadVars
<1>3. ASSUME Ended PROVE Idle
  BY <1>3 DEF Ended, vars, fenceVars
<1>4. QED BY <1>1, <1>2, <1>3, Zenon DEF Next

LEMMA AskedKept ==
  ASSUME DispatchInv, AskedWhere, AskedOnce, [Next]_vars
  PROVE  AskedWhere' /\ AskedOnce'
<1>0. /\ TypeOK /\ ThreadsApart
      /\ \A th \in Threads : ThreadInv(th)
      /\ \A s \in Slots : ExecutorInv(s)
  BY DEF DispatchInv
<1>1. ASSUME UNCHANGED fenceVars,
             \A th \in Threads : pc'[th] = "serve" => pc[th] = "serve" /\ held'[th] = held[th]
      PROVE  AskedWhere' /\ AskedOnce'
  <2>1. \A s \in Slots : responses[s] # <<>> => responses'[s] # Tail(responses[s])
    BY <1>0, <1>1, TailsDiffer DEF TypeOK, fenceVars
  <2>2. \A s \in Slots, j \in Jobs : \A n : Stands(s, j, n) => Stands(s, j, n)'
    BY <1>0, <2>1, AllStand
  <2>3. QED BY <1>0, <1>1, <2>2, AskedFramed
<1>2. CASE UNCHANGED vars
  <2>1. /\ UNCHANGED fenceVars
        /\ \A th \in Threads : pc'[th] = "serve" => pc[th] = "serve" /\ held'[th] = held[th]
    BY <1>2 DEF vars, fenceVars
  <2>2. QED BY <1>1, <2>1
<1>3. CASE Next
  BY <1>0, <1>1, <1>3, FenceSteps, AskedRequested, AskedTaken, AskedServed, AskedAnswered
<1>4. QED BY <1>2, <1>3

\* Every request and every response on its way is for the fence at which its
\* job's executor stands, and the only one, in whatever order threads serve them.
THEOREM AskedOnceForTheFence == Spec => [](AskedWhere /\ AskedOnce)
<1>1. Init => AskedWhere /\ AskedOnce
  <2> SUFFICES ASSUME Init PROVE AskedWhere /\ AskedOnce
    OBVIOUS
  <2>1. Elements(<<>>) = {} /\ DistinctJobs(<<>>) /\ JobsOf(<<>>) = {}
    BY EmptyElements DEF DistinctJobs, JobsOf
  <2>2. /\ requests = <<>> /\ \A s \in Slots : responses[s] = <<>>
        /\ \A th \in Threads : pc[th] = "idle"
    BY DEF Init
  <2>3. QED BY <2>1, <2>2 DEF AskedWhere, AskedOnce
<1>2. DispatchInv /\ (AskedWhere /\ AskedOnce) /\ [Next]_vars => (AskedWhere /\ AskedOnce)'
  BY AskedKept
<1>3. QED BY <1>1, <1>2, DispatchInvHolds, PTL DEF Spec

\* The snapshot an executor takes for its attempt was loaded for the fence it
\* stands at: process_executor.py need only compare the task's id.
THEOREM SnapshotsAreFresh == Spec => []FreshSnapshotOnly
<1>1. DispatchInv /\ (AskedWhere /\ AskedOnce) => FreshSnapshotOnly
  <2> SUFFICES ASSUME TypeOK, AskedWhere, NEW s \in Slots,
                      executor[s].state = "fence", responses[s] # <<>>,
                      Head(responses[s]).job = executor[s].job
               PROVE  Head(responses[s]).n = executor[s].fences
    BY DEF DispatchInv, FreshSnapshotOnly
  <2>1. Head(responses[s]) \in Elements(responses[s])
    BY HeadTailElements DEF TypeOK
  <2>2. PICK a : a = Head(responses[s])
    OBVIOUS
  <2>3. Stands(s, a.job, a.n) /\ executor[s].job = a.job
    BY <2>1, <2>2 DEF AskedWhere
  <2>4. QED BY <2>2, <2>3 DEF Stands
<1>2. QED BY <1>1, DispatchInvHolds, AskedOnceForTheFence, PTL

\* The broker records the end of a process only when that process is dead or
\* replaced, and no thread leases a generation that has not been recorded.
THEOREM BrokerNeverAhead == Spec => []BrokerLags
<1>1. Init => BrokerLags
  <2> SUFFICES ASSUME Init PROVE BrokerLags
    OBVIOUS
  <2>1. TypeOK
    BY InitEstablishes DEF DispatchInv
  <2>2. \A s \in Slots : SlotLags(s)
    BY DEF Init, SlotLags
  <2>3. Elements(events) = {}
    BY EmptyElements DEF Init
  <2>4. \A th \in Threads : ThreadLags(th)
    BY DEF Init, ThreadLags, HeldKnown, LeaseLags, NoLease
  <2>5. QED BY <2>2, <2>3, <2>4 DEF BrokerLags
<1>2. DispatchInv /\ DispatchInv' /\ BrokerLags /\ [Next]_vars => BrokerLags'
  BY BrokerLagsKept DEF DispatchInv
<1>3. QED BY <1>1, <1>2, DispatchInvHolds, PTL DEF Spec

-----------------------------------------------------------------------------
\* What is in the pipes, as long as no two threads lease the same process

Waiting == {"fence", "serve", "drain wait", "check", "poll", "recv"}
Holds(th, s, g) == lease[th].slot = s /\ lease[th].gen = g

\* No assignment, completion or run of generation g of slot s.
Empty(s, g) ==
  /\ toExecutor[s][g] = <<>> /\ toBroker[s][g] = <<>>
  /\ executor[s].gen = g => executor[s].job = NoJob

\* No more than the assignment, the completion or the run of the thread's job.
OwnPipe(th, s, g) ==
  /\ \A j \in Elements(toExecutor[s][g]) : j = job[th]
  /\ \A c \in Elements(toBroker[s][g]) : c.job = job[th]
  /\ Len(toBroker[s][g]) <= 1
  /\ executor[s].gen = g => executor[s].job \in {NoJob, job[th]}

\* A thread may still lease the process.
Usable(s, g) == connection[s] = g \/ generation[s] < g

PipeInv(s, g) ==
  /\ \A th \in Threads : Holds(th, s, g) /\ pc[th] \in Waiting => OwnPipe(th, s, g)
  /\ \A th \in Threads : Holds(th, s, g) /\ pc[th] = "send" => Empty(s, g)
  /\ Usable(s, g) => Empty(s, g) \/ \E th \in Threads : Holds(th, s, g) /\ pc[th] \in Waiting
PipesInv == \A s \in Slots, g \in Generations : PipeInv(s, g)

\* A job is at an executor that its thread leases.
At(s, g, j) == j \in Elements(toExecutor[s][g]) \/ (executor[s].gen = g /\ executor[s].job = j)
RunsWhereLeased(th) ==
  pc[th] # "idle" => \A s \in Slots, g \in Generations : At(s, g, job[th]) => Holds(th, s, g)

\* A pipe whose contents and whose holders stay, and that nobody could lease anew.
LEMMA PipeFramed ==
  ASSUME NEW s \in Slots, NEW g \in Generations, PipeInv(s, g),
         toExecutor'[s][g] = toExecutor[s][g], toBroker'[s][g] = toBroker[s][g],
         executor'[s].gen = g /\ executor'[s].job # NoJob
           => executor[s].gen = g /\ executor'[s].job = executor[s].job,
         \A th \in Threads : pc'[th] \in Waiting /\ Holds(th, s, g)'
           => pc[th] \in Waiting /\ Holds(th, s, g) /\ job'[th] = job[th],
         \A th \in Threads : pc'[th] = "send" /\ Holds(th, s, g)' => pc[th] = "send" /\ Holds(th, s, g),
         Usable(s, g)' => /\ Usable(s, g)
                          /\ \A th \in Threads : pc[th] \in Waiting /\ Holds(th, s, g)
                               => pc'[th] \in Waiting /\ Holds(th, s, g)'
  PROVE  PipeInv(s, g)'
<1>1. Empty(s, g) => Empty(s, g)'
  BY DEF Empty
<1>2. ASSUME NEW th \in Threads, pc'[th] \in Waiting, Holds(th, s, g)' PROVE OwnPipe(th, s, g)'
  <2>1. OwnPipe(th, s, g) /\ job'[th] = job[th]
    BY <1>2 DEF PipeInv
  <2>2. QED BY <2>1 DEF OwnPipe
<1>3. ASSUME NEW th \in Threads, pc'[th] = "send", Holds(th, s, g)' PROVE Empty(s, g)'
  BY <1>1, <1>3 DEF PipeInv
<1>4. ASSUME Usable(s, g)'
      PROVE  Empty(s, g)' \/ \E th \in Threads : Holds(th, s, g)' /\ pc'[th] \in Waiting
  BY <1>1, <1>4 DEF PipeInv
<1>5. QED BY <1>2, <1>3, <1>4 DEF PipeInv

\* A process that a thread could lease after a step could be leased before it.
LEMMA UsableBefore ==
  ASSUME DispatchInv, NEW s \in Slots, NEW g \in Generations, [Next]_vars, Usable(s, g)'
  PROVE  Usable(s, g)
<1>0. TypeOK /\ \A th \in Threads : ThreadInv(th)
  BY DEF DispatchInv
<1>1. g \in Nat /\ g # None /\ generation[s] \in Nat
  <2>1. generation[s] \in Generations
    BY <1>0 DEF TypeOK
  <2>2. QED BY <2>1 DEF Generations, None
<1>2. ASSUME UNCHANGED generation, connection'[s] \in {None, connection[s]} PROVE Usable(s, g)
  BY <1>1, <1>2 DEF Usable
<1>3. ASSUME NEW th \in Threads, ThreadStep(th) PROVE Usable(s, g)
  <2>1. CASE HandleStarted(th)
    <3>1. PICK r \in Slots, h \in Generations : r = held[th].slot /\ h = held[th].gen
      BY <1>0, <2>1, HandledTyped
    <3>2. CASE UNCHANGED slotVars
      BY <1>2, <3>2 DEF slotVars
    <3>3. CASE /\ generation[r] < h /\ connection'[r] = h /\ generation'[r] = h
               /\ \A q \in Slots : q # r => connection'[q] = connection[q] /\ generation'[q] = generation[q]
      <4>1. h \in Nat
        BY DEF Generations
      <4>2. QED BY <1>1, <3>3, <4>1 DEF Usable
    <3>4. QED BY <1>0, <2>1, <3>1, <3>2, <3>3, StartedChanges
  <2>2. CASE HandleExited(th)
    <3>1. PICK r \in Slots, h \in Generations : r = held[th].slot /\ h = held[th].gen /\ MarkExited(r, h)
      BY <1>0, <2>2, HandledTyped DEF HandleExited
    <3>2. QED BY <1>0, <1>2, <3>1, MarkExitedChanges
  <2>3. CASE FindsBroken(th)
    <3>1. PICK r \in Slots, h \in Generations : r = lease[th].slot /\ h = lease[th].gen /\ MarkExited(r, h)
      BY <1>0, <2>3, BrokenTyped DEF FindsBroken
    <3>2. QED BY <1>0, <1>2, <3>1, MarkExitedChanges
  <2>4. QED BY <1>2, <1>3, <2>1, <2>2, <2>3, SlotSteps
<1>4. ASSUME NEW r \in Slots, ExecutorStep(r) \/ SupervisorStep(r) \/ Die(r) PROVE UNCHANGED slotVars
  BY <1>4, ProcessSteps
<1>5. ASSUME Ended \/ UNCHANGED vars PROVE UNCHANGED slotVars
  BY <1>5 DEF Ended, vars, slotVars
<1>6. UNCHANGED slotVars => Usable(s, g)
  BY <1>2 DEF slotVars
<1>7. QED BY <1>3, <1>4, <1>5, <1>6 DEF Next

\* A thread that gives up a process leaves it unusable.
LEMMA GivenUp ==
  ASSUME DispatchInv, BrokerLags, NEW th \in Threads, NEW s \in Slots, NEW g \in Generations,
         Holds(th, s, g),
         \/ exited[s] = g /\ UNCHANGED slotVars
         \/ generation[s] # g /\ UNCHANGED slotVars
         \/ MarkExited(s, g)
  PROVE  ~Usable(s, g)'
<1>0. TypeOK /\ SlotInv /\ SlotLags(s) /\ LeaseLags(th)
  BY DEF DispatchInv, BrokerLags, ThreadLags
<1>1. g \in Nat /\ g # None /\ generation[s] \in Nat
  <2>1. generation[s] \in Generations
    BY <1>0 DEF TypeOK
  <2>2. QED BY <2>1 DEF Generations, None
<1>2. g <= generation[s]
  BY <1>0, <1>1 DEF Holds, LeaseLags
<1>3. connection[s] \in {None, generation[s]}
  BY <1>0 DEF SlotInv
<1>4. CASE exited[s] = g /\ UNCHANGED slotVars
  <2>1. connection[s] = None
    BY <1>0, <1>1, <1>4 DEF SlotLags
  <2>2. QED BY <1>1, <1>2, <1>4, <2>1 DEF Usable, slotVars
<1>5. CASE generation[s] # g /\ UNCHANGED slotVars
  BY <1>1, <1>2, <1>3, <1>5 DEF Usable, slotVars
<1>6. CASE MarkExited(s, g)
  <2>1. /\ UNCHANGED generation
        /\ connection'[s] = None \/ (generation[s] # g /\ connection'[s] = connection[s])
    BY <1>0, <1>6, MarkExitedChanges
  <2>2. QED BY <1>1, <1>2, <1>3, <2>1 DEF Usable
<1>7. QED BY <1>4, <1>5, <1>6

\* Only the steps before the assignment is sent and the release change what a thread leases.
LEMMA LeaseSteps ==
  ASSUME NEW th \in Threads, ThreadStep(th)
  PROVE  UNCHANGED <<job, lease>> \/ Execute(th) \/ GetSlot(th) \/ LeaseSlot(th) \/ Release(th)
<1>1. ASSUME TakeEvent(th) \/ HandleExited(th) \/ HandleStarted(th) \/ Drained(th) \/ Send(th) \/ TakeRequest(th)
             \/ ServeRequest(th) \/ CheckExited(th) \/ PollPipe(th) \/ Recv(th)
      PROVE  UNCHANGED <<job, lease>>
  <2>1. CASE TakeEvent(th) \/ HandleExited(th) \/ HandleStarted(th) \/ Drained(th) \/ Send(th)
    BY <2>1 DEF TakeEvent, HandleExited, HandleStarted, Drained, Send
  <2>2. CASE TakeRequest(th) \/ ServeRequest(th) \/ CheckExited(th) \/ PollPipe(th) \/ Recv(th)
    BY <2>2 DEF TakeRequest, ServeRequest, CheckExited, PollPipe, Recv
  <2>3. QED BY <1>1, <2>1, <2>2
<1>2. QED BY <1>1, Zenon DEF ThreadStep

\* A job comes to an executor by its thread's sending it there.
LEMMA AtBefore ==
  ASSUME DispatchInv, [Next]_vars, NEW s \in Slots, NEW g \in Generations, NEW j \in Jobs, At(s, g, j)'
  PROVE  At(s, g, j) \/ \E th \in Threads : Send(th) /\ job[th] = j /\ Holds(th, s, g)
<1>0. /\ TypeOK
      /\ \A th \in Threads : ThreadInv(th)
      /\ \A r \in Slots : ExecutorInv(r)
  BY DEF DispatchInv
<1>1. ASSUME UNCHANGED <<toExecutor, executor>> PROVE At(s, g, j)
  BY <1>1 DEF At
<1>2. ASSUME NEW r \in Slots, executor'[r].gen = executor[r].gen \/ executor'[r].job # j,
             executor'[r].job \in {executor[r].job, NoJob},
             \A q \in Slots : q # r => executor'[q] = executor[q], UNCHANGED toExecutor
      PROVE  At(s, g, j)
  BY <1>2, DispatchAssumption DEF At
<1>3. ASSUME NEW th \in Threads, Send(th), ~UNCHANGED toExecutor
      PROVE  At(s, g, j) \/ (job[th] = j /\ Holds(th, s, g))
  <2>1. ThreadInv(th)
    BY <1>0
  <2>2. UNCHANGED executor
    BY <1>3 DEF Send, processVars
  <2>3. PICK r \in Slots, h \in Generations, i \in Jobs :
               /\ r = lease[th].slot /\ h = lease[th].gen /\ i = job[th]
               /\ Elements(toExecutor'[r][h]) = Elements(toExecutor[r][h]) \cup {i}
               /\ \A q \in Slots, k \in Generations : q # r \/ k # h => toExecutor'[q][k] = toExecutor[q][k]
    BY <1>0, <1>3, <2>1, SentThere
  <2>4. CASE s = r /\ g = h
    BY <2>2, <2>3, <2>4 DEF At, Holds
  <2>5. CASE s # r \/ g # h
    BY <2>2, <2>3, <2>5 DEF At
  <2>6. QED BY <2>4, <2>5
<1>4. ASSUME NEW th \in Threads, ThreadStep(th), ~Send(th) PROVE At(s, g, j)
  <2>1. UNCHANGED executor
    BY <1>4, ThreadSteps
  <2>2. CASE TakeEvent(th) \/ HandleExited(th) \/ HandleStarted(th) \/ Drained(th) \/ Execute(th) \/ GetSlot(th)
             \/ LeaseSlot(th)
    <3>1. UNCHANGED toExecutor
      BY <2>2 DEF TakeEvent, HandleExited, HandleStarted, Drained, Execute, GetSlot, LeaseSlot, pipeVars
    <3>2. QED BY <1>1, <2>1, <3>1
  <2>3. CASE TakeRequest(th) \/ ServeRequest(th) \/ CheckExited(th) \/ PollPipe(th) \/ Recv(th) \/ Release(th)
    <3>1. UNCHANGED toExecutor
      BY <2>3 DEF TakeRequest, ServeRequest, CheckExited, PollPipe, Recv, Release, pipeVars
    <3>2. QED BY <1>1, <2>1, <3>1
  <2>4. QED BY <1>4, <2>2, <2>3 DEF ThreadStep
<1>5. ASSUME NEW r \in Slots, ReceiveAssignment(r) PROVE At(s, g, j)
  <2> DEFINE h == executor[r].gen
  <2>1. h \in Generations /\ toExecutor[r][h] \in Seq(Jobs) /\ toExecutor[r][h] # <<>>
    BY <1>0, <1>5, ExecutorTyped DEF ReceiveAssignment
  <2>2. Elements(toExecutor[r][h]) = {Head(toExecutor[r][h])} \cup Elements(Tail(toExecutor[r][h]))
    BY <2>1, HeadTailElements
  <2>3. CASE s = r /\ g = h
    <3>1. toExecutor'[s][g] = Tail(toExecutor[r][h]) /\ executor'[s].job = Head(toExecutor[r][h])
      BY <1>0, <1>5, <2>3, ReceiveChanges
    <3>2. j \in Elements(Tail(toExecutor[r][h])) \/ j = Head(toExecutor[r][h])
      BY <3>1 DEF At
    <3>3. j \in Elements(toExecutor[s][g])
      BY <2>2, <2>3, <3>2
    <3>4. QED BY <3>3 DEF At
  <2>4. CASE s # r \/ g # h
    <3>1. toExecutor'[s][g] = toExecutor[s][g]
      BY <1>0, <1>5, <2>4, ReceiveChanges
    <3>2. s = r => executor'[s].gen # g
      BY <1>0, <1>5, <2>4, ReceiveChanges
    <3>3. s # r => executor'[s] = executor[s]
      BY <1>0, <1>5, ReceiveChanges
    <3>4. QED BY <3>1, <3>2, <3>3 DEF At
  <2>5. QED BY <2>3, <2>4
<1>6. ASSUME NEW r \in Slots, RequestSnapshot(r) PROVE At(s, g, j)
  <2>1. /\ SetExecutor(r, "fence", executor[r].job, executor[r].fences + 1)
        /\ executor[r].fences + 1 \in 0..MaxFences /\ UNCHANGED toExecutor
        /\ executor[r].job \in Jobs \cup {NoJob}
    BY <1>0, <1>6, ExecutorTyped, DispatchAssumption DEF RequestSnapshot, pipeVars
  <2>2. /\ executor'[r].gen = executor[r].gen /\ executor'[r].job = executor[r].job
        /\ \A q \in Slots : q # r => executor'[q] = executor[q]
    BY <1>0, <2>1, SetExecutorChanges
  <2>3. QED BY <1>2, <2>1, <2>2
<1>7. ASSUME NEW r \in Slots, executor[r].job \in Jobs, NEW status \in {"COMPLETED", "FAILED"},
             Complete(r, status), UNCHANGED toExecutor
      PROVE  At(s, g, j)
  BY <1>0, <1>2, <1>7, CompleteChanges
<1>8. ASSUME NEW r \in Slots, GetSnapshot(r) PROVE At(s, g, j)
  <2>1. executor[r].job \in Jobs /\ UNCHANGED toExecutor
    BY <1>0, <1>8, ExecutorTyped DEF GetSnapshot, ExecutorInv
  <2>2. CASE SetExecutor(r, "running", executor[r].job, executor[r].fences)
    BY <1>0, <1>2, <2>1, <2>2, SetExecutorChanges, ExecutorTyped
  <2>3. CASE Complete(r, "FAILED")
    BY <1>7, <2>1, <2>3
  <2>4. QED BY <1>8, <2>2, <2>3, Zenon DEF GetSnapshot
<1>9. ASSUME NEW r \in Slots, FinishTask(r) PROVE At(s, g, j)
  <2>1. executor[r].job \in Jobs /\ UNCHANGED toExecutor
    BY <1>0, <1>9, ExecutorTyped DEF FinishTask, ExecutorInv
  <2>2. PICK status \in {"COMPLETED", "FAILED"} : Complete(r, status)
    BY <1>9 DEF FinishTask
  <2>3. QED BY <1>7, <2>1, <2>2
<1>10. ASSUME NEW r \in Slots, Die(r) PROVE At(s, g, j)
  <2>1. UNCHANGED toExecutor /\ SetExecutor(r, "dead", NoJob, 0) /\ 0 \in 0..MaxFences
    BY <1>10, DispatchAssumption DEF Die, pipeVars
  <2>2. QED BY <1>0, <1>2, <2>1, SetExecutorChanges
<1>11. ASSUME NEW r \in Slots, StartReplacement(r) PROVE At(s, g, j)
  <2>1. UNCHANGED toExecutor
    BY <1>11 DEF StartReplacement, pipeVars
  <2>2. executor'[r].job = NoJob /\ NoJob # j /\ \A q \in Slots : q # r => executor'[q] = executor[q]
    BY <1>0, <1>11, ReplacementChanges, DispatchAssumption
  <2>3. QED BY <1>2, <2>1, <2>2
<1>12. ASSUME NEW r \in Slots, ReportExit(r) PROVE At(s, g, j)
  BY <1>1, <1>12 DEF ReportExit, pipeVars
<1>13. ASSUME Ended \/ UNCHANGED vars PROVE At(s, g, j)
  <2>1. UNCHANGED <<toExecutor, executor>>
    BY <1>13 DEF Ended, vars
  <2>2. QED BY <1>1, <2>1
<1>14. ASSUME NEW r \in Slots, ExecutorStep(r) \/ SupervisorStep(r) \/ Die(r) PROVE At(s, g, j)
  BY <1>5, <1>6, <1>8, <1>9, <1>10, <1>11, <1>12, <1>14, Zenon DEF ExecutorStep, SupervisorStep
<1>15. CASE \E th \in Threads : ThreadStep(th)
  <2>1. PICK th \in Threads : ThreadStep(th)
    BY <1>15
  <2>2. CASE Send(th)
    <3>1. CASE UNCHANGED toExecutor
      <4>1. UNCHANGED executor
        BY <2>1, ThreadSteps
      <4>2. QED BY <1>1, <3>1, <4>1
    <3>2. QED BY <1>3, <2>2, <3>1
  <2>3. QED BY <1>4, <2>1, <2>2
<1>16. QED BY <1>13, <1>14, <1>15, Zenon DEF Next

\* What is at an executor has been sent.
LEMMA AtIsSent ==
  ASSUME OneRun, NEW s \in Slots, NEW g \in Generations, NEW j \in Jobs, At(s, g, j)
  PROVE  Sent(j)
BY DEF OneRun, At

LEMMA RunsKept ==
  ASSUME DispatchInv, DispatchInv', [Next]_vars, NEW ot \in Threads, RunsWhereLeased(ot)
  PROVE  RunsWhereLeased(ot)'
<1>0. /\ TypeOK /\ OneRun /\ ThreadsApart
      /\ \A th \in Threads : ThreadInv(th)
  BY DEF DispatchInv
<1> SUFFICES ASSUME NEW s \in Slots, NEW g \in Generations, pc'[ot] # "idle", At(s, g, job[ot])'
             PROVE  Holds(ot, s, g)'
  BY DEF RunsWhereLeased
<1>1. PICK j \in Jobs : j = job'[ot]
  BY DEF DispatchInv, TypeOK, ThreadInv
<1>2. At(s, g, j)'
  BY <1>1 DEF At
<1>3. ASSUME At(s, g, j), job'[ot] = job[ot], lease'[ot] = lease[ot] PROVE Holds(ot, s, g)'
  <2>1. pc[ot] # "idle"
    BY <1>0, <1>1, <1>3, DispatchAssumption DEF ThreadInv
  <2>2. QED BY <1>1, <1>3, <2>1 DEF RunsWhereLeased, Holds
<1>4. ASSUME At(s, g, j), NEW th \in Threads, ThreadStep(th) PROVE Holds(ot, s, g)'
  <2>0. Sent(j)
    BY <1>0, <1>4, AtIsSent
  <2>1. CASE th # ot
    BY <1>0, <1>3, <1>4, <2>1, OthersStay
  <2>2. CASE th = ot
    <3>1. CASE Execute(ot)
      <4>1. job'[ot] # NoJob /\ ~Started(j)
        BY <1>0, <1>1, <3>1, DispatchAssumption DEF Execute, TypeOK
      <4>2. QED BY <2>0, <4>1 DEF Sent
    <3>2. CASE GetSlot(ot) \/ LeaseSlot(ot)
      <4>1. job[ot] = j /\ pc[ot] \in {"get", "lock"}
        BY <1>1, <3>2 DEF GetSlot, LeaseSlot
      <4>2. QED BY <2>0, <4>1 DEF Sent, Unsent
    <3>3. CASE Release(ot)
      BY <1>0, <3>3 DEF Release, Goto, TypeOK
    <3>4. CASE UNCHANGED <<job, lease>>
      BY <1>3, <1>4, <3>4
    <3>5. QED BY <1>4, <2>2, <3>1, <3>2, <3>3, <3>4, LeaseSteps
  <2>3. QED BY <2>1, <2>2
<1>5. ASSUME At(s, g, j) PROVE Holds(ot, s, g)'
  <2>1. ASSUME NEW r \in Slots, ExecutorStep(r) \/ SupervisorStep(r) \/ Die(r) PROVE UNCHANGED <<job, lease>>
    BY <2>1, ProcessSteps DEF threadVars
  <2>2. ASSUME Ended \/ UNCHANGED vars PROVE UNCHANGED <<job, lease>>
    BY <2>2 DEF Ended, vars
  <2>3. QED BY <1>3, <1>4, <1>5, <2>1, <2>2 DEF Next
<1>6. ASSUME NEW th \in Threads, Send(th), job[th] = j, Holds(th, s, g) PROVE Holds(ot, s, g)'
  <2>1. UNCHANGED <<job, lease>>
    BY <1>6 DEF Send
  <2>2. th = ot
    BY <1>0, <1>1, <1>6, <2>1, DispatchAssumption DEF ThreadsApart
  <2>3. QED BY <1>6, <2>1, <2>2 DEF Holds
<1>7. QED BY <1>2, <1>5, <1>6, AtBefore

\* A sequence without elements is empty.
LEMMA NoElements == ASSUME NEW S, NEW q \in Seq(S), Elements(q) = {} PROVE q = <<>> /\ Len(q) = 0
<1>1. SUFFICES ASSUME q # <<>> PROVE FALSE
  OBVIOUS
<1>2. QED BY <1>1, HeadTailElements

\* Exclusive leases differ in their slot or their generation.
LEMMA OneHolder ==
  ASSUME NEW f \in [Threads -> Lease],
         \A th, ot \in Threads : th # ot /\ f[th].gen # None /\ f[ot].gen # None => f[th] # f[ot],
         NEW th \in Threads, NEW ot \in Threads, f[th].gen # None,
         f[th].slot = f[ot].slot, f[th].gen = f[ot].gen
  PROVE  th = ot
<1>1. f[th] \in Lease /\ f[ot] \in Lease
  OBVIOUS
<1>2. f[th] = f[ot]
  BY <1>1 DEF Lease
<1>3. QED BY <1>2

\* A thread's step that leaves the pipes alone and gives up no usable process.
LEMMA PipeQuiet ==
  ASSUME DispatchInv, [Next]_vars, NEW th \in Threads, ThreadStep(th),
         NEW s \in Slots, NEW g \in Generations, PipeInv(s, g), UNCHANGED pipeVars,
         pc'[th] \in Waiting => pc[th] \in Waiting, pc'[th] # "send",
         pc[th] \in Waiting => UNCHANGED <<lease, job>>,
         Usable(s, g)' /\ pc[th] \in Waiting /\ Holds(th, s, g) => pc'[th] \in Waiting
  PROVE  PipeInv(s, g)'
<1>0. \A ot \in Threads : ot # th => pc'[ot] = pc[ot] /\ job'[ot] = job[ot] /\ lease'[ot] = lease[ot]
  BY OthersStay DEF DispatchInv
<1>1. UNCHANGED <<toExecutor, toBroker, executor>>
  BY ThreadSteps DEF pipeVars
<1>2. \A ot \in Threads : pc'[ot] \in Waiting /\ Holds(ot, s, g)'
        => pc[ot] \in Waiting /\ Holds(ot, s, g) /\ job'[ot] = job[ot]
  BY <1>0 DEF Holds
<1>3. \A ot \in Threads : pc'[ot] = "send" /\ Holds(ot, s, g)' => pc[ot] = "send" /\ Holds(ot, s, g)
  BY <1>0 DEF Holds
<1>4. ASSUME Usable(s, g)'
      PROVE  /\ Usable(s, g)
             /\ \A ot \in Threads : pc[ot] \in Waiting /\ Holds(ot, s, g)
                  => pc'[ot] \in Waiting /\ Holds(ot, s, g)'
  BY <1>0, <1>4, UsableBefore DEF Holds
<1>5. QED BY <1>1, <1>2, <1>3, <1>4, PipeFramed

\* A thread that leases a process finds its pipe empty.
LEMMA PipeLeased ==
  ASSUME DispatchInv, TypeOK', ExclusiveLease', [Next]_vars, NEW th \in Threads, LeaseSlot(th),
         NEW s \in Slots, NEW g \in Generations, PipeInv(s, g)
  PROVE  PipeInv(s, g)'
<1>0. TypeOK /\ ThreadInv(th) /\ ThreadStep(th)
  BY DEF DispatchInv, ThreadStep
<1>1. \A ot \in Threads : ot # th => pc'[ot] = pc[ot] /\ job'[ot] = job[ot] /\ lease'[ot] = lease[ot]
  BY <1>0, OthersStay
<1>2. UNCHANGED <<pipeVars, connection, generation, executor>> /\ pc[th] = "lock"
  BY <1>0, ThreadSteps DEF LeaseSlot
<1>3. CASE pc'[th] = "drain lease"
  BY <1>0, <1>2, <1>3, PipeQuiet DEF Waiting
<1>4. CASE /\ lease[th].slot \in Slots /\ connection[lease[th].slot] \in Generations
           /\ lease'[th].slot = lease[th].slot /\ lease'[th].gen = connection[lease[th].slot]
           /\ pc'[th] = "send"
  <2>1. PICK r \in Slots : r = lease[th].slot
    BY <1>4
  <2>2. PICK h \in Generations : h = connection[r]
    BY <1>4, <2>1
  <2>3. lease'[th].slot = r /\ lease'[th].gen = h /\ pc'[th] = "send"
    BY <1>4, <2>1, <2>2
  <2>4. CASE s = r /\ g = h
    <3>1. Usable(s, g)
      BY <2>2, <2>4 DEF Usable
    <3>2. ASSUME NEW ot \in Threads, Holds(ot, s, g), pc[ot] \in Waiting PROVE FALSE
      <4>1. ot # th
        BY <1>2, <3>2 DEF Waiting
      <4>2. lease' \in [Threads -> Lease]
        BY DEF TypeOK, Lease
      <4>3. lease'[ot].slot = lease'[th].slot /\ lease'[ot].gen = lease'[th].gen /\ lease'[ot].gen # None
        BY <1>1, <2>3, <2>4, <3>2, <4>1 DEF Holds, Generations, None
      <4>4. \A a, b \in Threads : a # b /\ lease'[a].gen # None /\ lease'[b].gen # None => lease'[a] # lease'[b]
        BY DEF ExclusiveLease
      <4>5. QED BY <4>1, <4>2, <4>3, <4>4, OneHolder
    <3>3. Empty(s, g)
      BY <3>1, <3>2 DEF PipeInv
    <3>4. Empty(s, g)'
      BY <1>2, <3>3 DEF Empty, pipeVars
    <3>5. ASSUME NEW ot \in Threads, Holds(ot, s, g)', pc'[ot] \in Waiting PROVE FALSE
      <4>1. ot # th
        BY <2>3, <3>5 DEF Waiting
      <4>2. QED BY <1>1, <3>2, <3>5, <4>1 DEF Holds
    <3>6. QED BY <3>4, <3>5 DEF PipeInv
  <2>5. CASE s # r \/ g # h
    <3>1. ~Holds(th, s, g)'
      BY <2>3, <2>5 DEF Holds
    <3>2. \A ot \in Threads : pc'[ot] \in Waiting /\ Holds(ot, s, g)'
            => pc[ot] \in Waiting /\ Holds(ot, s, g) /\ job'[ot] = job[ot]
      BY <1>1, <3>1 DEF Holds
    <3>3. \A ot \in Threads : pc'[ot] = "send" /\ Holds(ot, s, g)' => pc[ot] = "send" /\ Holds(ot, s, g)
      BY <1>1, <3>1 DEF Holds
    <3>4. \A ot \in Threads : pc[ot] \in Waiting /\ Holds(ot, s, g) => pc'[ot] \in Waiting /\ Holds(ot, s, g)'
      BY <1>1, <1>2 DEF Holds, Waiting
    <3>5. Usable(s, g)' => Usable(s, g)
      BY <1>2 DEF Usable
    <3>6. QED BY <1>2, <3>2, <3>3, <3>4, <3>5, PipeFramed DEF pipeVars
  <2>6. QED BY <2>4, <2>5
<1>5. QED BY <1>0, <1>3, <1>4, LeaseSlotChanges

\* The assignment that a thread sends is alone in its pipe.
LEMMA PipeSent ==
  ASSUME DispatchInv, ExclusiveLease, [Next]_vars, NEW th \in Threads, Send(th), ~UNCHANGED toExecutor,
         NEW s \in Slots, NEW g \in Generations, PipeInv(s, g)
  PROVE  PipeInv(s, g)'
<1>0. TypeOK /\ ThreadInv(th) /\ ThreadStep(th)
  BY DEF DispatchInv, ThreadStep
<1>1. \A ot \in Threads : ot # th => pc'[ot] = pc[ot] /\ job'[ot] = job[ot] /\ lease'[ot] = lease[ot]
  BY <1>0, OthersStay
<1>2. PICK r \in Slots, h \in Generations, j \in Jobs :
             /\ r = lease[th].slot /\ h = lease[th].gen /\ j = job[th]
             /\ Elements(toExecutor'[r][h]) = Elements(toExecutor[r][h]) \cup {j}
             /\ \A q \in Slots, k \in Generations : q # r \/ k # h => toExecutor'[q][k] = toExecutor[q][k]
  BY <1>0, SentThere
<1>3. /\ UNCHANGED <<toBroker, executor, lease, job, connection, generation>>
      /\ pc[th] = "send" /\ pc'[th] = "fence"
  BY <1>0 DEF Send, processVars, slotVars, Goto, TypeOK
<1>5. CASE s = r /\ g = h
  <2>1. Empty(s, g)
    BY <1>2, <1>3, <1>5 DEF PipeInv, Holds
  <2>2. ASSUME NEW ot \in Threads, Holds(ot, s, g) PROVE ot = th
    <3>1. lease \in [Threads -> Lease]
      BY <1>0 DEF TypeOK, Lease
    <3>2. lease[ot].slot = lease[th].slot /\ lease[ot].gen = lease[th].gen /\ lease[ot].gen # None
      BY <1>2, <1>5, <2>2 DEF Holds, Generations, None
    <3>3. QED BY <3>1, <3>2, OneHolder DEF ExclusiveLease
  <2>3. OwnPipe(th, s, g)'
    <3>1. Elements(toExecutor[s][g]) = {} /\ Elements(toBroker[s][g]) = {} /\ Len(toBroker[s][g]) = 0
      BY <2>1, EmptyElements DEF Empty
    <3>2. Elements(toExecutor'[s][g]) = {job'[th]}
      BY <1>2, <1>3, <1>5, <3>1
    <3>3. \A c \in Elements(toBroker'[s][g]) : c.job = job'[th]
      BY <1>3, <3>1
    <3>4. Len(toBroker'[s][g]) <= 1
      BY <1>3, <3>1
    <3>5. executor'[s].gen = g => executor'[s].job \in {NoJob, job'[th]}
      BY <1>3, <2>1 DEF Empty
    <3>6. QED BY <3>2, <3>3, <3>4, <3>5 DEF OwnPipe
  <2>4. Holds(th, s, g)' /\ pc'[th] \in Waiting
    BY <1>2, <1>3, <1>5 DEF Holds, Waiting
  <2>5. \A ot \in Threads : Holds(ot, s, g)' => ot = th
    BY <1>3, <2>2 DEF Holds
  <2>6. QED BY <1>3, <2>3, <2>4, <2>5 DEF PipeInv
<1>6. CASE s # r \/ g # h
  <2>1. ~Holds(th, s, g) /\ ~Holds(th, s, g)'
    BY <1>2, <1>3, <1>6 DEF Holds
  <2>2. \A ot \in Threads : pc'[ot] \in Waiting /\ Holds(ot, s, g)'
          => pc[ot] \in Waiting /\ Holds(ot, s, g) /\ job'[ot] = job[ot]
    BY <1>1, <2>1 DEF Holds
  <2>3. \A ot \in Threads : pc'[ot] = "send" /\ Holds(ot, s, g)' => pc[ot] = "send" /\ Holds(ot, s, g)
    BY <1>1, <2>1 DEF Holds
  <2>4. \A ot \in Threads : pc[ot] \in Waiting /\ Holds(ot, s, g) => pc'[ot] \in Waiting /\ Holds(ot, s, g)'
    BY <1>1, <2>1 DEF Holds
  <2>5. Usable(s, g)' => Usable(s, g)
    BY <1>3 DEF Usable
  <2>6. QED BY <1>3, <1>2, <1>6, <2>2, <2>3, <2>4, <2>5, PipeFramed
<1>7. QED BY <1>5, <1>6

\* The completion that a thread receives is its own, and leaves the pipe empty.
LEMMA PipeReceived ==
  ASSUME DispatchInv, ExclusiveLease, [Next]_vars, NEW th \in Threads, Recv(th), ~UNCHANGED toBroker,
         NEW s \in Slots, NEW g \in Generations, PipeInv(s, g)
  PROVE  PipeInv(s, g)'
<1>0. TypeOK /\ ThreadInv(th) /\ ThreadStep(th) /\ OneRun /\ TrueCompletions
  BY DEF DispatchInv, ThreadStep
<1>1. \A ot \in Threads : ot # th => pc'[ot] = pc[ot] /\ job'[ot] = job[ot] /\ lease'[ot] = lease[ot]
  BY <1>0, OthersStay
<1>2. PICK r \in Slots, h \in Generations, j \in Jobs : r = lease[th].slot /\ h = lease[th].gen /\ j = job[th]
  BY <1>0, WaitingTyped DEF Recv
<1>3. /\ UNCHANGED <<toExecutor, executor, lease, job, connection, generation>>
      /\ pc[th] = "recv" /\ toBroker[r][h] # <<>> /\ toBroker' = [toBroker EXCEPT ![r][h] = Tail(@)]
  BY <1>0, <1>2 DEF Recv, processVars, slotVars
<1>4. pc'[th] = "drain release"
  <2>1. \E status : Return(th, status)
    BY DEF Recv, BrokenPipe
  <2>2. QED BY <1>0, <2>1 DEF Return, Goto, TypeOK
<1>5. /\ toBroker'[r][h] = Tail(toBroker[r][h]) /\ toBroker[r][h] \in Seq(Completion)
      /\ \A q \in Slots, k \in Generations : q # r \/ k # h => toBroker'[q][k] = toBroker[q][k]
  BY <1>0, <1>3 DEF TypeOK
<1>6. CASE s = r /\ g = h
  <2>1. Holds(th, s, g) /\ pc[th] \in Waiting
    BY <1>2, <1>3, <1>6 DEF Holds, Waiting
  <2>2. OwnPipe(th, s, g)
    BY <2>1 DEF PipeInv
  <2>3. PICK c \in Completion : c = Head(toBroker[s][g])
    BY <1>3, <1>5, <1>6, HeadTailElements
  <2>4. executed[j] # "none"
    <3>1. c \in Elements(toBroker[s][g])
      BY <1>3, <1>5, <1>6, <2>3, HeadTailElements
    <3>2. c.job = j /\ executed[c.job] = c.status
      BY <1>0, <1>2, <2>2, <3>1 DEF OwnPipe, TrueCompletions
    <3>3. QED BY <3>2 DEF Completion
  <2>5. toExecutor[s][g] = <<>>
    <3>1. j \notin Elements(toExecutor[s][g])
      BY <1>0, <2>4 DEF OneRun
    <3>2. Elements(toExecutor[s][g]) = {}
      BY <1>2, <2>2, <3>1 DEF OwnPipe
    <3>3. toExecutor[s][g] \in Seq(Jobs)
      BY <1>0, ExecutorTyped
    <3>4. QED BY <3>2, <3>3, NoElements
  <2>6. toBroker'[s][g] = <<>>
    <3>1. Tail(toBroker[s][g]) \in Seq(Completion) /\ Len(Tail(toBroker[s][g])) = Len(toBroker[s][g]) - 1
      BY <1>3, <1>5, <1>6, HeadTailProperties
    <3>2. PICK n \in Nat : n = Len(toBroker[s][g]) /\ n <= 1
      BY <1>5, <1>6, <2>2 DEF OwnPipe
    <3>3. PICK t \in Seq(Completion) : t = Tail(toBroker[s][g]) /\ Len(t) = n - 1
      BY <3>1, <3>2, Zenon
    <3>4. Len(t) \in Nat
      BY <3>3
    <3>5. Len(t) = 0
      <4>1. Len(t) = n - 1 /\ n <= 1
        BY <3>2, <3>3, Zenon
      <4>2. QED BY <3>4, <4>1
    <3>6. t = <<>>
      BY <3>3, <3>5, EmptySeq
    <3>7. QED BY <1>5, <1>6, <3>3, <3>6
  <2>7. executor[s].gen = g => executor[s].job = NoJob
    <3>1. executor[s].job # j
      BY <1>0, <2>4 DEF OneRun
    <3>2. QED BY <1>2, <2>2, <3>1 DEF OwnPipe
  <2>8. Empty(s, g)'
    BY <1>3, <2>5, <2>6, <2>7 DEF Empty
  <2>9. ASSUME NEW ot \in Threads, Holds(ot, s, g)' PROVE ot = th
    <3>1. lease \in [Threads -> Lease]
      BY <1>0 DEF TypeOK, Lease
    <3>2. lease[ot].slot = lease[th].slot /\ lease[ot].gen = lease[th].gen /\ lease[ot].gen # None
      BY <1>2, <1>3, <1>6, <2>9 DEF Holds, Generations, None
    <3>3. QED BY <3>1, <3>2, OneHolder DEF ExclusiveLease
  <2>10. QED BY <1>4, <2>8, <2>9 DEF PipeInv, Waiting
<1>7. CASE s # r \/ g # h
  <2>1. ~Holds(th, s, g) /\ ~Holds(th, s, g)'
    BY <1>2, <1>3, <1>7 DEF Holds
  <2>2. \A ot \in Threads : pc'[ot] \in Waiting /\ Holds(ot, s, g)'
          => pc[ot] \in Waiting /\ Holds(ot, s, g) /\ job'[ot] = job[ot]
    BY <1>1, <2>1 DEF Holds
  <2>3. \A ot \in Threads : pc'[ot] = "send" /\ Holds(ot, s, g)' => pc[ot] = "send" /\ Holds(ot, s, g)
    BY <1>1, <2>1 DEF Holds
  <2>4. \A ot \in Threads : pc[ot] \in Waiting /\ Holds(ot, s, g) => pc'[ot] \in Waiting /\ Holds(ot, s, g)'
    BY <1>1, <2>1 DEF Holds
  <2>5. Usable(s, g)' => Usable(s, g)
    BY <1>3 DEF Usable
  <2>6. QED BY <1>3, <1>5, <1>7, <2>2, <2>3, <2>4, <2>5, PipeFramed
<1>8. QED BY <1>6, <1>7

\* A thread that does not receive its completion gives the process up.
LEMMA PipeGivenUp ==
  ASSUME DispatchInv, BrokerLags, [Next]_vars, NEW th \in Threads, CheckExited(th) \/ FindsBroken(th),
         ThreadStep(th), NEW s \in Slots, NEW g \in Generations, PipeInv(s, g)
  PROVE  PipeInv(s, g)'
<1>0. TypeOK /\ ThreadInv(th)
  BY DEF DispatchInv
<1>1. /\ UNCHANGED <<pipeVars, lease, job>> /\ pc[th] \in {"send", "check", "poll", "recv"}
      /\ pc'[th] \in {"drain release", "poll"} /\ (pc'[th] = "poll" => pc[th] = "check")
  <2>1. CASE CheckExited(th)
    BY <1>0, <2>1 DEF CheckExited, Return, Goto, TypeOK
  <2>2. CASE FindsBroken(th)
    BY <1>0, <2>2 DEF FindsBroken, Return, Goto, TypeOK, pipeVars
  <2>3. QED BY <2>1, <2>2
<1>2. ASSUME Holds(th, s, g), pc'[th] # "poll" PROVE ~Usable(s, g)'
  <2>1. CASE CheckExited(th)
    <3>1. (exited[s] = g \/ generation[s] # g) /\ UNCHANGED slotVars
      BY <1>0, <1>2, <2>1 DEF CheckExited, Holds, Goto, TypeOK
    <3>2. QED BY <1>2, <3>1, GivenUp
  <2>2. CASE FindsBroken(th)
    <3>1. MarkExited(s, g)
      BY <1>2, <2>2 DEF FindsBroken, Holds
    <3>2. QED BY <1>2, <3>1, GivenUp
  <2>3. QED BY <2>1, <2>2
<1>3. /\ pc'[th] \in Waiting => pc[th] \in Waiting
      /\ pc'[th] # "send"
      /\ Usable(s, g)' /\ pc[th] \in Waiting /\ Holds(th, s, g) => pc'[th] \in Waiting
  BY <1>1, <1>2 DEF Waiting
<1>4. QED BY <1>1, <1>3, PipeQuiet

\* A process's step that keeps pipes empty, or a thread's own, disturbs nothing else.
LEMMA PipeProcess ==
  ASSUME NEW s \in Slots, NEW g \in Generations, PipeInv(s, g), UNCHANGED <<slotVars, threadVars>>,
         Empty(s, g) => Empty(s, g)',
         \A th \in Threads : Holds(th, s, g) /\ pc[th] \in Waiting /\ OwnPipe(th, s, g) => OwnPipe(th, s, g)'
  PROVE  PipeInv(s, g)'
BY DEF PipeInv, Holds, Usable, slotVars, threadVars

\* An executor that reads an assignment works on its thread's job.
LEMMA PipeRead ==
  ASSUME DispatchInv, NEW r \in Slots, ReceiveAssignment(r), UNCHANGED <<slotVars, threadVars>>,
         NEW s \in Slots, NEW g \in Generations, PipeInv(s, g)
  PROVE  PipeInv(s, g)'
<1>0. TypeOK /\ UNCHANGED <<toBroker, job>>
  BY DEF DispatchInv, ReceiveAssignment, threadVars
<1>1. PICK h \in Generations : h = executor[r].gen /\ toExecutor[r][h] \in Seq(Jobs) /\ toExecutor[r][h] # <<>>
  BY <1>0, ExecutorTyped DEF ReceiveAssignment
<1>2. Elements(toExecutor[r][h]) = {Head(toExecutor[r][h])} \cup Elements(Tail(toExecutor[r][h]))
  BY <1>1, HeadTailElements
<1>3. CASE s = r /\ g = h
  <2>1. ~Empty(s, g)
    BY <1>1, <1>3 DEF Empty
  <2>2. ASSUME NEW th \in Threads, OwnPipe(th, s, g) PROVE OwnPipe(th, s, g)'
    <3>1. Head(toExecutor[r][h]) = job[th] /\ \A j \in Elements(Tail(toExecutor[r][h])) : j = job[th]
      BY <1>2, <1>3, <2>2 DEF OwnPipe
    <3>2. toExecutor'[s][g] = Tail(toExecutor[r][h]) /\ executor'[s].job = Head(toExecutor[r][h])
      BY <1>0, <1>1, <1>3, ReceiveChanges
    <3>3. (\A c \in Elements(toBroker[s][g]) : c.job = job[th]) /\ Len(toBroker[s][g]) <= 1
      BY <2>2 DEF OwnPipe
    <3>4. QED BY <1>0, <3>1, <3>2, <3>3 DEF OwnPipe
  <2>3. QED BY <2>1, <2>2, PipeProcess
<1>4. CASE s # r \/ g # h
  <2>1. toExecutor'[s][g] = toExecutor[s][g]
    BY <1>0, <1>1, <1>4, ReceiveChanges
  <2>2. (s = r => executor[s].gen # g /\ executor'[s].gen # g) /\ (s # r => executor'[s] = executor[s])
    BY <1>0, <1>1, <1>4, ReceiveChanges
  <2>3. Empty(s, g) => Empty(s, g)'
    BY <1>0, <2>1, <2>2 DEF Empty
  <2>4. \A th \in Threads : OwnPipe(th, s, g) => OwnPipe(th, s, g)'
    BY <1>0, <2>1, <2>2 DEF OwnPipe
  <2>5. QED BY <2>3, <2>4, PipeProcess
<1>5. QED BY <1>3, <1>4

\* A completion is the first and only one in its pipe.
LEMMA PipeCompleted ==
  ASSUME DispatchInv, NEW r \in Slots, NEW status \in {"COMPLETED", "FAILED"}, Complete(r, status),
         executor[r].job \in Jobs, UNCHANGED <<slotVars, threadVars, toExecutor>>,
         NEW s \in Slots, NEW g \in Generations, PipeInv(s, g)
  PROVE  PipeInv(s, g)'
<1>0. TypeOK /\ OneRun /\ TrueCompletions /\ UNCHANGED job
  BY DEF DispatchInv, threadVars
<1>1. PICK h \in Generations, j \in Jobs : h = executor[r].gen /\ j = executor[r].job
  BY <1>0, ExecutorTyped
<1>2. executor[r].job # NoJob
  BY DispatchAssumption
<1>3. CASE s = r /\ g = h
  <2>1. ~Empty(s, g)
    BY <1>1, <1>2, <1>3 DEF Empty
  <2>2. ASSUME NEW th \in Threads, OwnPipe(th, s, g) PROVE OwnPipe(th, s, g)'
    <3>1. job[th] = j
      BY <1>1, <1>2, <1>3, <2>2 DEF OwnPipe
    <3>2. executed[j] = "none"
      BY <1>0, <1>1 DEF OneRun
    <3>3. toBroker[s][g] \in Seq(Completion)
      BY <1>0, ExecutorTyped
    <3>4. Elements(toBroker[s][g]) = {}
      <4>1. SUFFICES ASSUME NEW c \in Elements(toBroker[s][g]) PROVE FALSE
        OBVIOUS
      <4>2. c \in Completion
        BY <3>3, ElementsTyped
      <4>3. executed[j] = c.status
        BY <1>0, <2>2, <3>1 DEF OwnPipe, TrueCompletions
      <4>4. QED BY <3>2, <4>2, <4>3 DEF Completion
    <3>5. toBroker[s][g] = <<>>
      BY <3>3, <3>4, NoElements
    <3>6. PICK c \in Completion : c = [job |-> j, status |-> status]
      BY DEF Completion
    <3>7. toBroker'[s][g] = Append(<<>>, c)
      <4>1. toBroker' = [toBroker EXCEPT ![r][h] = Append(toBroker[r][h], c)]
        BY <1>1, <3>6 DEF Complete
      <4>2. toBroker \in [Slots -> [Generations -> Seq(Completion)]]
        BY <1>0 DEF TypeOK
      <4>3. QED BY <1>3, <3>5, <4>1, <4>2
    <3>8. Elements(toBroker'[s][g]) = {c} /\ Len(toBroker'[s][g]) = 1
      <4>1. PICK q \in Seq(Completion) : q = <<>> /\ Elements(q) = {}
        BY EmptyElements
      <4>2. Elements(Append(q, c)) = Elements(q) \cup {c}
        BY AppendElements
      <4>3. Len(Append(<<>>, c)) = 1
        OBVIOUS
      <4>4. QED BY <3>7, <4>1, <4>2, <4>3
    <3>9. executor'[s].job = NoJob
      BY <1>0, <1>1, <1>3, CompleteChanges
    <3>10. (\A i \in Elements(toExecutor[s][g]) : i = job[th]) /\ c.job = job[th]
      BY <2>2, <3>1, <3>6 DEF OwnPipe
    <3>11. QED BY <1>0, <3>8, <3>9, <3>10 DEF OwnPipe
  <2>3. QED BY <2>1, <2>2, PipeProcess
<1>4. CASE s # r \/ g # h
  <2>1. toBroker'[s][g] = toBroker[s][g]
    BY <1>0, <1>1, <1>4, CompleteChanges
  <2>2. (s = r => executor[s].gen # g /\ executor'[s].gen # g) /\ (s # r => executor'[s] = executor[s])
    BY <1>0, <1>1, <1>4, CompleteChanges
  <2>3. Empty(s, g) => Empty(s, g)'
    BY <2>1, <2>2 DEF Empty
  <2>4. \A th \in Threads : OwnPipe(th, s, g) => OwnPipe(th, s, g)'
    BY <1>0, <2>1, <2>2 DEF OwnPipe
  <2>5. QED BY <2>3, <2>4, PipeProcess
<1>5. QED BY <1>3, <1>4

\* Steps of the processes keep the pipes as they should be.
LEMMA PipeProcesses ==
  ASSUME DispatchInv, NEW r \in Slots, ExecutorStep(r) \/ SupervisorStep(r) \/ Die(r),
         NEW s \in Slots, NEW g \in Generations, PipeInv(s, g)
  PROVE  PipeInv(s, g)'
<1>0. TypeOK /\ ExecutorInv(r) /\ UNCHANGED <<slotVars, threadVars>>
  BY ProcessSteps DEF DispatchInv
<1>1. ASSUME executor'[r].job = NoJob \/ (executor'[r].gen = executor[r].gen /\ executor'[r].job = executor[r].job),
             \A q \in Slots : q # r => executor'[q] = executor[q], UNCHANGED <<toExecutor, toBroker>>
      PROVE  PipeInv(s, g)'
  <2>1. Empty(s, g) => Empty(s, g)'
    BY <1>1 DEF Empty
  <2>2. \A th \in Threads : OwnPipe(th, s, g) => OwnPipe(th, s, g)'
    BY <1>0, <1>1 DEF OwnPipe, threadVars
  <2>3. QED BY <1>0, <2>1, <2>2, PipeProcess
<1>2. CASE ReceiveAssignment(r)
  BY <1>0, <1>2, PipeRead
<1>3. CASE RequestSnapshot(r)
  <2>1. /\ SetExecutor(r, "fence", executor[r].job, executor[r].fences + 1)
        /\ executor[r].fences + 1 \in 0..MaxFences /\ UNCHANGED <<toExecutor, toBroker>>
        /\ executor[r].job \in Jobs \cup {NoJob}
    BY <1>0, <1>3, ExecutorTyped, DispatchAssumption DEF RequestSnapshot, pipeVars
  <2>2. /\ executor'[r].gen = executor[r].gen /\ executor'[r].job = executor[r].job
        /\ \A q \in Slots : q # r => executor'[q] = executor[q]
    BY <1>0, <2>1, SetExecutorChanges
  <2>3. QED BY <1>1, <2>1, <2>2
<1>4. CASE GetSnapshot(r)
  <2>1. executor[r].job \in Jobs /\ UNCHANGED toExecutor
    BY <1>0, <1>4, ExecutorTyped DEF GetSnapshot, ExecutorInv
  <2>2. CASE SetExecutor(r, "running", executor[r].job, executor[r].fences) /\ UNCHANGED toBroker
    <3>1. executor[r].fences \in 0..MaxFences
      BY <1>0, ExecutorTyped
    <3>2. /\ executor'[r].gen = executor[r].gen /\ executor'[r].job = executor[r].job
          /\ \A q \in Slots : q # r => executor'[q] = executor[q]
      BY <1>0, <2>1, <2>2, <3>1, SetExecutorChanges
    <3>3. QED BY <1>1, <2>1, <2>2, <3>2
  <2>3. CASE Complete(r, "FAILED")
    BY <1>0, <2>1, <2>3, PipeCompleted
  <2>4. QED BY <1>4, <2>2, <2>3 DEF GetSnapshot
<1>5. CASE FinishTask(r)
  <2>1. executor[r].job \in Jobs /\ UNCHANGED toExecutor
    BY <1>0, <1>5, ExecutorTyped DEF FinishTask, ExecutorInv
  <2>2. PICK status \in {"COMPLETED", "FAILED"} : Complete(r, status)
    BY <1>5 DEF FinishTask
  <2>3. QED BY <1>0, <2>1, <2>2, PipeCompleted
<1>6. CASE Die(r)
  <2>1. /\ UNCHANGED <<toExecutor, toBroker>> /\ SetExecutor(r, "dead", NoJob, 0) /\ 0 \in 0..MaxFences
    BY <1>6, DispatchAssumption DEF Die, pipeVars
  <2>2. executor'[r].job = NoJob /\ \A q \in Slots : q # r => executor'[q] = executor[q]
    BY <1>0, <2>1, SetExecutorChanges
  <2>3. QED BY <1>1, <2>1, <2>2
<1>7. CASE StartReplacement(r)
  <2>1. UNCHANGED <<toExecutor, toBroker>>
    BY <1>7 DEF StartReplacement, pipeVars
  <2>2. executor'[r].job = NoJob /\ \A q \in Slots : q # r => executor'[q] = executor[q]
    BY <1>0, <1>7, ReplacementChanges
  <2>3. QED BY <1>1, <2>1, <2>2
<1>8. CASE ReportExit(r)
  BY <1>1, <1>8 DEF ReportExit, pipeVars
<1>9. QED
  BY <1>2, <1>3, <1>4, <1>5, <1>6, <1>7, <1>8, Zenon DEF ExecutorStep, SupervisorStep

\* As long as leases are exclusive, every step keeps the pipes as they should be.
LEMMA PipesKept ==
  ASSUME DispatchInv, DispatchInv', BrokerLags, ExclusiveLease, ExclusiveLease', [Next]_vars, PipesInv
  PROVE  PipesInv'
<1>0. /\ TypeOK /\ TypeOK'
      /\ \A th \in Threads : ThreadInv(th)
  BY DEF DispatchInv
<1> SUFFICES ASSUME NEW s \in Slots, NEW g \in Generations PROVE PipeInv(s, g)'
  BY DEF PipesInv
<1>1. PipeInv(s, g)
  BY DEF PipesInv
<1>2. ASSUME NEW th \in Threads, ThreadStep(th) PROVE PipeInv(s, g)'
  <2>1. ASSUME UNCHANGED pipeVars, pc'[th] # "send", pc[th] \notin Waiting, pc'[th] \notin Waiting
        PROVE  PipeInv(s, g)'
    BY <1>1, <1>2, <2>1, PipeQuiet
  <2>2. ASSUME UNCHANGED <<pipeVars, lease, job>>, pc'[th] # "send", pc[th] \in Waiting <=> pc'[th] \in Waiting
        PROVE  PipeInv(s, g)'
    BY <1>1, <1>2, <2>2, PipeQuiet
  <2>3. CASE TakeEvent(th) \/ HandleExited(th) \/ HandleStarted(th)
    <3>1. UNCHANGED <<pipeVars, lease, job, pc>> /\ pc[th] \in Draining
      BY <2>3 DEF TakeEvent, HandleExited, HandleStarted
    <3>2. QED BY <2>2, <3>1 DEF Draining
  <2>4. CASE Drained(th)
    <3>1. UNCHANGED <<pipeVars, lease, job>> /\ pc[th] \in Draining
      BY <2>4 DEF Drained
    <3>2. CASE pc[th] = "drain lease"
      BY <1>0, <2>2, <2>4, <3>1, <3>2 DEF Drained, Goto, TypeOK, Waiting
    <3>3. CASE pc[th] = "drain wait"
      BY <1>0, <2>2, <2>4, <3>1, <3>3 DEF Drained, Goto, TypeOK, Waiting
    <3>4. CASE pc[th] = "drain release"
      BY <1>0, <2>2, <2>4, <3>1, <3>4 DEF Drained, Goto, TypeOK, Waiting
    <3>5. QED BY <3>1, <3>2, <3>3, <3>4 DEF Draining
  <2>5. CASE Execute(th) \/ GetSlot(th) \/ Release(th)
    <3>1. UNCHANGED pipeVars
      BY <2>5 DEF Execute, GetSlot, Release
    <3>2. pc[th] \in {"idle", "get", "release"} /\ pc'[th] \in {"drain lease", "lock", "idle"}
      BY <1>0, <2>5 DEF Execute, GetSlot, Release, Goto, TypeOK
    <3>3. QED BY <2>1, <3>1, <3>2 DEF Waiting
  <2>6. CASE TakeRequest(th) \/ ServeRequest(th)
    <3>1. UNCHANGED <<pipeVars, lease, job>>
      BY <2>6 DEF TakeRequest, ServeRequest
    <3>2. pc[th] \in {"fence", "serve"} /\ pc'[th] \in {"serve", "drain wait", "fence"}
      BY <1>0, <2>6 DEF TakeRequest, ServeRequest, Goto, TypeOK
    <3>3. QED BY <2>2, <3>1, <3>2 DEF Waiting
  <2>7. CASE LeaseSlot(th)
    BY <1>0, <1>1, <2>7, PipeLeased
  <2>8. CASE CheckExited(th) \/ FindsBroken(th)
    BY <1>1, <1>2, <2>8, PipeGivenUp
  <2>9. CASE Send(th)
    <3>1. CASE ~UNCHANGED toExecutor
      BY <1>1, <2>9, <3>1, PipeSent
    <3>2. CASE UNCHANGED toExecutor
      <4>1. ASSUME NEW r \in Slots, NEW h \in Generations, NEW j \in Jobs,
                   toExecutor' = [toExecutor EXCEPT ![r][h] = Append(@, j)]
            PROVE  FALSE
        <5>1. Elements(toExecutor'[r][h]) = Elements(toExecutor[r][h]) \cup {j}
          BY <1>0, <4>1, SendChanges
        <5>2. toExecutor[r][h] \in Seq(Jobs) /\ toExecutor'[r][h] = Append(toExecutor[r][h], j)
          BY <1>0, <4>1 DEF TypeOK
        <5>3. Len(Append(toExecutor[r][h], j)) = Len(toExecutor[r][h]) + 1 /\ Len(toExecutor[r][h]) \in Nat
          BY <5>2
        <5>4. Len(toExecutor'[r][h]) = Len(toExecutor[r][h])
          BY <3>2
        <5>5. QED BY <5>2, <5>3, <5>4
      <4>2. lease[th].slot \in Slots /\ lease[th].gen \in Generations /\ job[th] \in Jobs
        BY <1>0, <2>9, WaitingTyped DEF Send
      <4>3. FindsBroken(th)
        BY <2>9, <4>1, <4>2 DEF Send, FindsBroken
      <4>4. QED BY <2>8, <4>3
    <3>3. QED BY <3>1, <3>2
  <2>10. CASE PollPipe(th)
    <3>1. CASE BrokenPipe(th)
      <4>1. FindsBroken(th)
        BY <2>10, <3>1 DEF PollPipe, BrokenPipe, FindsBroken, pipeVars
      <4>2. QED BY <2>8, <4>1
    <3>2. CASE Goto(th, "recv") \/ Goto(th, "fence")
      <4>1. UNCHANGED <<pipeVars, lease, job>> /\ pc[th] = "poll"
        BY <2>10 DEF PollPipe
      <4>2. pc'[th] \in {"recv", "fence"}
        BY <1>0, <3>2 DEF Goto, TypeOK
      <4>3. QED BY <2>2, <4>1, <4>2 DEF Waiting
    <3>3. QED BY <2>10, <3>1, <3>2 DEF PollPipe
  <2>11. CASE Recv(th)
    <3>1. CASE ~UNCHANGED toBroker
      BY <1>1, <2>11, <3>1, PipeReceived
    <3>2. CASE UNCHANGED toBroker
      <4>1. PICK r \in Slots, h \in Generations : r = lease[th].slot /\ h = lease[th].gen
        BY <1>0, <2>11, WaitingTyped DEF Recv
      <4>2. ASSUME toBroker[r][h] # <<>>, toBroker' = [toBroker EXCEPT ![r][h] = Tail(@)] PROVE FALSE
        <5>1. toBroker[r][h] \in Seq(Completion) /\ toBroker'[r][h] = Tail(toBroker[r][h])
          BY <1>0, <4>2 DEF TypeOK
        <5>2. QED BY <3>2, <4>2, <5>1, TailsDiffer
      <4>3. FindsBroken(th)
        BY <2>11, <4>1, <4>2 DEF Recv, BrokenPipe, FindsBroken
      <4>4. QED BY <2>8, <4>3
    <3>3. QED BY <3>1, <3>2
  <2>12. QED
    BY <1>2, <2>3, <2>4, <2>5, <2>6, <2>7, <2>8, <2>9, <2>10, <2>11, Zenon DEF ThreadStep
<1>3. ASSUME NEW r \in Slots, ExecutorStep(r) \/ SupervisorStep(r) \/ Die(r) PROVE PipeInv(s, g)'
  BY <1>1, <1>3, PipeProcesses
<1>4. ASSUME Ended \/ UNCHANGED vars PROVE PipeInv(s, g)'
  <2>1. UNCHANGED vars
    BY <1>4 DEF Ended
  <2>2. QED BY <1>1, <2>1 DEF PipeInv, Holds, Empty, OwnPipe, Usable, vars
<1>5. QED BY <1>2, <1>3, <1>4 DEF Next

\* An attempt fails for its thread because the process has ended, or by its completion.
LEMMA FailingSteps ==
  ASSUME DispatchInv, NEW th \in Threads, ThreadStep(th), NEW j \in Jobs, outcome'[j] # outcome[j]
  PROVE  /\ job[th] = j
         /\ \/ FindsBroken(th)
            \/ /\ CheckExited(th)
               /\ exited[lease[th].slot] = lease[th].gen \/ generation[lease[th].slot] # lease[th].gen
            \/ Recv(th) /\ toBroker[lease[th].slot][lease[th].gen] # <<>>
<1>0. TypeOK /\ ThreadInv(th)
  BY DEF DispatchInv
<1>1. ASSUME job[th] \in Jobs, NEW status, Return(th, status) PROVE job[th] = j
  BY <1>0, <1>1 DEF Return, TypeOK
<1>2. CASE Send(th)
  <2>1. FindsBroken(th)
    BY <1>2 DEF Send, FindsBroken
  <2>2. QED BY <1>0, <1>1, <2>1, BrokenTyped DEF FindsBroken
<1>3. CASE PollPipe(th)
  <2>1. FindsBroken(th)
    BY <1>3 DEF PollPipe, BrokenPipe, FindsBroken, pipeVars
  <2>2. QED BY <1>0, <1>1, <2>1, BrokenTyped DEF FindsBroken
<1>4. CASE Recv(th)
  <2>1. job[th] \in Jobs /\ \E status : Return(th, status)
    BY <1>0, <1>4, WaitingTyped DEF Recv, BrokenPipe
  <2>2. FindsBroken(th) \/ toBroker[lease[th].slot][lease[th].gen] # <<>>
    BY <1>4 DEF Recv, BrokenPipe, FindsBroken
  <2>3. QED BY <1>1, <1>4, <2>1, <2>2
<1>5. CASE CheckExited(th)
  <2>1. job[th] \in Jobs
    BY <1>0, <1>5, WaitingTyped DEF CheckExited
  <2>2. /\ Return(th, "FAILED")
        /\ exited[lease[th].slot] = lease[th].gen \/ generation[lease[th].slot] # lease[th].gen
    BY <1>5 DEF CheckExited
  <2>3. QED BY <1>1, <1>5, <2>1, <2>2
<1>6. UNCHANGED outcome => FALSE
  OBVIOUS
<1>7. CASE ~(Send(th) \/ PollPipe(th) \/ Recv(th) \/ CheckExited(th))
  <2>1. UNCHANGED outcome
    BY <1>7 DEF ThreadStep, TakeEvent, HandleExited, HandleStarted, Drained, Execute, GetSlot, LeaseSlot,
       TakeRequest, ServeRequest, Release, resultVars
  <2>2. QED BY <1>6, <2>1
<1>8. QED BY <1>2, <1>3, <1>4, <1>5, <1>7

\* No live process works on an attempt that has been given up, or will.
Stopped(j, s) ==
  outcome[j] = "FAILED" /\ executed[j] = "none" /\ executor[s].state # "dead" => ~At(s, executor[s].gen, j)

LEMMA StoppedEverywhere == FailedMeansStopped <=> \A j \in Jobs, s \in Slots : Stopped(j, s)
  BY DEF FailedMeansStopped, Stopped, At, Elements

\* No assignment awaits a process that is yet to be started.
LEMMA NextIsEmpty ==
  ASSUME DispatchInv, BrokerLags, NEW s \in Slots, NEW g \in Generations, g = executor[s].gen + 1,
         PipeInv(s, g), NEW j
  PROVE  ~At(s, g, j)
<1>0. TypeOK /\ SlotLags(s) /\ \A th \in Threads : LeaseLags(th)
  BY DEF DispatchInv, BrokerLags, ThreadLags
<1>1. g \in Nat /\ g # None /\ generation[s] \in Nat /\ executor[s].gen \in Nat
  <2>1. generation[s] \in Generations /\ executor[s].gen \in Generations
    BY <1>0, ExecutorTyped DEF TypeOK
  <2>2. QED BY <2>1 DEF Generations, None
<1>2. generation[s] < g
  BY <1>0, <1>1 DEF SlotLags
<1>3. ASSUME NEW th \in Threads, Holds(th, s, g) PROVE FALSE
  BY <1>0, <1>1, <1>2, <1>3 DEF Holds, LeaseLags
<1>4. Empty(s, g)
  BY <1>2, <1>3 DEF PipeInv, Usable
<1>5. QED BY <1>1, <1>4, EmptyElements DEF Empty, At

\* A thread that reports a failure without its executor's word has lost the process.
LEMMA ThreadGivesUp ==
  ASSUME DispatchInv, BrokerLags, PipesInv, NEW th \in Threads, ThreadStep(th), RunsWhereLeased(th),
         NEW j \in Jobs, outcome'[j] # outcome[j], executed[j] = "none",
         NEW s \in Slots, executor[s].state # "dead", At(s, executor[s].gen, j)
  PROVE  FALSE
<1>0. /\ TypeOK /\ ThreadInv(th) /\ SlotLags(s) /\ LeaseLags(th) /\ TrueCompletions
  BY DEF DispatchInv, BrokerLags, ThreadLags
<1>1. PICK g \in Generations : g = executor[s].gen
  BY <1>0, ExecutorTyped
<1>2. job[th] = j
  BY FailingSteps
<1>3. Holds(th, s, g)
  <2>1. pc[th] # "idle"
    BY <1>0, <1>2, DispatchAssumption DEF ThreadInv
  <2>2. QED BY <1>1, <1>2, <2>1 DEF RunsWhereLeased
<1>4. g \in Nat /\ g # None /\ generation[s] \in Nat
  <2>1. generation[s] \in Generations
    BY <1>0 DEF TypeOK
  <2>2. QED BY <2>1 DEF Generations, None
<1>5. CASE FindsBroken(th)
  BY <1>1, <1>3, <1>5 DEF FindsBroken, Alive, Holds
<1>6. CASE exited[s] = g
  BY <1>0, <1>1, <1>4, <1>6 DEF SlotLags, Gone
<1>7. CASE generation[s] # g
  <2>1. g <= generation[s] /\ generation[s] <= g
    BY <1>0, <1>1, <1>3, <1>4 DEF SlotLags, LeaseLags, Holds
  <2>2. QED BY <1>4, <1>7, <2>1
<1>8. CASE Recv(th) /\ toBroker[s][g] # <<>>
  <2>1. OwnPipe(th, s, g)
    <3>1. pc[th] \in Waiting
      BY <1>8 DEF Recv, Waiting
    <3>2. QED BY <1>3, <3>1 DEF PipesInv, PipeInv
  <2>2. PICK c \in Completion : c = Head(toBroker[s][g]) /\ c \in Elements(toBroker[s][g])
    BY <1>0, <1>8, ExecutorTyped, HeadTailElements
  <2>3. c.job = j /\ executed[j] = c.status
    BY <1>0, <1>2, <2>1, <2>2 DEF OwnPipe, TrueCompletions
  <2>4. QED BY <2>2, <2>3 DEF Completion
<1>9. QED BY <1>3, <1>5, <1>6, <1>7, <1>8, FailingSteps DEF Holds

LEMMA FailedKept ==
  ASSUME DispatchInv, DispatchInv', BrokerLags, PipesInv, \A th \in Threads : RunsWhereLeased(th),
         FailedMeansStopped, [Next]_vars
  PROVE  FailedMeansStopped'
<1>0. /\ TypeOK /\ TypeOK' /\ OneRun /\ ThreadsApart /\ TrueCompletions /\ OwnResultOnly
      /\ \A th \in Threads : ThreadInv(th)
      /\ \A s \in Slots : ExecutorInv(s)
  BY DEF DispatchInv
<1>1. SUFFICES ASSUME NEW j \in Jobs, NEW s \in Slots, outcome'[j] = "FAILED", executed'[j] = "none",
                      executor'[s].state # "dead", At(s, executor[s].gen, j)'
               PROVE  FALSE
  BY DEF FailedMeansStopped, At, Elements
<1>2. PICK g \in Generations : g = executor'[s].gen
  <2>1. executor'[s] \in Executor
    BY <1>0 DEF TypeOK, Executor
  <2>2. QED BY <2>1 DEF Executor
<1>3. At(s, g, j)'
  BY <1>1, <1>2 DEF At
<1>4. executed[j] = "none"
  BY <1>0, <1>1, TrueCompletionsKept
<1>5. ASSUME NEW th \in Threads, Send(th), job[th] = j PROVE FALSE
  <2>1. UNCHANGED executor /\ pc[th] = "send"
    BY <1>5 DEF Send, processVars
  <2>2. ~Sent(j)
    BY <1>5, <2>1 DEF Sent, Unsent
  <2>3. outcome[j] = "none"
    BY <1>0, <1>5, <2>1, DispatchAssumption DEF ThreadsApart, Returned
  <2>4. CASE UNCHANGED toExecutor
    <3>1. At(s, g, j)
      BY <1>3, <2>1, <2>4 DEF At
    <3>2. QED BY <1>0, <2>2, <3>1, AtIsSent
  <2>5. CASE ~UNCHANGED toExecutor
    <3>1. UNCHANGED outcome
      BY <1>5, <2>5 DEF Send
    <3>2. QED BY <1>1, <2>3, <3>1
  <2>6. QED BY <2>4, <2>5
<1>6. At(s, g, j)
  BY <1>3, <1>5, AtBefore
<1>7. CASE outcome[j] = "FAILED"
  <2>1. g = executor[s].gen => executor[s].state = "dead"
    BY <1>4, <1>6, <1>7, StoppedEverywhere DEF Stopped
  <2>2. CASE executor'[s] = executor[s]
    BY <1>1, <1>2, <2>1, <2>2
  <2>3. CASE executor'[s].gen = executor[s].gen /\ executor[s].state # "dead"
    BY <1>2, <2>1, <2>3
  <2>4. CASE executor'[s].gen = executor[s].gen + 1
    BY <1>2, <1>6, <2>4, NextIsEmpty DEF PipesInv
  <2>5. QED BY <1>0, <2>2, <2>3, <2>4, ExecutorMoves
<1>8. CASE outcome[j] # "FAILED"
  <2>1. outcome'[j] # outcome[j]
    BY <1>1, <1>8
  <2>2. PICK th \in Threads : ThreadStep(th)
    <3>1. ASSUME NEW r \in Slots, ExecutorStep(r) \/ SupervisorStep(r) \/ Die(r) PROVE FALSE
      BY <2>1, <3>1, ProcessSteps
    <3>2. ASSUME Ended \/ UNCHANGED vars PROVE FALSE
      BY <2>1, <3>2 DEF Ended, vars
    <3>3. QED BY <3>1, <3>2 DEF Next
  <2>3. UNCHANGED executor
    BY <2>2, ThreadSteps
  <2>4. QED BY <1>1, <1>2, <1>4, <1>6, <2>1, <2>2, <2>3, ThreadGivesUp
<1>9. QED BY <1>7, <1>8

\* When no two threads lease the same process, an attempt that was reported
\* FAILED without its executor's word is run by no live executor, and will not be:
\* what docs/runtime/conductor.md says of leases is all that Conductor's retry needs.
THEOREM FailedAttemptsStop == Spec /\ []ExclusiveLease => []FailedMeansStopped
<1> DEFINE Inv == PipesInv /\ (\A th \in Threads : RunsWhereLeased(th)) /\ FailedMeansStopped
<1>1. Init => Inv
  <2> SUFFICES ASSUME Init PROVE Inv
    OBVIOUS
  <2>1. ASSUME NEW s \in Slots, NEW g \in Generations PROVE Empty(s, g)
    BY DEF Init, Empty
  <2>2. \A th \in Threads : pc[th] = "idle"
    BY DEF Init
  <2>3. PipesInv
    BY <2>1, <2>2 DEF PipesInv, PipeInv, Waiting
  <2>4. FailedMeansStopped
    BY DEF Init, FailedMeansStopped
  <2>5. QED BY <2>2, <2>3, <2>4 DEF RunsWhereLeased
<1>2. DispatchInv /\ DispatchInv' /\ BrokerLags /\ ExclusiveLease /\ ExclusiveLease' /\ Inv /\ [Next]_vars => Inv'
  BY PipesKept, RunsKept, FailedKept
<1>3. Inv => FailedMeansStopped
  OBVIOUS
<1> HIDE DEF Inv
<1>4. QED BY <1>1, <1>2, <1>3, DispatchInvHolds, BrokerNeverAhead, PTL DEF Spec

\* One thread cannot share a process with another.
COROLLARY OneThreadStops ==
  ASSUME \A th, ot \in Threads : th = ot
  PROVE  Spec => []FailedMeansStopped
<1>1. ExclusiveLease
  BY DEF ExclusiveLease
<1>2. QED BY <1>1, FailedAttemptsStop, PTL

-----------------------------------------------------------------------------
\* Every attempt is delivered once

\* Nothing is assigned to a process that is yet to be started.
FuturePipes ==
  \A s \in Slots, g \in Generations : g > executor[s].gen => Elements(toExecutor[s][g]) = {}

\* Assignments come from a thread's send, and go to the process that takes them.
LEMMA OnlySendAssigns ==
  ASSUME NEW th \in Threads, ThreadStep(th), ~Send(th)
  PROVE  UNCHANGED toExecutor
<1>1. CASE TakeEvent(th) \/ HandleExited(th) \/ HandleStarted(th) \/ Drained(th) \/ Execute(th) \/ GetSlot(th)
  BY <1>1 DEF TakeEvent, HandleExited, HandleStarted, Drained, Execute, GetSlot, pipeVars
<1>2. CASE LeaseSlot(th) \/ TakeRequest(th) \/ ServeRequest(th) \/ CheckExited(th) \/ PollPipe(th) \/ Recv(th)
           \/ Release(th)
  BY <1>2 DEF LeaseSlot, TakeRequest, ServeRequest, CheckExited, PollPipe, Recv, Release, pipeVars
<1>3. QED BY <1>1, <1>2 DEF ThreadStep

LEMMA AssignmentSteps ==
  ASSUME [Next]_vars
  PROVE  \/ UNCHANGED toExecutor
         \/ \E th \in Threads : Send(th)
         \/ \E s \in Slots : ReceiveAssignment(s)
<1>1. ASSUME NEW s \in Slots, ExecutorStep(s) \/ SupervisorStep(s) \/ Die(s), ~ReceiveAssignment(s)
      PROVE  UNCHANGED toExecutor
  BY <1>1 DEF ExecutorStep, SupervisorStep, RequestSnapshot, GetSnapshot, FinishTask, Die, ReportExit,
              StartReplacement, pipeVars
<1>2. ASSUME Ended \/ UNCHANGED vars PROVE UNCHANGED toExecutor
  BY <1>2 DEF Ended, vars
<1>3. QED BY <1>1, <1>2, OnlySendAssigns DEF Next

\* The generation a thread has leased is that of a process which has been started.
LEMMA LeasedIsStarted ==
  ASSUME TypeOK, BrokerLags, NEW th \in Threads, NEW s \in Slots, NEW g \in Generations,
         s = lease[th].slot, g = lease[th].gen
  PROVE  g <= executor[s].gen
<1>1. generation[s] \in Nat /\ executor[s].gen \in Nat /\ g \in Nat /\ g # None
  <2>1. generation[s] \in Generations /\ executor[s].gen \in Generations
    BY ExecutorTyped DEF TypeOK
  <2>2. QED BY <2>1 DEF Generations, None
<1>2. g <= generation[s] /\ generation[s] <= executor[s].gen
  BY <1>1 DEF BrokerLags, ThreadLags, LeaseLags, SlotLags
<1>3. QED BY <1>1, <1>2

LEMMA FuturePipesKept ==
  ASSUME DispatchInv, DispatchInv', BrokerLags, FuturePipes, [Next]_vars
  PROVE  FuturePipes'
<1>0. /\ TypeOK /\ TypeOK'
      /\ \A th \in Threads : ThreadInv(th)
      /\ \A s \in Slots : ExecutorInv(s)
  BY DEF DispatchInv
<1>1. SUFFICES ASSUME NEW r \in Slots, NEW h \in Generations, h > executor'[r].gen
               PROVE  Elements(toExecutor'[r][h]) = {}
  BY DEF FuturePipes, Elements
<1>2. h > executor[r].gen
  <2>1. h \in Nat /\ executor[r].gen \in Nat /\ executor'[r].gen \in Nat
    <3>1. executor[r] \in Executor /\ executor'[r] \in Executor
      BY <1>0 DEF TypeOK, Executor
    <3>2. QED BY <3>1 DEF Executor, Generations
  <2>2. QED BY <1>0, <1>1, <2>1, GoneStays
<1>3. Elements(toExecutor[r][h]) = {}
  BY <1>2 DEF FuturePipes
<1>4. CASE UNCHANGED toExecutor
  BY <1>3, <1>4
<1>5. ASSUME NEW th \in Threads, Send(th), ~UNCHANGED toExecutor PROVE Elements(toExecutor'[r][h]) = {}
  <2>1. PICK s \in Slots, g \in Generations :
          /\ s = lease[th].slot /\ g = lease[th].gen
          /\ \A q \in Slots, k \in Generations : q # s \/ k # g => toExecutor'[q][k] = toExecutor[q][k]
    BY <1>0, <1>5, SentThere
  <2>2. r # s \/ h # g
    <3>1. g <= executor[s].gen
      BY <1>0, <2>1, LeasedIsStarted
    <3>2. g \in Nat /\ executor[s].gen \in Nat
      BY <1>0, ExecutorTyped DEF Generations
    <3>3. QED BY <1>2, <3>1, <3>2
  <2>3. QED BY <1>3, <2>1, <2>2
<1>6. ASSUME NEW s \in Slots, ReceiveAssignment(s) PROVE Elements(toExecutor'[r][h]) = {}
  <2>1. r # s \/ h # executor[s].gen
    <3>1. executor[s].gen \in Nat
      BY <1>0, ExecutorTyped DEF Generations
    <3>2. QED BY <1>2, <3>1
  <2>2. toExecutor'[r][h] = toExecutor[r][h]
    BY <1>0, <1>6, <2>1, ReceiveChanges
  <2>3. QED BY <1>3, <2>2
<1>7. QED BY <1>4, <1>5, <1>6, AssignmentSteps

\* The abstract steps, seen slot by slot and job by job.
SameJobs == Polled' = Polled /\ UNCHANGED <<executed, outcome>>
SameSlot(s) == Inbox(s)' = Inbox(s) /\ executor'[s].job = executor[s].job
SameSlots == \A s \in Slots : SameSlot(s)

LEMMA Stutters ==
  ASSUME SameJobs, Unassigned' = Unassigned, SameSlots
  PROVE  UNCHANGED Delivery!vars
BY DEF SameJobs, SameSlots, SameSlot, Delivery!vars

LEMMA Polls ==
  ASSUME NEW j \in Jobs \ Polled, Polled' = Polled \cup {j}, Unassigned' = Unassigned \cup {j},
         UNCHANGED <<executed, outcome>>, SameSlots
  PROVE  Delivery!Next
<1>1. Delivery!Poll(j)
  BY DEF SameSlots, SameSlot, Delivery!Poll
<1>2. QED BY <1>1 DEF Delivery!Next

LEMMA Loses ==
  ASSUME NEW j \in Unassigned, SameJobs, Unassigned' = Unassigned \ {j}, SameSlots
  PROVE  Delivery!Next
<1>1. Delivery!Lose(j)
  BY DEF SameJobs, SameSlots, SameSlot, Delivery!Lose
<1>2. QED BY <1>1 DEF Delivery!Next

LEMMA Assigns ==
  ASSUME NEW s \in Slots, NEW j \in Unassigned, SameJobs, Unassigned' = Unassigned \ {j},
         Inbox(s)' = Inbox(s) \cup {j}, executor'[s].job = executor[s].job,
         \A r \in Slots : r # s => SameSlot(r)
  PROVE  Delivery!Next
<1>1. Delivery!Assign(j, s)
  BY DEF SameJobs, SameSlot, Delivery!Assign
<1>2. QED BY <1>1 DEF Delivery!Next

LEMMA Begins ==
  ASSUME NEW s \in Slots, NEW j \in Inbox(s), SameJobs, Unassigned' = Unassigned,
         Inbox(s)' = Inbox(s) \ {j}, executor[s].job = NoJob, executor'[s].job = j,
         \A r \in Slots : r # s => SameSlot(r)
  PROVE  Delivery!Next
<1>1. Delivery!Begin(j, s)
  BY DEF SameJobs, SameSlot, Delivery!Begin
<1>2. QED BY <1>1 DEF Delivery!Next

LEMMA RunEnds ==
  ASSUME NEW s \in Slots, NEW j \in Jobs, executor[s].job = j, j # NoJob,
         NEW status \in {"COMPLETED", "FAILED"}, executed' = [executed EXCEPT ![j] = status],
         Polled' = Polled, UNCHANGED outcome, Unassigned' = Unassigned,
         Inbox(s)' = Inbox(s), executor'[s].job = NoJob,
         \A r \in Slots : r # s => SameSlot(r)
  PROVE  Delivery!Next
<1>1. Delivery!Finish(s, status)
  BY DEF SameSlot, Delivery!Finish
<1>2. QED BY <1>1 DEF Delivery!Next

LEMMA Leaves ==
  ASSUME NEW s \in Slots, SameJobs, Unassigned' = Unassigned, Inbox(s)' = {}, executor'[s].job = NoJob,
         \A r \in Slots : r # s => SameSlot(r)
  PROVE  Delivery!Next
<1>1. Delivery!Leave(s)
  BY DEF SameJobs, SameSlot, Delivery!Leave
<1>2. QED BY <1>1 DEF Delivery!Next

LEMMA Reports ==
  ASSUME NEW j \in Polled, Polled' = Polled, Unassigned' = Unassigned, SameSlots, UNCHANGED executed,
         outcome[j] = "none", executed[j] # "none", outcome' = [outcome EXCEPT ![j] = executed[j]]
  PROVE  Delivery!Next
<1>1. Delivery!Report(j)
  BY DEF SameSlots, SameSlot, Delivery!Report
<1>2. QED BY <1>1 DEF Delivery!Next

LEMMA Fails ==
  ASSUME NEW j \in Polled, Polled' = Polled, Unassigned' = Unassigned \ {j}, SameSlots, UNCHANGED executed,
         outcome[j] = "none", outcome' = [outcome EXCEPT ![j] = "FAILED"]
  PROVE  Delivery!Fail(j)
BY DEF SameSlots, SameSlot, Delivery!Fail

\* What the mapping reads of a slot, and of the threads.
LEMMA SlotStays ==
  ASSUME NEW s \in Slots, executor'[s].gen = executor[s].gen, executor'[s].job = executor[s].job,
         executor'[s].state = "dead" <=> executor[s].state = "dead",
         executor[s].state # "dead" =>
           Elements(toExecutor'[s][executor[s].gen]) = Elements(toExecutor[s][executor[s].gen])
  PROVE  SameSlot(s)
BY DEF SameSlot, Inbox

LEMMA SlotsStay == UNCHANGED <<executor, toExecutor>> => SameSlots
BY SlotStays DEF SameSlots

LEMMA UnassignedStays ==
  ASSUME \A th \in Threads : /\ pc'[th] \in Unsent <=> pc[th] \in Unsent
                             /\ pc[th] \in Unsent => job'[th] = job[th]
  PROVE  Unassigned' = Unassigned
BY DEF Unassigned

LEMMA ThreadsStay ==
  ASSUME UNCHANGED <<threadVars, outcome>>
  PROVE  Polled' = Polled /\ Unassigned' = Unassigned
BY UnassignedStays DEF threadVars, Polled, Started

LEMMA UnassignedLess ==
  ASSUME ThreadsApart, NEW th \in Threads, NEW j \in Jobs, job[th] = j, UNCHANGED job, pc'[th] \notin Unsent,
         \A ot \in Threads : ot # th => pc'[ot] = pc[ot]
  PROVE  Unassigned' = Unassigned \ {j}
<1>1. \A ot \in Threads : ot # th => job[ot] # j
  BY DispatchAssumption DEF ThreadsApart
<1>2. QED BY <1>1 DEF Unassigned

\* A thread that returns FAILED, whatever for, gives its attempt up.
LEMMA ReturnFails ==
  ASSUME DispatchInv, NEW th \in Threads, pc[th] \in {"send", "check", "poll", "recv"},
         Return(th, "FAILED"), UNCHANGED <<job, executor, toExecutor, executed>>
  PROVE  \E j \in Polled : Delivery!Fail(j)
<1>0. TypeOK /\ ThreadInv(th) /\ ThreadsApart
  BY DEF DispatchInv
<1>1. PICK j \in Jobs : job[th] = j
  BY <1>0, WaitingTyped
<1>2. j \in Polled /\ outcome[j] = "none"
  <2>1. Started(j) /\ pc[th] \notin Returned /\ j # NoJob
    BY <1>1, DispatchAssumption DEF Started, Returned
  <2>2. QED BY <1>0, <1>1, <2>1 DEF ThreadsApart, Polled
<1>3. /\ pc'[th] = "drain release"
      /\ \A ot \in Threads : ot # th => pc'[ot] = pc[ot]
      /\ outcome' = [outcome EXCEPT ![j] = "FAILED"]
  BY <1>0, <1>1 DEF Return, Goto, TypeOK
<1>4. Unassigned' = Unassigned \ {j}
  BY <1>0, <1>1, <1>3, UnassignedLess DEF Unsent
<1>5. Polled' = Polled
  BY <1>0, <1>1, <1>3 DEF Polled, Started, TypeOK
<1>6. QED BY <1>2, <1>3, <1>4, <1>5, Fails, SlotsStay

\* What is sent to a living process is assigned to it; else it is lost, or fails.
LEMMA SendDelivers ==
  ASSUME DispatchInv, NEW th \in Threads, Send(th)
  PROVE  Delivery!Next \/ \E j \in Polled : Delivery!Fail(j)
<1>0. TypeOK /\ ThreadInv(th) /\ ThreadsApart
  BY DEF DispatchInv
<1>1. PICK s \in Slots, g \in Generations, j \in Jobs : s = lease[th].slot /\ g = lease[th].gen /\ j = job[th]
  BY <1>0, WaitingTyped DEF Send
<1>2. pc[th] = "send" /\ UNCHANGED <<job, executor, executed>>
  BY DEF Send, processVars
<1>3. ASSUME toExecutor' = [toExecutor EXCEPT ![s][g] = Append(@, j)], Goto(th, "fence"), UNCHANGED outcome
      PROVE  Delivery!Next
  <2>1. /\ Elements(toExecutor'[s][g]) = Elements(toExecutor[s][g]) \cup {j}
        /\ \A r \in Slots, h \in Generations : r # s \/ h # g => toExecutor'[r][h] = toExecutor[r][h]
    BY ONLY <1>0, <1>3, SendChanges, s \in Slots, g \in Generations, j \in Jobs
  <2>2. pc'[th] = "fence" /\ \A ot \in Threads : ot # th => pc'[ot] = pc[ot]
    BY <1>0, <1>3 DEF Goto, TypeOK
  <2>3. j \in Unassigned /\ Unassigned' = Unassigned \ {j}
    <3>1. j \in Unassigned
      BY <1>1, <1>2 DEF Unassigned, Unsent
    <3>2. QED BY <1>0, <1>1, <1>2, <2>2, <3>1, UnassignedLess DEF Unsent
  <2>4. SameJobs
    BY <1>2, <1>3 DEF SameJobs, Polled, Started
  <2>5. \A r \in Slots : ~(r = s /\ Alive(s, g)) => SameSlot(r)
    <3>1. ASSUME NEW r \in Slots, ~(r = s /\ Alive(s, g)), executor[r].state # "dead"
          PROVE  toExecutor'[r][executor[r].gen] = toExecutor[r][executor[r].gen]
      BY <1>0, <2>1, <3>1, ExecutorTyped DEF Alive
    <3>2. QED BY <1>2, <3>1, SlotStays
  <2>6. CASE Alive(s, g)
    <3>1. Inbox(s)' = Inbox(s) \cup {j} /\ executor'[s].job = executor[s].job
      BY <1>2, <2>1, <2>6 DEF Inbox, Alive
    <3>2. QED BY <2>3, <2>4, <2>5, <3>1, Assigns
  <2>7. CASE ~Alive(s, g)
    BY <2>3, <2>4, <2>5, <2>7, Loses DEF SameSlots
  <2>8. QED BY <2>6, <2>7
<1>4. ASSUME Return(th, "FAILED"), UNCHANGED toExecutor PROVE \E i \in Polled : Delivery!Fail(i)
  BY <1>2, <1>4, ReturnFails
<1>5. QED BY <1>1, <1>3, <1>4 DEF Send

\* The thread's own completion is reported; any other counts as a failure.
LEMMA RecvDelivers ==
  ASSUME DispatchInv, NEW th \in Threads, Recv(th)
  PROVE  Delivery!Next \/ \E j \in Polled : Delivery!Fail(j)
<1>0. TypeOK /\ ThreadInv(th) /\ ThreadsApart /\ TrueCompletions
  BY DEF DispatchInv
<1>1. PICK s \in Slots, g \in Generations, j \in Jobs : s = lease[th].slot /\ g = lease[th].gen /\ j = job[th]
  BY <1>0, WaitingTyped DEF Recv
<1>2. pc[th] = "recv" /\ UNCHANGED <<job, executor, toExecutor, executed>>
  BY DEF Recv, processVars
<1>3. ASSUME Return(th, "FAILED") PROVE \E i \in Polled : Delivery!Fail(i)
  BY <1>2, <1>3, ReturnFails
<1>4. ASSUME toBroker[s][g] # <<>>, NEW c, c = Head(toBroker[s][g]), c.job = j, Return(th, c.status)
      PROVE  Delivery!Next
  <2>1. c \in Completion /\ c \in Elements(toBroker[s][g])
    BY <1>0, <1>4, ExecutorTyped, HeadTailElements
  <2>2. executed[j] = c.status /\ executed[j] # "none"
    BY <1>0, <1>4, <2>1 DEF TrueCompletions, Completion
  <2>3. j \in Polled /\ outcome[j] = "none"
    <3>1. Started(j) /\ pc[th] \notin Returned /\ j # NoJob
      BY <1>1, <1>2, DispatchAssumption DEF Started, Returned
    <3>2. QED BY <1>0, <1>1, <3>1 DEF ThreadsApart, Polled
  <2>4. /\ pc'[th] = "drain release"
        /\ \A ot \in Threads : ot # th => pc'[ot] = pc[ot]
        /\ outcome' = [outcome EXCEPT ![j] = executed[j]]
    BY <1>0, <1>1, <1>4, <2>2 DEF Return, Goto, TypeOK
  <2>5. Unassigned' = Unassigned
    <3>1. \A ot \in Threads : pc'[ot] \in Unsent <=> pc[ot] \in Unsent
      BY <1>2, <2>4 DEF Unsent
    <3>2. QED BY <1>2, <3>1, UnassignedStays
  <2>6. Polled' = Polled
    BY <1>0, <1>1, <1>2, <2>4 DEF Polled, Started, TypeOK
  <2>7. QED BY <1>2, <2>2, <2>3, <2>4, <2>5, <2>6, Reports, SlotsStay
<1>5. CASE toBroker[s][g] # <<>> /\ Return(th, IF Head(toBroker[s][g]).job = j
                                              THEN Head(toBroker[s][g]).status ELSE "FAILED")
  BY <1>3, <1>4, <1>5
<1>6. CASE BrokenPipe(th)
  BY <1>3, <1>6 DEF BrokenPipe
<1>7. QED BY <1>1, <1>5, <1>6 DEF Recv

\* Until it sends, a thread has its attempt unassigned.
LEMMA UnsentSteps ==
  ASSUME TypeOK, NEW th \in Threads, ThreadInv(th), ThreadStep(th), pc[th] \in Unsent, ~Send(th)
  PROVE  pc'[th] \in Unsent
<1> USE DEF TypeOK, Unsent
<1>1. CASE TakeEvent(th) \/ HandleExited(th) \/ HandleStarted(th)
  BY <1>1 DEF TakeEvent, HandleExited, HandleStarted
<1>2. CASE Drained(th)
  BY <1>2 DEF Drained, Goto, Draining
<1>3. CASE GetSlot(th)
  BY <1>3 DEF GetSlot, Goto
<1>4. CASE LeaseSlot(th)
  BY <1>4, LeaseSlotChanges
<1>5. pc[th] \notin {"idle", "fence", "serve", "check", "poll", "recv", "release"}
  OBVIOUS
<1>6. QED
  BY <1>1, <1>2, <1>3, <1>4, <1>5
     DEF ThreadStep, Execute, TakeRequest, ServeRequest, CheckExited, PollPipe, Recv, Release

\* Whatever else a thread does, attempts stay where they are.
LEMMA ThreadDelivers ==
  ASSUME DispatchInv, NEW th \in Threads, ThreadStep(th)
  PROVE  [Delivery!Next]_Delivery!vars \/ \E j \in Polled : Delivery!Fail(j)
<1>0. TypeOK /\ ThreadInv(th) /\ ThreadsApart
  BY DEF DispatchInv
<1>1. UNCHANGED <<executor, executed>> /\ (Send(th) \/ UNCHANGED toExecutor)
  BY ThreadSteps, OnlySendAssigns
<1>2. \A ot \in Threads : ot # th => pc'[ot] = pc[ot] /\ job'[ot] = job[ot]
  BY <1>0, OthersStay
<1>3. CASE Send(th)
  BY <1>3, SendDelivers
<1>4. ASSUME ~Send(th), UNCHANGED <<job, outcome>>, pc'[th] \in Unsent => pc[th] \in Unsent
      PROVE  UNCHANGED Delivery!vars
  <2>1. Unassigned' = Unassigned
    <3>1. pc'[th] \in Unsent <=> pc[th] \in Unsent
      BY <1>0, <1>4, UnsentSteps
    <3>2. QED BY <1>2, <1>4, <3>1, UnassignedStays
  <2>2. SameJobs
    BY <1>1, <1>4 DEF SameJobs, Polled, Started
  <2>3. QED BY <1>1, <1>4, <2>1, <2>2, SlotsStay, Stutters
<1>5. CASE Execute(th)
  <2>1. PICK j \in Jobs : ~Started(j) /\ job' = [job EXCEPT ![th] = j]
    BY <1>5 DEF Execute
  <2>2. pc[th] = "idle" /\ pc'[th] = "drain lease" /\ job[th] = NoJob /\ job'[th] = j /\ UNCHANGED outcome
    BY <1>0, <1>5, <2>1 DEF Execute, Goto, TypeOK, ThreadInv, resultVars
  <2>3. j \in Jobs \ Polled /\ Polled' = Polled \cup {j}
    <3>1. \A i \in Jobs : Started(i)' <=> Started(i) \/ i = j
      BY <1>2, <2>2, DispatchAssumption DEF Started
    <3>2. QED BY <2>1, <3>1 DEF Polled
  <2>4. Unassigned' = Unassigned \cup {j}
    BY <1>2, <2>2 DEF Unassigned, Unsent
  <2>5. UNCHANGED toExecutor
    BY <1>5 DEF Execute, pipeVars
  <2>6. QED BY <1>1, <2>2, <2>3, <2>4, <2>5, SlotsStay, Polls
<1>6. CASE Release(th)
  <2>1. pc[th] = "release" /\ pc'[th] = "idle" /\ job'[th] = NoJob /\ UNCHANGED <<outcome, toExecutor>>
    BY <1>0, <1>6 DEF Release, Goto, TypeOK, resultVars, pipeVars
  <2>2. Unassigned' = Unassigned
    <3>1. \A ot \in Threads : /\ pc'[ot] \in Unsent <=> pc[ot] \in Unsent
                              /\ pc[ot] \in Unsent => job'[ot] = job[ot]
      BY <1>2, <2>1 DEF Unsent
    <3>2. QED BY <3>1, UnassignedStays
  <2>3. SameJobs
    <3>1. job[th] # NoJob => outcome[job[th]] # "none"
      BY <1>0, <2>1 DEF ThreadsApart, Returned
    <3>2. \A i \in Jobs : Started(i)' <=> Started(i)
      BY <1>2, <2>1, <3>1, DispatchAssumption DEF Started
    <3>3. QED BY <1>1, <2>1, <3>2 DEF SameJobs, Polled
  <2>4. QED BY <1>1, <2>1, <2>2, <2>3, SlotsStay, Stutters
<1>7. CASE Recv(th)
  BY <1>7, RecvDelivers
<1>8. CASE CheckExited(th) /\ Return(th, "FAILED")
  <2>1. pc[th] = "check" /\ UNCHANGED <<job, toExecutor>>
    BY <1>8 DEF CheckExited, pipeVars
  <2>2. QED BY <1>1, <1>8, <2>1, ReturnFails
<1>9. CASE PollPipe(th) /\ Return(th, "FAILED")
  <2>1. pc[th] = "poll" /\ UNCHANGED <<job, toExecutor>>
    BY <1>9 DEF PollPipe, pipeVars
  <2>2. QED BY <1>1, <1>9, <2>1, ReturnFails
<1>10. ASSUME pc[th] \notin Returned \cup {"idle"}, NEW status \in {"COMPLETED", "FAILED"}, Return(th, status)
       PROVE  \/ Send(th) \/ Recv(th)
              \/ (CheckExited(th) \/ PollPipe(th)) /\ Return(th, "FAILED")
  <2>1. PICK j \in Jobs : j = job[th]
    BY <1>0, <1>10, WaitingTyped
  <2>2. outcome[j] = "none" /\ outcome'[j] = status
    BY <1>0, <1>10, <2>1, DispatchAssumption DEF ThreadsApart, Return, TypeOK
  <2>3. FindsBroken(th) \/ CheckExited(th) \/ Recv(th)
    BY <2>2, FailingSteps
  <2>4. CASE CheckExited(th)
    <3>1. UNCHANGED outcome \/ Return(th, "FAILED")
      BY <2>4, Zenon DEF CheckExited
    <3>2. QED BY <2>2, <2>4, <3>1
  <2>5. CASE FindsBroken(th)
    <3>1. Send(th) \/ Recv(th) \/ PollPipe(th)
      BY <2>5 DEF FindsBroken, ThreadStep, TakeEvent, HandleExited, HandleStarted, Drained, Execute,
                  GetSlot, LeaseSlot, TakeRequest, ServeRequest, CheckExited, Release, Draining
    <3>2. QED BY <2>5, <3>1 DEF FindsBroken
  <2>6. QED BY <2>3, <2>4, <2>5
<1>11. QED
  BY <1>0, <1>3, <1>4, <1>5, <1>6, <1>7, <1>8, <1>9, <1>10, JobSteps

\* The run of an executor's job ends.
LEMMA CompletionDelivers ==
  ASSUME DispatchInv, NEW s \in Slots, executor[s].state \in {"running", "fence"},
         NEW status \in {"COMPLETED", "FAILED"}, Complete(s, status),
         UNCHANGED <<threadVars, outcome, toExecutor>>
  PROVE  Delivery!Next
<1>0. TypeOK /\ ExecutorInv(s)
  BY DEF DispatchInv
<1>1. PICK j \in Jobs : executor[s].job = j /\ j # NoJob
  BY <1>0, ExecutorTyped DEF ExecutorInv
<1>2. /\ executor'[s].gen = executor[s].gen /\ executor'[s].state = "idle" /\ executor'[s].job = NoJob
      /\ \A r \in Slots : r # s => executor'[r] = executor[r]
  BY <1>0, <1>1, CompleteChanges
<1>3. executed' = [executed EXCEPT ![j] = status]
  BY <1>1 DEF Complete
<1>4. Inbox(s)' = Inbox(s)
  BY <1>2 DEF Inbox
<1>5. \A r \in Slots : r # s => SameSlot(r)
  BY <1>2, SlotStays
<1>6. QED BY <1>1, <1>2, <1>3, <1>4, <1>5, RunEnds, ThreadsStay

\* A process begins what it was assigned, ends it, or dies with it.
LEMMA ProcessDelivers ==
  ASSUME DispatchInv, FuturePipes, NEW s \in Slots, ExecutorStep(s) \/ SupervisorStep(s) \/ Die(s)
  PROVE  [Delivery!Next]_Delivery!vars
<1>0. TypeOK /\ ExecutorInv(s) /\ OneRun
  BY DEF DispatchInv
<1>1. UNCHANGED <<threadVars, outcome>> /\ Polled' = Polled /\ Unassigned' = Unassigned
  BY ProcessSteps, ThreadsStay
<1>2. 0 \in 0..MaxFences /\ executor[s].fences \in 0..MaxFences /\ executor[s].job \in Jobs \cup {NoJob}
  BY <1>0, ExecutorTyped, DispatchAssumption
<1>3. ASSUME UNCHANGED <<toExecutor, executed>>, NEW state \in {"running", "fence"},
             NEW n \in 0..MaxFences, SetExecutor(s, state, executor[s].job, n), executor[s].state # "dead"
      PROVE  UNCHANGED Delivery!vars
  <2>1. \A r \in Slots : /\ executor'[r].gen = executor[r].gen /\ executor'[r].job = executor[r].job
                         /\ executor'[r].state = "dead" <=> executor[r].state = "dead"
    BY <1>0, <1>2, <1>3, SetExecutorChanges
  <2>2. QED BY <1>1, <1>3, <2>1, SlotStays, Stutters DEF SameJobs, SameSlots
<1>4. CASE ReceiveAssignment(s)
  <2>1. PICK g \in Generations : g = executor[s].gen
    BY <1>0, ExecutorTyped
  <2>2. executor[s].state = "idle" /\ executor[s].job = NoJob /\ UNCHANGED executed
    BY <1>0, <1>4 DEF ReceiveAssignment, ExecutorInv, resultVars
  <2>3. PICK j \in Jobs : j = Head(toExecutor[s][g])
    BY <1>0, <1>4, <2>1, ReceiveChanges
  <2>4. /\ toExecutor'[s][g] = Tail(toExecutor[s][g])
        /\ executor'[s].gen = g /\ executor'[s].state = "running" /\ executor'[s].job = j
        /\ \A r \in Slots : /\ r # s => executor'[r] = executor[r]
                            /\ \A h \in Generations : r # s => toExecutor'[r][h] = toExecutor[r][h]
    BY <1>0, <1>4, <2>1, <2>3, ReceiveChanges
  <2>5. toExecutor[s][g] \in Seq(Jobs) /\ toExecutor[s][g] # <<>> /\ Distinct(toExecutor[s][g])
    BY <1>0, <1>4, <2>1, ExecutorTyped DEF ReceiveAssignment, OneRun
  <2>6. /\ j \in Elements(toExecutor[s][g])
        /\ Elements(toExecutor'[s][g]) = Elements(toExecutor[s][g]) \ {j}
    BY <2>3, <2>4, <2>5, HeadTailElements
  <2>7. j \in Inbox(s) /\ Inbox(s)' = Inbox(s) \ {j}
    BY <2>1, <2>2, <2>4, <2>6 DEF Inbox
  <2>8. \A r \in Slots : r # s => SameSlot(r)
    BY <1>0, <2>4, SlotStays, ExecutorTyped
  <2>9. QED BY <1>1, <2>2, <2>4, <2>7, <2>8, Begins DEF SameJobs
<1>5. CASE RequestSnapshot(s)
  <2>1. executor[s].fences + 1 \in 0..MaxFences
    BY <1>2, <1>5, DispatchAssumption DEF RequestSnapshot
  <2>2. executor[s].state = "running" /\ SetExecutor(s, "fence", executor[s].job, executor[s].fences + 1)
        /\ UNCHANGED <<toExecutor, executed>>
    BY <1>5 DEF RequestSnapshot, pipeVars, resultVars
  <2>3. QED BY <1>3, <2>1, <2>2
<1>6. CASE GetSnapshot(s)
  <2>1. executor[s].state = "fence" /\ UNCHANGED toExecutor
    BY <1>6 DEF GetSnapshot
  <2>2. CASE SetExecutor(s, "running", executor[s].job, executor[s].fences) /\ UNCHANGED executed
    BY <1>2, <1>3, <2>1, <2>2
  <2>3. CASE Complete(s, "FAILED")
    BY <1>1, <2>1, <2>3, CompletionDelivers
  <2>4. QED BY <1>6, <2>2, <2>3 DEF GetSnapshot
<1>7. CASE FinishTask(s)
  BY <1>1, <1>7, CompletionDelivers DEF FinishTask
<1>8. CASE Die(s)
  <2>1. /\ executor'[s].state = "dead" /\ executor'[s].job = NoJob
        /\ \A r \in Slots : r # s => executor'[r] = executor[r]
    BY <1>0, <1>2, <1>8, SetExecutorChanges DEF Die
  <2>2. UNCHANGED <<toExecutor, executed>>
    BY <1>8 DEF Die, pipeVars, resultVars
  <2>3. Inbox(s)' = {} /\ \A r \in Slots : r # s => SameSlot(r)
    BY <2>1, <2>2, SlotStays DEF Inbox
  <2>4. QED BY <1>1, <2>1, <2>2, <2>3, Leaves DEF SameJobs
<1>9. CASE ReportExit(s)
  BY <1>1, <1>9, SlotsStay, Stutters DEF ReportExit, pipeVars, resultVars, SameJobs
<1>10. CASE StartReplacement(s)
  <2>1. executor[s].state = "dead" /\ executor[s].job = NoJob /\ UNCHANGED <<toExecutor, executed>>
    BY <1>0, <1>10 DEF StartReplacement, ExecutorInv, pipeVars, resultVars
  <2>2. PICK g \in Generations : g = executor[s].gen + 1
    BY <1>0, <1>10, ReplacementChanges
  <2>3. /\ executor'[s].gen = g /\ executor'[s].state = "idle" /\ executor'[s].job = NoJob
        /\ \A r \in Slots : r # s => executor'[r] = executor[r]
    BY <1>0, <1>10, <2>2, ReplacementChanges
  <2>4. Elements(toExecutor[s][g]) = {}
    <3>1. executor[s].gen \in Nat
      BY <1>0, ExecutorTyped DEF Generations
    <3>2. QED BY <2>2, <3>1 DEF FuturePipes
  <2>5. SameSlot(s)
    BY <2>1, <2>3, <2>4 DEF SameSlot, Inbox
  <2>6. \A r \in Slots : r # s => SameSlot(r)
    BY <2>1, <2>3, SlotStays
  <2>7. QED BY <1>1, <2>1, <2>5, <2>6, Stutters DEF SameJobs, SameSlots
<1>11. QED
  BY <1>4, <1>5, <1>6, <1>7, <1>8, <1>9, <1>10, Zenon DEF ExecutorStep, SupervisorStep

LEMMA DeliveryStep ==
  ASSUME DispatchInv, FuturePipes, [Next]_vars
  PROVE  [Delivery!Next]_Delivery!vars \/ \E j \in Polled : Delivery!Fail(j)
<1>1. ASSUME Ended \/ UNCHANGED vars PROVE UNCHANGED Delivery!vars
  <2>1. UNCHANGED <<executor, toExecutor, executed, threadVars, outcome>>
    BY <1>1 DEF Ended, vars, threadVars
  <2>2. QED BY <2>1, SlotsStay, ThreadsStay, Stutters DEF SameJobs
<1>2. QED BY <1>1, ThreadDelivers, ProcessDelivers DEF Next

\* What is given up while FailedMeansStopped holds is at no executor.
LEMMA GivenUpIsGone ==
  ASSUME DispatchInv', FailedMeansStopped', NEW j \in Jobs, Delivery!Fail(j)
  PROVE  Delivery!GiveUp(j)
<1>0. OneRun' /\ (\A s \in Slots : ExecutorInv(s)') /\ TypeOK'
  BY DEF DispatchInv
<1>1. /\ outcome'[j] = "FAILED" /\ UNCHANGED executed
      /\ \A s \in Slots : Inbox(s)' = Inbox(s) /\ executor'[s].job = executor[s].job
  BY <1>0 DEF Delivery!Fail, TypeOK
<1>2. ASSUME NEW s \in Slots, j \in Inbox(s) \/ executor[s].job = j PROVE FALSE
  <2>1. PICK g \in Generations : g = executor'[s].gen
    <3>1. executor'[s] \in Executor
      BY <1>0 DEF TypeOK, Executor
    <3>2. QED BY <3>1 DEF Executor
  <2>2. executor'[s].state # "dead" /\ At(s, g, j)'
    BY <1>0, <1>1, <1>2, <2>1, DispatchAssumption DEF Inbox, At, ExecutorInv
  <2>3. executed'[j] = "none"
    BY <1>0, <2>1, <2>2 DEF OneRun, At
  <2>4. (FailedMeansStopped <=> \A i \in Jobs, r \in Slots : Stopped(i, r))'
    BY DEF FailedMeansStopped, Stopped, At, Elements
  <2>5. QED BY <1>1, <2>1, <2>2, <2>3, <2>4 DEF Stopped, At
<1>3. QED BY <1>2 DEF Delivery!GiveUp, Delivery!AtExecutor, Delivery!At

LEMMA NothingDelivered == Init => Delivery!Init /\ FuturePipes
<1> SUFFICES ASSUME Init PROVE Delivery!Init /\ FuturePipes
  OBVIOUS
<1>1. Polled = {} /\ Unassigned = {}
  BY DispatchAssumption DEF Init, Polled, Started, Unassigned, Unsent
<1>2. \A s \in Slots, g \in Generations : Elements(toExecutor[s][g]) = {}
  BY EmptyElements DEF Init
<1>3. \A s \in Slots : Inbox(s) = {} /\ executor[s].job = NoJob
  <2>1. 1 \in Generations
    BY DispatchAssumption DEF Generations
  <2>2. QED BY <1>2, <2>1 DEF Init, Inbox
<1>4. QED BY <1>1, <1>2, <1>3 DEF Init, FuturePipes, Delivery!Init

\* From the poll to Conductor's answer an attempt goes the way AttemptDelivery describes,
\* whatever threads share: to one process at most, run once at most, and reported once, as
\* its run ended or as FAILED (execute, the executor loop and the restart loop).
THEOREM DeliversAttempts == Spec => DeliverySpec
<1>1. Init => Delivery!Init /\ FuturePipes
  BY NothingDelivered
<1>2. DispatchInv /\ DispatchInv' /\ BrokerLags /\ FuturePipes /\ [Next]_vars => FuturePipes'
  BY FuturePipesKept
<1>3. DispatchInv /\ FuturePipes /\ [Next]_vars => [Delivery!LooseNext]_Delivery!vars
  BY DeliveryStep DEF Delivery!LooseNext
<1>4. QED
  BY <1>1, <1>2, <1>3, DispatchInvHolds, BrokerNeverAhead, PTL DEF Spec, DeliverySpec, Delivery!LooseSpec

\* When no two threads lease the same process, the answer FAILED without the executor's
\* word comes only of an attempt that is at no live executor: the abstract step that
\* Conductor's retry counts on.
THEOREM DeliversExclusively == Spec /\ []ExclusiveLease => ExclusiveDeliverySpec
<1>1. Init => Delivery!Init /\ FuturePipes
  BY NothingDelivered
<1>2. DispatchInv /\ DispatchInv' /\ BrokerLags /\ FuturePipes /\ [Next]_vars => FuturePipes'
  BY FuturePipesKept
<1>3. DispatchInv /\ DispatchInv' /\ FuturePipes /\ FailedMeansStopped' /\ [Next]_vars
        => [Delivery!Next]_Delivery!vars
  <2> SUFFICES ASSUME DispatchInv, DispatchInv', FuturePipes, FailedMeansStopped', [Next]_vars,
                      NEW j \in Polled, Delivery!Fail(j)
               PROVE  Delivery!Next
    BY DeliveryStep
  <2>1. Delivery!GiveUp(j)
    BY GivenUpIsGone DEF Polled
  <2>2. QED BY <2>1 DEF Delivery!Next
<1>4. QED
  BY <1>1, <1>2, <1>3, DispatchInvHolds, BrokerNeverAhead, FailedAttemptsStop, PTL
     DEF Spec, ExclusiveDeliverySpec, Delivery!Spec

\* With one thread nobody shares a process: FAILED is then always the end.
COROLLARY OneThreadDelivers ==
  ASSUME \A th, ot \in Threads : th = ot
  PROVE  Spec => ExclusiveDeliverySpec
<1>1. ExclusiveLease
  BY DEF ExclusiveLease
<1>2. QED BY <1>1, DeliversExclusively, PTL

-----------------------------------------------------------------------------
\* What the abstract specification promises

\* An attempt that moves to one place, from none or from the inbox there.
LEMMA OnePlaceKept ==
  ASSUME TypeOK, Delivery!OnePlace, [Delivery!LooseNext]_Delivery!vars
  PROVE  Delivery!OnePlace' /\ Delivery!StaysOver
<1> USE DEF Delivery!OnePlace, Delivery!At, Delivery!AtExecutor, Delivery!StaysOver, Delivery!Over
<1>0. NoJob \notin Jobs
  BY DispatchAssumption
<1>1. ASSUME NEW a \in Jobs \ Polled, Delivery!Poll(a) PROVE Delivery!OnePlace' /\ Delivery!StaysOver
  BY <1>1 DEF Delivery!Poll
<1>2. ASSUME NEW a \in Unassigned, Delivery!Lose(a) PROVE Delivery!OnePlace' /\ Delivery!StaysOver
  BY <1>2 DEF Delivery!Lose
<1>3. ASSUME NEW a \in Unassigned, NEW p \in Slots, Delivery!Assign(a, p) PROVE Delivery!OnePlace' /\ Delivery!StaysOver
  <2>1. /\ \A s \in Slots : /\ executor'[s].job = executor[s].job
                            /\ s # p => Inbox(s)' = Inbox(s)
        /\ Inbox(p)' = Inbox(p) \cup {a} /\ Unassigned' = Unassigned \ {a} /\ Polled' = Polled
        /\ \A j \in Jobs : executed'[j] = executed[j]
    BY <1>3 DEF Delivery!Assign
  <2>2. QED BY <2>1
<1>4. ASSUME NEW p \in Slots, NEW a \in Inbox(p), Delivery!Begin(a, p) PROVE Delivery!OnePlace' /\ Delivery!StaysOver
  <2>1. /\ \A s \in Slots : s # p => executor'[s].job = executor[s].job /\ Inbox(s)' = Inbox(s)
        /\ Inbox(p)' = Inbox(p) \ {a} /\ executor'[p].job = a /\ Unassigned' = Unassigned /\ Polled' = Polled
        /\ \A j \in Jobs : executed'[j] = executed[j]
    BY <1>4 DEF Delivery!Begin
  <2>2. QED BY <2>1
<1>5. ASSUME NEW p \in Slots, NEW status, Delivery!Finish(p, status) PROVE Delivery!OnePlace' /\ Delivery!StaysOver
  <2>1. /\ \A s \in Slots : /\ Inbox(s)' = Inbox(s)
                            /\ s # p => executor'[s].job = executor[s].job
        /\ executor'[p].job = NoJob /\ Unassigned' = Unassigned /\ Polled' = Polled
        /\ \A j \in Jobs : j # executor[p].job => executed'[j] = executed[j]
    <3>1. DOMAIN executed = Jobs
      BY DEF TypeOK
    <3>2. QED BY <1>5, <3>1 DEF Delivery!Finish
  <2>2. QED BY <1>0, <2>1
<1>6. ASSUME NEW p \in Slots, Delivery!Leave(p) PROVE Delivery!OnePlace' /\ Delivery!StaysOver
  <2>1. /\ \A s \in Slots : s # p => executor'[s].job = executor[s].job /\ Inbox(s)' = Inbox(s)
        /\ Inbox(p)' = {} /\ executor'[p].job = NoJob /\ Unassigned' = Unassigned /\ Polled' = Polled
        /\ \A j \in Jobs : executed'[j] = executed[j]
    BY <1>6 DEF Delivery!Leave
  <2>2. QED BY <1>0, <2>1
<1>7. ASSUME NEW a \in Polled, Delivery!Report(a) PROVE Delivery!OnePlace' /\ Delivery!StaysOver
  BY <1>7 DEF Delivery!Report
<1>8. ASSUME NEW a \in Polled, Delivery!Fail(a) PROVE Delivery!OnePlace' /\ Delivery!StaysOver
  BY <1>8 DEF Delivery!Fail
<1>9. ASSUME UNCHANGED Delivery!vars PROVE Delivery!OnePlace' /\ Delivery!StaysOver
  BY <1>9 DEF Delivery!vars
<1>10. QED
  BY <1>1, <1>2, <1>3, <1>4, <1>5, <1>6, <1>7, <1>8, <1>9 DEF Delivery!LooseNext, Delivery!Next, Delivery!GiveUp

LEMMA AnsweredKept ==
  ASSUME TypeOK, Delivery!OnePlace, Delivery!AnsweredIsOver, [Delivery!Next]_Delivery!vars
  PROVE  Delivery!AnsweredIsOver'
<1>1. [Delivery!LooseNext]_Delivery!vars
  BY DEF Delivery!LooseNext
<1>2. Delivery!StaysOver
  BY <1>1, OnePlaceKept
<1>3. SUFFICES ASSUME NEW j \in Jobs, outcome'[j] # "none", outcome[j] = "none" PROVE Delivery!Over(j)'
  BY <1>2 DEF Delivery!AnsweredIsOver, Delivery!StaysOver
<1>4. Delivery!Report(j) \/ (j \in Polled /\ Delivery!GiveUp(j))
  <2>1. ASSUME NEW a \in Polled, Delivery!Report(a) \/ Delivery!GiveUp(a) PROVE j = a
    <3>1. DOMAIN outcome = Jobs /\ j \in Jobs
      BY DEF TypeOK
    <3>2. QED BY <1>3, <2>1, <3>1 DEF Delivery!Report, Delivery!GiveUp, Delivery!Fail
  <2>2. outcome'[j] # outcome[j]
    BY <1>3
  <2>3. ASSUME NEW p \in Slots, \/ \E a \in Inbox(p) : Delivery!Begin(a, p)
                               \/ \E status \in {"COMPLETED", "FAILED"} : Delivery!Finish(p, status)
                               \/ Delivery!Leave(p)
        PROVE  FALSE
    BY <2>2, <2>3 DEF Delivery!Begin, Delivery!Finish, Delivery!Leave
  <2>4. ASSUME NEW a, Delivery!Poll(a) \/ Delivery!Lose(a) \/ \E p \in Slots : Delivery!Assign(a, p) PROVE FALSE
    BY <2>2, <2>4 DEF Delivery!Poll, Delivery!Lose, Delivery!Assign
  <2>5. ASSUME UNCHANGED Delivery!vars PROVE FALSE
    BY <2>2, <2>5 DEF Delivery!vars
  <2>6. QED BY <2>1, <2>3, <2>4, <2>5 DEF Delivery!Next
<1> USE DEF Delivery!OnePlace, Delivery!At, Delivery!AtExecutor, Delivery!Over
<1>5. ASSUME Delivery!Report(j) PROVE Delivery!Over(j)'
  <2>1. /\ \A s \in Slots : Inbox(s)' = Inbox(s) /\ executor'[s].job = executor[s].job
        /\ Unassigned' = Unassigned /\ Polled' = Polled /\ executed[j] # "none"
    BY <1>5 DEF Delivery!Report
  <2>2. QED BY <2>1
<1>6. ASSUME Delivery!GiveUp(j), j \in Polled PROVE Delivery!Over(j)'
  <2>1. /\ \A s \in Slots : Inbox(s)' = Inbox(s) /\ executor'[s].job = executor[s].job
        /\ Unassigned' = Unassigned \ {j} /\ Polled' = Polled
    BY <1>6 DEF Delivery!GiveUp, Delivery!Fail
  <2>2. ~Delivery!AtExecutor(j)
    BY <1>6 DEF Delivery!GiveUp
  <2>3. QED BY <1>6, <2>1, <2>2
<1>7. QED BY <1>4, <1>5, <1>6

\* An attempt is with one executor at a time, leaves it for good, and its result is then
\* what it is: whatever dies, is replaced, or is leased to two threads, nothing in process
\* mode runs it again (_send_message, _executor_child_main and the restart loop).
THEOREM RunOnceAtMost == Spec => []AttemptInOnePlace /\ Delivery!NeverAgain
<1>1. Delivery!Init => Delivery!OnePlace
  BY DispatchAssumption DEF Delivery!Init, Delivery!OnePlace, Delivery!At, Delivery!AtExecutor
<1>2. TypeOK /\ Delivery!OnePlace /\ [Delivery!LooseNext]_Delivery!vars
        => Delivery!OnePlace' /\ [Delivery!StaysOver]_Delivery!vars
  BY OnePlaceKept
<1>3. QED
  BY <1>1, <1>2, DeliversAttempts, TypeCorrect, PTL
     DEF DeliverySpec, Delivery!LooseSpec, Delivery!NeverAgain, AttemptInOnePlace

\* When no two threads lease the same process, what Conductor has heard of an attempt,
\* COMPLETED or FAILED, is final: no live executor has the attempt, or will.
THEOREM AnswersAreFinal == Spec /\ []ExclusiveLease => []Delivery!AnsweredIsOver
<1>1. Delivery!Init => Delivery!OnePlace /\ Delivery!AnsweredIsOver
  BY DispatchAssumption DEF Delivery!Init, Delivery!OnePlace, Delivery!At, Delivery!AtExecutor,
                            Delivery!AnsweredIsOver
<1>2. TypeOK /\ Delivery!OnePlace /\ [Delivery!Next]_Delivery!vars => Delivery!OnePlace'
  BY OnePlaceKept DEF Delivery!LooseNext
<1>3. TypeOK /\ Delivery!OnePlace /\ Delivery!AnsweredIsOver /\ [Delivery!Next]_Delivery!vars
        => Delivery!AnsweredIsOver'
  BY AnsweredKept
<1>4. QED
  BY <1>1, <1>2, <1>3, DeliversExclusively, TypeCorrect, PTL DEF ExclusiveDeliverySpec, Delivery!Spec
=============================================================================
