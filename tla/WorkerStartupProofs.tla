------------------------- MODULE WorkerStartupProofs -------------------------
(***************************************************************************)
(* Proofs about WorkerStartup, for any modules, environments and slots.    *)
(***************************************************************************)
EXTENDS WorkerStartup, TLAPS

USE DEF BrokerSlot

-----------------------------------------------------------------------------
\* The inductive invariant

\* start has accepted what is running.
RuntimeAccepted ==
  Running => ValidDeclaration(runtime.task) /\ Serves(runtime.config, runtime.task)

\* Whoever has been told to be warned has been: what is extracted or registered has
\* gone through build_taskdef.
Announced(d) == ResponseTimeoutTooShort(d) \/ BudgetIgnored(d) => d \in warned
TaskDefsAnnounced ==
  /\ extracted # None => Announced(extracted)
  /\ \A n \in Names : registered[n] # None => Announced(registered[n])

\* A child that is up has loaded a valid declaration and has the id of its slot; one
\* that failed has loaded something else than start has, in a process of its own.
ChildAccounted(c) ==
  /\ Up(c) => /\ child[c].task \in Declarations
              /\ ValidDeclaration(child[c].task)
              /\ child[c].worker = <<runtime.config.prefix, c>>
  /\ child[c].state = "failed" => method = "spawn" /\ child[c].task # runtime.task

StartupInv ==
  /\ TypeOK
  /\ RuntimeAccepted
  /\ TaskDefsAnnounced
  /\ \A c \in Children : ChildAccounted(c)
  /\ ~Running => child = [c \in Children |-> NoChild]

-----------------------------------------------------------------------------
\* What is loaded

\* A loaded task is a declaration of its module and a valid one.
LEMMA LoadedIsDeclared ==
  ASSUME NEW m \in Modules, LoadModuleTask(m) # None
  PROVE  LoadModuleTask(m) \in Declarations /\ ValidDeclaration(LoadModuleTask(m))
<1>1. LoadsTask(m) /\ LoadModuleTask(m) = m.tasks[1]
  BY DEF LoadModuleTask
<1>2. m.tasks # <<>> /\ 1 \in DOMAIN m.tasks
  BY <1>1 DEF LoadsTask
<1>3. QED BY <1>1, <1>2 DEF LoadsTask, Declarations

\* What a command finds is a worker id and a configuration, or none.
LEMMA ReadingTyped ==
  ASSUME NEW r \in Readings, r.config # NoConfig
  PROVE  r.own \in WorkerIds /\ r.config \in Configs
<1>1. PICK p \in Processes, e \in Dotenvs :
        r = [own |-> OwnId(p), config |-> LoadRuntimeConfig(p, e)]
  BY DEF Readings
<1>2. r.own \in WorkerIds
  BY <1>1, StartupAssumption DEF OwnId, NoId, WorkerIds
<1>3. r.config \in Configs
  BY <1>1 DEF LoadRuntimeConfig, Configs, Configured
<1>4. QED BY <1>2, <1>3

-----------------------------------------------------------------------------
\* The steps

\* Before the first command there is nothing to account for.
LEMMA InitEstablishes == Init => StartupInv
<1> SUFFICES ASSUME Init PROVE StartupInv
  OBVIOUS
<1>1. TypeOK
  BY StartupAssumption DEF Init, TypeOK, NoChild, NoId, WorkerIds
<1>2. ~Running /\ child = [c \in Children |-> NoChild]
  BY DEF Init, Running
<1>3. \A c \in Children : ChildAccounted(c)
  BY <1>2 DEF ChildAccounted, Up, NoChild
<1>4. TaskDefsAnnounced
  BY DEF Init, TaskDefsAnnounced
<1>5. QED BY <1>1, <1>2, <1>3, <1>4 DEF StartupInv, RuntimeAccepted

\* Another text changes nothing for those that have loaded theirs.
LEMMA EditKeeps ==
  ASSUME StartupInv, NEW m \in Modules, EditModule(m)
  PROVE  StartupInv'
<1>1. TypeOK'
  BY StartupAssumption DEF StartupInv, TypeOK, EditModule
<1>2. UNCHANGED <<method, extracted, registered, warned, runtime, child>>
  BY DEF EditModule
<1>3. QED
  BY <1>1, <1>2 DEF StartupInv, RuntimeAccepted, TaskDefsAnnounced, Announced, ChildAccounted, Up,
                    Running

\* What is registered has been extracted.
LEMMA RegisterKeeps ==
  ASSUME StartupInv, Register
  PROVE  StartupInv'
<1>1. extracted \in Declarations /\ extracted.name \in Names
  BY DEF StartupInv, TypeOK, Register, Names
<1>2. TypeOK'
  BY <1>1 DEF StartupInv, TypeOK, Register, outside
<1>3. TaskDefsAnnounced'
  BY <1>1 DEF StartupInv, TypeOK, TaskDefsAnnounced, Announced, Register
<1>4. UNCHANGED <<method, runtime, child>>
  BY DEF Register, outside
<1>5. QED
  BY <1>2, <1>3, <1>4 DEF StartupInv, RuntimeAccepted, ChildAccounted, Up, Running

\* A command that gets as far as the TaskDef of d warns about d.
LEMMA WarnAnnounces ==
  ASSUME TypeOK, TaskDefsAnnounced, NEW d \in Declarations, Warn(d),
         registered' = registered, extracted' \in {extracted, d}
  PROVE  warned' \subseteq Declarations /\ TaskDefsAnnounced'
<1>1. warned \subseteq warned' /\ warned' \subseteq Declarations
  BY DEF Warn, TypeOK
<1>2. Announced(d)'
  BY DEF Announced, Warn
<1>3. QED BY <1>1, <1>2 DEF TaskDefsAnnounced, Announced

\* check and extract warn about the task whose TaskDef they build.
LEMMA CheckKeeps ==
  ASSUME StartupInv, NEW r \in Readings, Check(r.config) \/ Extract(r.config)
  PROVE  StartupInv'
<1>1. Task \in Declarations
  BY LoadedIsDeclared DEF StartupInv, TypeOK, Check, Extract, Checked, Task
<1>2. /\ UNCHANGED <<method, module, edits, registered, runtime, child>>
      /\ extracted' \in {extracted, Task}
      /\ Warn(Task)
  BY DEF Check, Extract, outside
<1>3. warned' \subseteq Declarations /\ TaskDefsAnnounced'
  BY <1>1, <1>2, WarnAnnounces DEF StartupInv
<1>4. TypeOK'
  BY <1>1, <1>2, <1>3 DEF StartupInv, TypeOK
<1>5. QED
  BY <1>2, <1>3, <1>4 DEF StartupInv, RuntimeAccepted, ChildAccounted, Up, Running

\* start leaves a runtime that serves its task, and no children yet.
LEMMA StartKeeps ==
  ASSUME StartupInv, NEW r \in Readings, NEW option \in {None, "process", "thread"},
         Start(r.own, r.config, option)
  PROVE  StartupInv'
<1> DEFINE mode == IF option # None THEN option ELSE r.config.mode
<1>1. Task \in Declarations /\ ValidDeclaration(Task)
  BY LoadedIsDeclared DEF StartupInv, TypeOK, Start, Checked, Task
<1>2. r.own \in WorkerIds /\ r.config \in Configs
  BY ReadingTyped DEF Start, Checked
<1>3. mode \in {"process", "thread"}
  BY <1>2 DEF Configs
<1>4. /\ runtime' = [task |-> Task, own |-> r.own, config |-> [r.config EXCEPT !.mode = mode]]
      /\ child' = [c \in Children |-> NoChild]
      /\ UNCHANGED <<method, module, edits, extracted, registered>>
      /\ Warn(Task)
  BY DEF Start, Run, outside
<1>5. warned' \subseteq Declarations /\ TaskDefsAnnounced'
  BY <1>1, <1>4, WarnAnnounces DEF StartupInv
<1>6. [r.config EXCEPT !.mode = mode] \in Configs
  BY <1>2, <1>3 DEF Configs
<1>7. TypeOK'
  <2>1. runtime' \in [task : Declarations, config : Configs, own : WorkerIds]
    BY <1>1, <1>2, <1>4, <1>6
  <2>2. NoChild \in [state : {"absent", "up", "failed"}, task : Declarations \cup {None},
                     worker : WorkerIds]
    BY StartupAssumption DEF NoChild, NoId, WorkerIds
  <2>3. child' \in [Children -> [state : {"absent", "up", "failed"},
                                task : Declarations \cup {None}, worker : WorkerIds]]
    BY <1>4, <2>2
  <2>4. QED BY <1>4, <1>5, <2>1, <2>3 DEF StartupInv, TypeOK
<1>8. RuntimeAccepted'
  <2>1. Serves(r.config, Task)
    BY DEF Start
  <2>2. Serves([r.config EXCEPT !.mode = mode], Task)
    BY <1>2, <2>1 DEF Serves, Configs
  <2>3. runtime'.task = Task /\ runtime'.config = [r.config EXCEPT !.mode = mode]
    BY <1>4
  <2>4. QED BY <1>1, <2>2, <2>3 DEF RuntimeAccepted
<1>9. \A c \in Children : ChildAccounted(c)'
  BY <1>4 DEF ChildAccounted, Up, NoChild
<1>10. QED BY <1>4, <1>5, <1>7, <1>8, <1>9 DEF StartupInv

\* A child's task is a valid declaration whenever it is one; a forked child's and the
\* thread runner's is the runtime's.
LEMMA ChildTaskLoaded ==
  ASSUME StartupInv, Running
  PROVE  /\ ChildTask # None => ChildTask \in Declarations /\ ValidDeclaration(ChildTask)
         /\ ChildTask # runtime.task => method = "spawn"
         /\ runtime.config.mode = "thread" => ChildTask = runtime.task
         /\ runtime.task \in Declarations /\ runtime.config \in Configs
         /\ runtime.task # None
<1>1. runtime.task \in Declarations /\ runtime.config \in Configs /\ method \in {"fork", "spawn"}
  BY StartupAssumption DEF StartupInv, TypeOK, Running
<1>2. ValidDeclaration(runtime.task)
  BY DEF StartupInv, RuntimeAccepted
<1>3. runtime.task # None
  BY <1>1, DataAssumption
<1>4. CASE method = "fork" \/ runtime.config.mode = "thread"
  BY <1>1, <1>2, <1>3, <1>4 DEF ChildTask
<1>5. CASE ~(method = "fork" \/ runtime.config.mode = "thread")
  <2>1. ChildTask = LoadModuleTask(module) /\ method = "spawn"
    BY <1>1, <1>5 DEF ChildTask
  <2>2. module \in Modules
    BY DEF StartupInv, TypeOK
  <2>3. QED BY <1>1, <1>3, <1>5, <2>1, <2>2, LoadedIsDeclared
<1>6. QED BY <1>4, <1>5

\* A child whose requirements are no more than start's is accounted for.
LEMMA ChildStartsKeeps ==
  ASSUME StartupInv, NEW c \in Children, NEW serves \in BOOLEAN, ChildStarts(c, serves),
         ChildTask = runtime.task => serves
  PROVE  StartupInv'
<1> DEFINE entry == [state |-> IF ChildTask # None /\ serves THEN "up" ELSE "failed",
                     task |-> ChildTask,
                     worker |-> IF ChildTask = None THEN NoId ELSE Prepared(c)]
<1>1. /\ Running
      /\ child' = [child EXCEPT ![c] = entry]
      /\ UNCHANGED <<method, module, edits, extracted, registered, warned, runtime>>
  BY DEF ChildStarts, outside
<1>2. runtime.config.prefix \in {"configured", "derived"} /\ c \in 0..SlotCount
  BY <1>1, ChildTaskLoaded, StartupAssumption DEF Configs, Children, Slots
<1>3. Prepared(c) = <<runtime.config.prefix, c>>
  BY <1>2 DEF Prepared, ResolveWorkerId, ChildEnvironment, NoId
<1>4. entry \in [state : {"absent", "up", "failed"}, task : Declarations \cup {None},
                worker : WorkerIds]
  BY <1>1, <1>2, <1>3, ChildTaskLoaded, StartupAssumption DEF NoId, WorkerIds
<1>5. TypeOK'
  BY <1>1, <1>4 DEF StartupInv, TypeOK
<1>6. ASSUME NEW k \in Children PROVE ChildAccounted(k)'
  <2>1. CASE k = c
    <3>1. child'[k] = entry
      BY <1>1, <2>1 DEF StartupInv, TypeOK
    <3>2. entry.state = "up" => ChildTask # None /\ entry.worker = <<runtime.config.prefix, c>>
      BY <1>3
    <3>3. entry.state = "failed" => ChildTask # runtime.task
      BY <1>1, ChildTaskLoaded
    <3>4. QED BY <1>1, <2>1, <3>1, <3>2, <3>3, ChildTaskLoaded DEF ChildAccounted, Up
  <2>2. CASE k # c
    <3>1. child'[k] = child[k] /\ ChildAccounted(k)
      BY <1>1, <2>2 DEF StartupInv, TypeOK
    <3>2. QED BY <1>1, <3>1 DEF ChildAccounted, Up
  <2>3. QED BY <2>1, <2>2
<1>7. RuntimeAccepted' /\ TaskDefsAnnounced' /\ Running'
  BY <1>1 DEF StartupInv, RuntimeAccepted, TaskDefsAnnounced, Announced, Running
<1>8. QED BY <1>5, <1>6, <1>7 DEF StartupInv

\* Broker, thread runner and executor each require a part of what start requires.
LEMMA StartedKeeps ==
  ASSUME StartupInv, BrokerStarts \/ ThreadRunnerStarts \/ \E s \in Slots : ExecutorStarts(s)
  PROVE  StartupInv'
<1>1. Running => Serves(runtime.config, runtime.task)
  BY DEF StartupInv, RuntimeAccepted
<1>2. CASE BrokerStarts
  <2> DEFINE serves == /\ runtime.config.conductor
                       /\ ChildTask.metrics # None /\ ChildTask.metrics.workerCapacity =>
                            runtime.config.metrics
  <2>1. BrokerSlot \in Children /\ ChildStarts(BrokerSlot, serves) /\ Running
    BY <1>2 DEF BrokerStarts, ChildStarts, Children
  <2>2. serves \in BOOLEAN
    OBVIOUS
  <2>3. ChildTask = runtime.task => serves
    BY <1>1, <2>1 DEF Serves
  <2>4. QED BY <2>1, <2>2, <2>3, ChildStartsKeeps
<1>3. CASE ThreadRunnerStarts
  <2> DEFINE serves == /\ runtime.config.conductor
                       /\ HasWorkspace(ChildTask) => runtime.config.lakefs
                       /\ ChildTask.metrics # None => runtime.config.metrics
  <2>1. BrokerSlot \in Children /\ ChildStarts(BrokerSlot, serves) /\ Running
    BY <1>3 DEF ThreadRunnerStarts, ChildStarts, Children
  <2>2. serves \in BOOLEAN
    OBVIOUS
  <2>3. ChildTask = runtime.task => serves
    BY <1>1, <2>1 DEF Serves
  <2>4. QED BY <2>1, <2>2, <2>3, ChildStartsKeeps
<1>4. CASE \E s \in Slots : ExecutorStarts(s)
  <2> DEFINE serves == /\ HasWorkspace(ChildTask) => runtime.config.lakefs
                       /\ ChildTask.metrics # None => runtime.config.metrics
  <2>1. PICK s \in Slots : ExecutorStarts(s)
    BY <1>4
  <2>2. s \in Children /\ ChildStarts(s, serves) /\ Running
    BY <2>1 DEF ExecutorStarts, ChildStarts, Children
  <2>3. serves \in BOOLEAN
    OBVIOUS
  <2>4. ChildTask = runtime.task => serves
    BY <1>1, <2>2 DEF Serves
  <2>5. QED BY <2>2, <2>3, <2>4, ChildStartsKeeps
<1>5. QED BY <1>2, <1>3, <1>4

\* A child or a runtime that ends leaves nothing behind.
LEMMA EndedKeeps ==
  ASSUME StartupInv, Stop \/ \E s \in Slots : ExecutorExits(s)
  PROVE  StartupInv'
<1>1. NoChild \in [state : {"absent", "up", "failed"}, task : Declarations \cup {None},
                  worker : WorkerIds]
  BY StartupAssumption DEF NoChild, NoId, WorkerIds
<1>2. CASE Stop
  <2>1. /\ runtime' = None /\ child' = [c \in Children |-> NoChild]
        /\ UNCHANGED <<method, module, edits, extracted, registered, warned>>
    BY <1>2 DEF Stop, outside
  <2>2. TypeOK'
    BY <1>1, <2>1 DEF StartupInv, TypeOK
  <2>3. \A c \in Children : ChildAccounted(c)'
    BY <2>1 DEF ChildAccounted, Up, NoChild
  <2>4. QED
    BY <2>1, <2>2, <2>3 DEF StartupInv, RuntimeAccepted, TaskDefsAnnounced, Announced, Running
<1>3. CASE \E s \in Slots : ExecutorExits(s)
  <2>1. PICK s \in Slots : ExecutorExits(s)
    BY <1>3
  <2>2. /\ s \in Children /\ Running
        /\ child' = [child EXCEPT ![s] = NoChild]
        /\ UNCHANGED <<method, module, edits, extracted, registered, warned, runtime>>
    BY <2>1 DEF ExecutorExits, outside, Children
  <2>3. TypeOK'
    BY <1>1, <2>2 DEF StartupInv, TypeOK
  <2>4. \A c \in Children : ChildAccounted(c)'
    BY <2>2 DEF StartupInv, TypeOK, ChildAccounted, Up, NoChild
  <2>5. QED
    BY <2>2, <2>3, <2>4 DEF StartupInv, RuntimeAccepted, TaskDefsAnnounced, Announced, Running
<1>4. QED BY <1>2, <1>3

\* No step of Next breaks the invariant.
LEMMA NextKeeps == StartupInv /\ [Next]_vars => StartupInv'
<1> SUFFICES ASSUME StartupInv, [Next]_vars PROVE StartupInv'
  OBVIOUS
<1>1. CASE UNCHANGED vars
  BY <1>1 DEF vars, StartupInv, TypeOK, RuntimeAccepted, TaskDefsAnnounced, Announced,
              ChildAccounted, Up, Running
<1>2. CASE \E m \in Modules : EditModule(m)
  BY <1>2, EditKeeps
<1>3. CASE Register
  BY <1>3, RegisterKeeps
<1>4. CASE \E r \in Readings : Check(r.config) \/ Extract(r.config)
  BY <1>4, CheckKeeps
<1>5. CASE \E r \in Readings, option \in {None, "process", "thread"} :
             Start(r.own, r.config, option)
  BY <1>5, StartKeeps
<1>6. CASE BrokerStarts \/ ThreadRunnerStarts \/ \E s \in Slots : ExecutorStarts(s)
  BY <1>6, StartedKeeps
<1>7. CASE Stop \/ \E s \in Slots : ExecutorExits(s)
  BY <1>7, EndedKeeps
<1>8. QED BY <1>1, <1>2, <1>3, <1>4, <1>5, <1>6, <1>7 DEF Next

-----------------------------------------------------------------------------
\* What the invariant gives

\* The id a child is accounted with is the one worker_child_specs has made for its slot.
LEMMA InvGivesComeUp == StartupInv => ChildrenComeUp
<1> SUFFICES ASSUME StartupInv, NEW c \in Children
             PROVE  /\ Up(c) => child[c].worker = ChildSpecs(runtime.config, Children)[c].id
                    /\ child[c].state = "failed" =>
                         method = "spawn" /\ child[c].task # runtime.task
  BY DEF ChildrenComeUp
<1>1. ChildAccounted(c)
  BY DEF StartupInv
<1>2. ChildSpecs(runtime.config, Children)[c].id = <<runtime.config.prefix, c>>
  BY DEF ChildSpecs, ChildEnvironment
<1>3. QED BY <1>1, <1>2 DEF ChildAccounted

\* Validation at import time and the call site: the four forms of a body.
LEMMA BodyArgumentsMatch ==
  ASSUME NEW d \in Declarations, ValidDeclaration(d)
  PROVE  BodyArguments(d) =
           [i \in DOMAIN d.signature |-> [name |-> d.signature[i].name, type |-> d.signature[i].type]]
<1> DEFINE s == d.signature
           n == Len(s)
           declared == [i \in DOMAIN s |-> [name |-> s[i].name, type |-> s[i].type]]
           path == [name |-> "workspace", type |-> "Path"]
           params == [name |-> "params", type |-> ParamsType(d)]
           recorder == [name |-> "metrics", type |-> "MetricRecorder"]
<1>1. s \in Seq([name : STRING, type : STRING, positional : BOOLEAN, default : BOOLEAN])
  BY DataAssumption
<1>2. DOMAIN s = 1..n /\ n \in Nat
  BY <1>1
\* hints["params"] is unambiguous in an accepted signature.
<1>3. ASSUME NEW i \in DOMAIN s, s[i].name = "params",
             \A j \in DOMAIN s : s[j].name = "params" => j = i
      PROVE  ParamsType(d) = s[i].type
  BY <1>3 DEF ParamsType
<1>4. CASE n = 3 /\ WorkspaceMetricsSignature(d)
  <2>1. /\ s[1].name = "workspace" /\ s[1].type = "Path"
        /\ s[2].name = "params"
        /\ s[3].name = "metrics" /\ s[3].type = "MetricRecorder"
        /\ HasWorkspace(d) /\ d.metrics # None
    BY <1>4 DEF WorkspaceMetricsSignature, WorkspaceSignature, MetricsParameter, Parameter
  <2>2. ParamsType(d) = s[2].type
    BY <1>2, <1>3, <1>4, <2>1
  <2>3. BodyArguments(d) = <<path, params, recorder>>
    BY <2>1 DEF BodyArguments
  <2>4. declared = <<path, params, recorder>>
    BY <1>2, <1>4, <2>1, <2>2
  <2>5. QED BY <2>3, <2>4
<1>5. CASE n = 2 /\ WorkspaceFreeMetricsSignature(d) /\ Parameter(d, 2).name = "metrics"
  <2>1. /\ s[1].name = "params"
        /\ s[2].name = "metrics" /\ s[2].type = "MetricRecorder"
        /\ ~HasWorkspace(d) /\ d.metrics # None
    BY <1>5 DEF WorkspaceFreeMetricsSignature, MetricsParameter, Parameter
  <2>2. ParamsType(d) = s[1].type
    BY <1>2, <1>3, <1>5, <2>1
  <2>3. BodyArguments(d) = <<params, recorder>>
    BY <2>1 DEF BodyArguments
  <2>4. declared = <<params, recorder>>
    BY <1>2, <1>5, <2>1, <2>2
  <2>5. QED BY <2>3, <2>4
<1>6. CASE n = 2 /\ WorkspaceSignature(d, d.metrics)
  <2>1. /\ s[1].name = "workspace" /\ s[1].type = "Path"
        /\ s[2].name = "params"
        /\ HasWorkspace(d) /\ d.metrics = None
    BY <1>6 DEF WorkspaceSignature, Parameter
  <2>2. ParamsType(d) = s[2].type
    BY <1>2, <1>3, <1>6, <2>1
  <2>3. BodyArguments(d) = <<path, params>>
    BY <2>1 DEF BodyArguments
  <2>4. declared = <<path, params>>
    BY <1>2, <1>6, <2>1, <2>2
  <2>5. QED BY <2>3, <2>4
<1>7. CASE n = 1 /\ WorkspaceFreeSignature(d)
  <2>1. s[1].name = "params" /\ ~HasWorkspace(d) /\ d.metrics = None
    BY <1>7 DEF WorkspaceFreeSignature, Parameter
  <2>2. ParamsType(d) = s[1].type
    BY <1>2, <1>3, <1>7, <2>1
  <2>3. BodyArguments(d) = <<params>>
    BY <2>1 DEF BodyArguments
  <2>4. declared = <<params>>
    BY <1>2, <1>7, <2>1, <2>2
  <2>5. QED BY <2>3, <2>4
<1>8. ValidSignature(d)
  BY DEF ValidDeclaration
<1>9. QED BY <1>4, <1>5, <1>6, <1>7, <1>8 DEF ValidSignature

\* A child that is up has a valid declaration, and those match.
LEMMA InvGivesCalled == StartupInv => CalledAsDeclared
  BY BodyArgumentsMatch DEF StartupInv, ChildAccounted, CalledAsDeclared

\* Who has not been warned has a response timeout that covers the budget.
LEMMA InvGivesBudget == StartupInv => BudgetIsAnnounced
<1> SUFFICES ASSUME StartupInv, NEW c \in Children, Up(c),
                    NEW d, d = child[c].task, NEW b, b = d.controls.budget,
                    b # None, registered[d.name] = d, d \notin warned
             PROVE  /\ MergeTimeout(d) = b.merge
                    /\ b.p99 + b.margin <= b.merge
                    /\ b.merge + b.completion + b.grace + b.heartbeat
                         <= ControlFields(registered[d.name]).responseTimeoutSeconds
  BY DEF BudgetIsAnnounced
<1>1. d \in Declarations /\ ValidDeclaration(d)
  BY DEF StartupInv, ChildAccounted
<1>2. /\ d # None /\ d.controls.responseSeconds \in Int
      /\ b \in [p99 : Int, margin : Int, merge : Int, completion : Int, grace : Int, heartbeat : Int]
  BY <1>1, DataAssumption
<1>3. b.merge >= b.p99 + b.margin
  BY <1>1 DEF ValidDeclaration, ValidControls, ValidPublishBudget
<1>4. ~ResponseTimeoutTooShort(d) /\ ~BudgetIgnored(d)
  BY <1>1, <1>2 DEF StartupInv, TaskDefsAnnounced, Announced, Names
<1>5. ~ReadOnly(d)
  BY <1>4 DEF BudgetIgnored
<1>6. d.controls.responseSeconds >= BudgetSeconds(b)
  BY <1>2, <1>4, <1>5 DEF ResponseTimeoutTooShort, BudgetSeconds
<1>7. MergeTimeout(d) = b.merge
  BY <1>5 DEF MergeTimeout
<1>8. QED BY <1>2, <1>3, <1>6, <1>7 DEF BudgetSeconds, ControlFields

-----------------------------------------------------------------------------
\* The theorems

\* The state of commands, registrations, runtime and children has its type.
THEOREM StartupTypeCorrect == Spec => []TypeOK
<1>1. StartupInv => TypeOK
  BY DEF StartupInv
<1>2. QED BY <1>1, InitEstablishes, NextKeeps, PTL DEF Spec

\* What start has checked is enough for every process it starts, whatever the tasks, the
\* environments and the number of executors.
THEOREM ChildrenComeUpHolds == Spec => []ChildrenComeUp
  BY InvGivesComeUp, InitEstablishes, NextKeeps, PTL DEF Spec

\* Every body that is called gets the arguments its function declares.
THEOREM CalledAsDeclaredHolds == Spec => []CalledAsDeclared
  BY InvGivesCalled, InitEstablishes, NextKeeps, PTL DEF Spec

\* No publish budget exceeds the response timeout of its registered task unannounced.
THEOREM BudgetIsAnnouncedHolds == Spec => []BudgetIsAnnounced
  BY InvGivesBudget, InitEstablishes, NextKeeps, PTL DEF Spec

=============================================================================
