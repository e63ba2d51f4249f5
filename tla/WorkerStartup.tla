---------------------------- MODULE WorkerStartup ----------------------------
(***************************************************************************)
(* From a task module to its running workers (cli.py, taskdef.py,          *)
(* supervisor.py): perago check, extract and start, the TaskDef that is    *)
(* registered in between, and the processes of a started runtime, each of  *)
(* which loads the task on its own.                                        *)
(*                                                                         *)
(* The module's text changes under all of them, and every command finds    *)
(* the environment and the .env its caller gives it.  A forked child has   *)
(* the modules its parent had imported when it forked; a spawned one       *)
(* imports the text it finds.  A command that fails changes nothing and is *)
(* not a step; a child that fails is restarted.                            *)
(***************************************************************************)
EXTENDS TaskDeclaration, WorkerConfig

CONSTANTS
  Modules,       \* texts of the task module: [tasks, raises]
  Processes,     \* process environments, in Environments
  Dotenvs,       \* contents of .env, in Environments
  SlotCount,     \* perago start -j
  Methods,       \* multiprocessing start methods: "fork", "spawn"
  MaxEdits       \* bound: how often the module changes

Slots == 1..SlotCount
Children == Slots \cup {BrokerSlot}
Declarations == {m.tasks[1] : m \in {n \in Modules : n.tasks # <<>>}}
Names == {d.name : d \in Declarations}
Configs == [prefix : {"configured", "derived"}, mode : {"process", "thread"},
            conductor : BOOLEAN, lakefs : BOOLEAN, metrics : BOOLEAN, instance : BOOLEAN]
WorkerIds == {"configured", "derived", "own", "pid", "none"} \X (0..SlotCount)

ASSUME StartupAssumption ==
  /\ Processes \subseteq Environments /\ Dotenvs \subseteq Environments
  /\ SlotCount \in Nat \ {0}
  /\ Methods \subseteq {"fork", "spawn"}
  /\ MaxEdits \in Nat

\* Which data of a declaration are sequences and numbers
ASSUME DataAssumption ==
  \A d \in Declarations :
    /\ d # None
    /\ d.signature \in Seq([name : STRING, type : STRING, positional : BOOLEAN, default : BOOLEAN])
    /\ d.controls.responseSeconds \in Int
    /\ d.controls.budget # None =>
         d.controls.budget \in [p99 : Int, margin : Int, merge : Int, completion : Int,
                                grace : Int, heartbeat : Int]

VARIABLES
  method,      \* how multiprocessing starts a process
  module,      \* text of the module
  edits,       \* how often it has changed
  extracted,   \* declaration of the extracted TaskDef file, or None
  registered,  \* registered[n]: declaration of the TaskDef registered as n, or None
  warned,      \* declarations some command has printed a budget warning for
  runtime,     \* [task, config, own] of the running supervisor, own the worker id in
               \* its own environment, or None
  child        \* child[c]: [state, task, worker] of the broker and each executor

outside == <<method, module, edits>>
vars == <<method, module, edits, extracted, registered, warned, runtime, child>>

\* what a command may find around it
Readings ==
  {[own |-> OwnId(p), config |-> LoadRuntimeConfig(p, e)] : p \in Processes, e \in Dotenvs}

NoChild == [state |-> "absent", task |-> None, worker |-> NoId]

TypeOK ==
  /\ method \in Methods
  /\ module \in Modules
  /\ edits \in 0..MaxEdits
  /\ extracted \in Declarations \cup {None}
  /\ registered \in [Names -> Declarations \cup {None}]
  /\ warned \subseteq Declarations
  /\ \/ runtime = None
     \/ runtime \in [task : Declarations, config : Configs, own : WorkerIds]
  /\ child \in [Children -> [state : {"absent", "up", "failed"},
                             task : Declarations \cup {None}, worker : WorkerIds]]

Init ==
  /\ method \in Methods
  /\ module \in Modules
  /\ edits = 0
  /\ extracted = None
  /\ registered = [n \in Names |-> None]
  /\ warned = {}
  /\ runtime = None
  /\ child = [c \in Children |-> NoChild]

Running == runtime # None
Up(c) == child[c].state = "up"

-----------------------------------------------------------------------------
\* The task's author and whoever registers TaskDefs

EditModule(m) ==
  /\ edits < MaxEdits /\ m # module
  /\ module' = m
  /\ edits' = edits + 1
  /\ UNCHANGED <<method, extracted, registered, warned, runtime, child>>

\* The extracted TaskDef is registered under its name, over an older one.
Register ==
  /\ extracted # None
  /\ registered' = [registered EXCEPT ![extracted.name] = extracted]
  /\ UNCHANGED <<outside, extracted, warned, runtime, child>>

-----------------------------------------------------------------------------
\* Commands

Task == LoadModuleTask(module)

\* what check, extract and start all do first
Checked(config) ==
  /\ config # NoConfig
  /\ Task # None
  /\ BuildsTaskDef(Task)

Warn(d) ==
  warned' = IF ResponseTimeoutTooShort(d) \/ BudgetIgnored(d) THEN warned \cup {d} ELSE warned

Check(config) ==
  /\ Checked(config)
  /\ Warn(Task)
  /\ UNCHANGED <<outside, extracted, registered, runtime, child>>

Extract(config) ==
  /\ Checked(config)
  /\ Warn(Task)
  /\ extracted' = Task
  /\ UNCHANGED <<outside, registered, runtime, child>>

\* what start requires of the configuration for this task
Serves(c, d) ==
  /\ c.conductor
  /\ HasWorkspace(d) => c.lakefs
  /\ d.metrics # None => c.metrics
  /\ d.metrics # None /\ d.metrics.workerCapacity => c.instance

Run(own, config, option) ==
  /\ runtime' = [task |-> Task, own |-> own,
                 config |-> [config EXCEPT !.mode = IF option # None THEN option ELSE @]]
  /\ child' = [c \in Children |-> NoChild]

\* Mutant of Start: that there is a metrics endpoint is left to the children.
StartWithoutMetrics(own, config, option) ==
  /\ ~Running
  /\ Checked(config)
  /\ Serves([config EXCEPT !.metrics = TRUE], Task)
  /\ registered[Task.name] # None
  /\ Warn(Task)
  /\ Run(own, config, option)
  /\ UNCHANGED <<outside, extracted, registered>>

\* perago start; taskdef_exists asks for the name only.
Start(own, config, option) ==
  /\ ~Running
  /\ Checked(config)
  /\ Serves(config, Task)
  /\ registered[Task.name] # None
  /\ Warn(Task)
  /\ Run(own, config, option)
  /\ UNCHANGED <<outside, extracted, registered>>

-----------------------------------------------------------------------------
\* Children

\* load_module_task in a child: the parent's import is in a forked one's sys.modules,
\* and in the thread runner's, which is the parent itself.
ChildTask ==
  IF method = "fork" \/ runtime.config.mode = "thread" THEN runtime.task
  ELSE LoadModuleTask(module)

\* prepare_worker_runtime, with the id its environment gives the child
Prepared(c) == ResolveWorkerId(runtime.own, ChildEnvironment(runtime.config, c))

ChildStarts(c, serves) ==
  /\ Running /\ child[c].state = "absent"
  /\ child' = [child EXCEPT ![c] =
       [state |-> IF ChildTask # None /\ serves THEN "up" ELSE "failed",
        task |-> ChildTask,
        worker |-> IF ChildTask = None THEN NoId ELSE Prepared(c)]]
  /\ UNCHANGED <<outside, extracted, registered, warned, runtime>>

\* _broker_process_main up to its first poll
BrokerStarts ==
  /\ Running /\ runtime.config.mode = "process"
  /\ ChildStarts(BrokerSlot,
       /\ runtime.config.conductor
       /\ ChildTask.metrics # None /\ ChildTask.metrics.workerCapacity => runtime.config.metrics)

\* _process_executor_main up to its first assignment
ExecutorStarts(s) ==
  /\ Running /\ runtime.config.mode = "process"
  /\ ChildStarts(s,
       /\ HasWorkspace(ChildTask) => runtime.config.lakefs      \* _lakefs_runtime_for_task
       /\ ChildTask.metrics # None => runtime.config.metrics)

\* _thread_runner_main up to its first poll
ThreadRunnerStarts ==
  /\ Running /\ runtime.config.mode = "thread"
  /\ ChildStarts(BrokerSlot,
       /\ runtime.config.conductor
       /\ HasWorkspace(ChildTask) => runtime.config.lakefs
       /\ ChildTask.metrics # None => runtime.config.metrics)

\* An executor that failed, or dies, is replaced.
ExecutorExits(s) ==
  /\ Running /\ child[s].state # "absent"
  /\ child' = [child EXCEPT ![s] = NoChild]
  /\ UNCHANGED <<outside, extracted, registered, warned, runtime>>

\* A broker or thread runner that failed, or dies, or a stop signal ends the runtime.
Stop ==
  /\ Running
  /\ runtime' = None
  /\ child' = [c \in Children |-> NoChild]
  /\ UNCHANGED <<outside, extracted, registered, warned>>

Next ==
  \/ \E m \in Modules : EditModule(m)
  \/ Register
  \/ \E r \in Readings : Check(r.config) \/ Extract(r.config)
  \/ \E r \in Readings, option \in {None, "process", "thread"} : Start(r.own, r.config, option)
  \/ BrokerStarts \/ ThreadRunnerStarts
  \/ \E s \in Slots : ExecutorStarts(s) \/ ExecutorExits(s)
  \/ Stop

Spec == Init /\ [][Next]_vars

-----------------------------------------------------------------------------
\* Properties

\* What start has checked is enough for every process it starts: a child of a running
\* runtime comes up, under the id by which the supervisor keeps its queues, and keeps
\* coming up when it is replaced.  Only a spawned child can fail, over a module text that
\* is not the one start has loaded.
ChildrenComeUp ==
  \A c \in Children :
    /\ Up(c) => child[c].worker = ChildSpecs(runtime.config, Children)[c].id
    /\ child[c].state = "failed" => method = "spawn" /\ child[c].task # runtime.task

\* A body is called with exactly the parameters its function declares, in their order
\* and with their types: the validation at import time and the call site, which goes by
\* the declaration's workspace and metrics only, agree.
CalledAsDeclared ==
  \A c \in Children : Up(c) =>
    LET d == child[c].task
    IN BodyArguments(d) =
         [i \in DOMAIN d.signature |-> [name |-> d.signature[i].name, type |-> d.signature[i].type]]

\* A publish budget of the task an executor serves is in force and within the response
\* timeout of the registered TaskDef, as far as that is the task's own, or somebody has
\* been told.  docs/architecture/publish-fences.md builds its time budget on it.
BudgetIsAnnounced ==
  \A c \in Children : Up(c) =>
    LET d == child[c].task
        b == d.controls.budget
    IN b # None /\ registered[d.name] = d =>
         \/ d \in warned
         \/ /\ MergeTimeout(d) = b.merge
            /\ b.p99 + b.margin <= b.merge
            /\ b.merge + b.completion + b.grace + b.heartbeat
                 <= ControlFields(registered[d.name]).responseTimeoutSeconds
=============================================================================
