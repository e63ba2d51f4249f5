--------------------------- MODULE TaskDeclaration ---------------------------
(***************************************************************************)
(* What @task(...) accepts (task.py, models.py) and what the rest of the   *)
(* program derives from an accepted declaration: the arguments of the      *)
(* body, the timeouts, the models its payloads are made of.                *)
(*                                                                         *)
(* A declaration is a record.  Texts that are only tested for being blank  *)
(* or for containing a path separator are members of two sets.  None is    *)
(* Python's.                                                               *)
(***************************************************************************)
EXTENDS Integers, Sequences, FiniteSets

CONSTANTS
  None,
  BlankTexts,    \* names and addresses that are empty or white space
  PathTexts,     \* names that contain "/" or "\"
  Models,        \* Pydantic models the modules can import
  RootModels,    \* those that are RootModel subclasses
  Fields         \* Fields[m]: field name -> [type, required]; a type is
                 \* [kind, model], the kind "text", "name" (one of length 1 or
                 \* more), "literal" (one word), "opaque" (no JSON Schema),
                 \* "model", "optional", "list" or "dict", the last four of model

ASSUME DeclarationAssumption == RootModels \subseteq Models

-----------------------------------------------------------------------------
\* TaskControls: what the Pydantic models of models.py let through

MaxRetryCount == 10

\* A configured publish budget: the merge timeout covers what was measured.
ValidPublishBudget(b) ==
  /\ b.p99 >= 0 /\ b.margin >= 0
  /\ b.merge >= 1 /\ b.completion >= 1 /\ b.grace >= 1 /\ b.heartbeat >= 1
  /\ b.merge >= b.p99 + b.margin

\* PublishBudget.response_timeout_seconds
BudgetSeconds(b) == b.merge + b.completion + b.grace + b.heartbeat

\* ExecutionLimits: a rate limit needs its window, and the window its limit.
ValidLimits(l) ==
  /\ (l.frequency = None) <=> (l.perFrequency = None)
  /\ \A n \in {l.frequency, l.perFrequency, l.concurrent} : n # None => n >= 0

ValidControls(c) ==
  /\ c.retryCount \in 0..MaxRetryCount
  /\ c.responseSeconds >= 0
  /\ ValidLimits(c.limits)
  /\ c.budget # None => ValidPublishBudget(c.budget)

-----------------------------------------------------------------------------
\* _build_task_definition

HasWorkspace(d) == d.workspace # None
ReadOnly(d) == HasWorkspace(d) /\ d.workspace.readOnly
Parameter(d, i) == d.signature[i]

ValidMetadata(d) ==
  /\ d.name \notin BlankTexts \cup PathTexts
  /\ d.owner \notin BlankTexts

\* metrics as the caller passes it: the three-parameter form hides its own
WorkspaceSignature(d, metrics) ==
  /\ Parameter(d, 1).name = "workspace" /\ Parameter(d, 2).name = "params"
  /\ Parameter(d, 1).type = "Path"
  /\ HasWorkspace(d)
  /\ metrics = None

MetricsParameter(d, i) ==
  /\ Parameter(d, i).name = "metrics"
  /\ Parameter(d, i).type = "MetricRecorder"
  /\ d.metrics # None

WorkspaceMetricsSignature(d) == WorkspaceSignature(d, None) /\ MetricsParameter(d, 3)

WorkspaceFreeMetricsSignature(d) ==
  Parameter(d, 1).name = "params" /\ ~HasWorkspace(d) /\ MetricsParameter(d, 2)

WorkspaceFreeSignature(d) ==
  Parameter(d, 1).name = "params" /\ ~HasWorkspace(d) /\ d.metrics = None

\* Mutant of ValidSignature: two parameters always mean a workspace and params, the
\* metrics of a workspace task are not looked at.
TwoParametersTrusted(d) ==
  LET n == Len(d.signature)
  IN \/ n = 3 /\ WorkspaceMetricsSignature(d)
     \/ n = 2 /\ WorkspaceSignature(d, None)
     \/ n = 1 /\ WorkspaceFreeSignature(d)

\* One form per number of parameters; two parameters may mean either of two.
ValidSignature(d) ==
  LET n == Len(d.signature)
      free == Parameter(d, 1).name = "params" /\ Parameter(d, 2).name = "metrics"
  IN \/ n = 3 /\ WorkspaceMetricsSignature(d)
     \/ n = 2 /\ free /\ WorkspaceFreeMetricsSignature(d)
     \/ n = 2 /\ ~free /\ WorkspaceSignature(d, d.metrics)
     \/ n = 1 /\ WorkspaceFreeSignature(d)

\* hints["params"], whichever parameter has that name
ParamsType(d) ==
  IF \E i \in DOMAIN d.signature : d.signature[i].name = "params"
  THEN d.signature[CHOOSE i \in DOMAIN d.signature : d.signature[i].name = "params"].type
  ELSE None

\* task(...) returns a definition; otherwise it raises and the import fails.
ValidDeclaration(d) ==
  /\ ~d.unsupported                                \* unknown decorator fields
  /\ ValidControls(d.controls)
  /\ ValidMetadata(d)
  /\ HasWorkspace(d) \/ d.controls.budget = None
  /\ ~d.coroutine
  /\ \A i \in DOMAIN d.signature : d.signature[i].positional /\ ~d.signature[i].default
  /\ ValidSignature(d)
  /\ ParamsType(d) \in Models
  /\ d.output \in Models

-----------------------------------------------------------------------------
\* load_module_task, in a process that has not imported the module yet: a module's
\* text is the declarations it executes and whether its import fails elsewhere.

LoadsTask(module) ==
  /\ ~module.raises
  /\ \A i \in DOMAIN module.tasks : ValidDeclaration(module.tasks[i])
  /\ Len(module.tasks) = 1

LoadModuleTask(module) == IF LoadsTask(module) THEN module.tasks[1] ELSE None

\* The arguments the attempt's body call passes, in order: what they are called in
\* the contract and what they are.
BodyArguments(d) ==
  LET path == [name |-> "workspace", type |-> "Path"]
      params == [name |-> "params", type |-> ParamsType(d)]
      metrics == [name |-> "metrics", type |-> "MetricRecorder"]
  IN IF HasWorkspace(d)
     THEN IF d.metrics = None THEN <<path, params>> ELSE <<path, params, metrics>>
     ELSE IF d.metrics = None THEN <<params>> ELSE <<params, metrics>>

-----------------------------------------------------------------------------
\* The models a declaration's payloads are made of

FieldModels(m) ==
  {Fields[m][f].type.model : f \in {g \in DOMAIN Fields[m] :
     Fields[m][g].type.kind \in {"model", "optional", "list", "dict"}}}

\* Models reachable from each model by one field or more: after as many steps as there
\* are models nothing is new.
ReachedIn[n \in 0..Cardinality(Models)] ==
  IF n = 0 THEN [m \in Models |-> {}]
  ELSE LET reached == ReachedIn[n - 1]
       IN [m \in Models |-> FieldModels(m) \cup UNION {FieldModels(k) : k \in reached[m]}]
ReachedFrom == ReachedIn[Cardinality(Models)]
Below(m) == ReachedFrom[m]

\* _iter_model_graph
ModelGraph(m) == {m} \cup Below(m)
Recursive(m) == m \in Below(m)

NoRootModels(d) == (ModelGraph(ParamsType(d)) \cup ModelGraph(d.output)) \cap RootModels = {}

\* schema_for_model returns: model_json_schema knows every field type, and inlining
\* ends.  A recursive model at the top is nothing but a $ref, which is stripped before
\* anything is inlined.
SchemaExists(m) ==
  /\ \A k \in ModelGraph(m) : \A f \in DOMAIN Fields[k] : Fields[k][f].type.kind # "opaque"
  /\ Recursive(m) \/ \A k \in Below(m) : ~Recursive(k)

\* build_taskdef returns
BuildsTaskDef(d) ==
  NoRootModels(d) /\ SchemaExists(ParamsType(d)) /\ SchemaExists(d.output)

-----------------------------------------------------------------------------
\* Timeouts

\* Mutant of ResponseTimeoutTooShort: the heartbeat interval is left out of the sum.
ResponseTimeoutNoHeartbeat(d) ==
  /\ ~ReadOnly(d) /\ d.controls.budget # None
  /\ d.controls.responseSeconds < BudgetSeconds(d.controls.budget) - d.controls.budget.heartbeat

\* _response_timeout_seconds warns
ResponseTimeoutTooShort(d) ==
  /\ ~ReadOnly(d) /\ d.controls.budget # None
  /\ d.controls.responseSeconds < BudgetSeconds(d.controls.budget)

\* _warn_ignored_publish_budget warns
BudgetIgnored(d) == ReadOnly(d) /\ d.controls.budget # None

\* The control fields of the generated TaskDef that the models use; a limit that is
\* None has no field.
ControlFields(d) ==
  [retryCount |-> d.controls.retryCount,
   responseTimeoutSeconds |-> d.controls.responseSeconds,
   limits |-> {n \in DOMAIN d.controls.limits : d.controls.limits[n] # None}]

\* The request timeout of LakeFS merges in an executor, None for the client's own
MergeTimeout(d) ==
  IF ReadOnly(d) \/ d.controls.budget = None THEN None ELSE d.controls.budget.merge
=============================================================================
