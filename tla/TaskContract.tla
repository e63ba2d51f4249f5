---------------------------- MODULE TaskContract ----------------------------
(***************************************************************************)
(* The contract between a workflow and a worker: the schemas Conductor     *)
(* holds are those of the declaration that was registered, the validation  *)
(* is that of the declaration a child has loaded.                          *)
(***************************************************************************)
EXTENDS WorkerStartup, TaskSchema

CONSTANT Values     \* bound: the JSON values a payload's parts are tried with

Buildable ==
  {d \in Declarations \ {None} : ValidDeclaration(d) /\ BuildsTaskDef(d)}

\* the fields of a workspace reference: all of them, one blank or empty, one missing,
\* another word for its type, one too many
Reference == [f \in {"repository", "branch", "ref"} |-> Atom("text")] @@ "refType" :> Atom("commit")
References ==
  {Reference, "title" :> Atom("text") @@ Reference, "refType" :> Atom("text") @@ Reference,
   "repository" :> Atom("blank") @@ Reference, "branch" :> Atom("empty") @@ Reference,
   Restrict(Reference, {"repository", "branch", "refType"})}
Workspaces == {Dict(f) : f \in References}

\* an inputData object around every value, with and without a workspace
Inputs ==
  {Dict(<<>>), Dict("workspace" :> Dict(Reference))}
    \cup {Dict("params" :> v) : v \in Values}
    \cup {Dict("params" :> v @@ "workspace" :> w @@ "title" :> Atom("text")) :
            v \in Values, w \in Workspaces}

\* The body gets the input, unless a validator of its models refuses a text in it.
Admits(d, input) == ReachesBody(d, input) \/ InputRefused(d, input)

\* What the input schema of a declaration accepts its validation lets through to the
\* body, and of a result that passes the validation the output schema is true.
InputAgrees ==
  [d \in Buildable |-> LET schema == InputSchema(d)
                       IN \A v \in Inputs : Accepts(schema, v) => Admits(d, v)]
ResultAgrees ==
  [d \in Buildable |->
     LET schema == OutputSchema(d)
         around == IF HasWorkspace(d) THEN "workspace" :> Dict(Reference) ELSE <<>>
     IN \A v \in Values : ValidResult(d, v) => Accepts(schema, Dict("result" :> v @@ around))]

\* Model k has every field of m, with the same type or one that extends it, up to a
\* nesting of n.
RECURSIVE ExtendsIn(_, _, _)
ExtendsIn(k, m, n) ==
  \/ k = m
  \/ /\ n > 0
     /\ \A f \in DOMAIN Fields[m] :
          /\ f \in DOMAIN Fields[k]
          /\ Fields[m][f].required => Fields[k][f].required
          /\ LET a == Fields[k][f].type
                 b == Fields[m][f].type
             IN /\ a.kind = b.kind
                /\ a.kind \in {"model", "optional", "list", "dict"} =>
                     ExtendsIn(a.model, b.model, n - 1)
ModelExtends(k, m) == ExtendsIn(k, m, 3)

Superset(r, d) ==
  /\ r.name = d.name
  /\ HasWorkspace(r) = HasWorkspace(d)
  /\ ModelExtends(ParamsType(r), ParamsType(d))

SupersetAgrees ==
  [r, d \in Buildable |->
     Superset(r, d) /\ ~d.strict =>
       LET schema == InputSchema(r)
       IN \A v \in Inputs : Accepts(schema, v) => Admits(d, v)]

-----------------------------------------------------------------------------

\* The worker takes every input that the schema Conductor holds for its declaration
\* accepts, and of what it returns that schema is true.  Two things no schema shows are
\* left to the worker: a validator that refuses a text of the input, as WorkspaceInput's
\* refuses a blank repository, branch or ref; and all of the params, if their model
\* contains itself: its schema accepts anything.
ServedAsRegistered ==
  \A c \in Children : Up(c) =>
    LET d == child[c].task
    IN registered[d.name] = d =>
         (Recursive(ParamsType(d)) \/ InputAgrees[d]) /\ ResultAgrees[d]

\* A worker whose params model knows fewer fields than the registered one still serves
\* every input the registered schema accepts, unless it asks for strict params: a
\* workflow can be extended before all of its workers are
\* (docs/concepts/task-contract.md:73).  The same two exceptions: a validator of the
\* worker's, and a registered params model that contains itself.
SupersetIsServed ==
  \A c \in Children : Up(c) =>
    LET d == child[c].task
        r == registered[d.name]
    IN r # None /\ r # d /\ BuildsTaskDef(d) =>
         Recursive(ParamsType(r)) \/ SupersetAgrees[r, d]
=============================================================================
