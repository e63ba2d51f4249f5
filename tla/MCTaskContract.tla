--------------------------- MODULE MCTaskContract ---------------------------
(* Task modules, environments and JSON values for TaskContract. *)
EXTENDS TaskContract

\* Models: plain ones, every way to nest one, fields with the names of schema keywords,
\* validators, and those that build_taskdef cannot take.
Text(required) == [type |-> [kind |-> "text", model |-> "none"], required |-> required]
Word(kind) == [type |-> [kind |-> kind, model |-> "none"], required |-> TRUE]
Of(kind, m, required) == [type |-> [kind |-> kind, model |-> m], required |-> required]

ModelFields ==
  "Plain"        :> ("x" :> Text(TRUE))
  @@ "PlainMore" :> ("x" :> Text(TRUE) @@ "title" :> Text(FALSE))
  @@ "Titled"    :> ("title" :> Text(TRUE) @@ "x" :> Text(FALSE))
  @@ "Nest"      :> ("x" :> Of("model", "Plain", TRUE))
  @@ "NestMore"  :> ("x" :> Of("model", "PlainMore", TRUE) @@ "properties" :> Text(FALSE))
  @@ "Deep"      :> ("properties" :> Of("model", "Nest", TRUE))
  @@ "Mapped"    :> ("x" :> Of("dict", "Plain", FALSE))
  @@ "Optional"  :> ("x" :> Of("optional", "Titled", TRUE) @@ "title" :> Text(FALSE))
  @@ "Self"      :> ("x" :> Of("optional", "Self", FALSE))
  @@ "HoldsSelf" :> ("x" :> Of("model", "Self", TRUE))
  @@ "Opaque"    :> ("x" :> [type |-> [kind |-> "opaque", model |-> "none"], required |-> TRUE])
  @@ "Root"      :> ("x" :> Text(TRUE))
  @@ "Named"     :> ("x" :> Word("name") @@ "title" :> Text(FALSE))
  @@ "Names"     :> ("x" :> Of("list", "Named", TRUE))
  @@ "WorkspaceInput" :> ("refType" :> Word("literal")
                          @@ [f \in {"repository", "branch", "ref"} |-> Word("name")])

AllModels == DOMAIN ModelFields
ValidatedFields ==
  [m \in AllModels |-> CASE m = "WorkspaceInput" -> {"repository", "branch", "ref"}
                         [] m = "Named" -> {"title"}
                         [] OTHER -> {}]

\* Declarations
NoLimits == [concurrent |-> None, frequency |-> None, perFrequency |-> None]
NoBudget == [retryCount |-> 3, responseSeconds |-> 10, limits |-> NoLimits, budget |-> None]
Budget(p99) == [p99 |-> p99, margin |-> 1, merge |-> 4, completion |-> 2, grace |-> 2, heartbeat |-> 2]
WithBudget(seconds, p99) ==
  [NoBudget EXCEPT !.responseSeconds = seconds, !.budget = Budget(p99)]

Parameters(types) ==
  [i \in DOMAIN types |-> [name |-> types[i][1], type |-> types[i][2],
                           positional |-> TRUE, default |-> FALSE]]
WorkspaceParameter == <<"workspace", "Path">>
MetricsArgument == <<"metrics", "MetricRecorder">>

Free(name, m) ==
  [name |-> name, owner |-> "owner", unsupported |-> FALSE, workspace |-> None, metrics |-> None,
   controls |-> NoBudget, strict |-> FALSE, coroutine |-> FALSE,
   signature |-> Parameters(<<<<"params", m>>>>), output |-> "Plain"]
InWorkspace(name, m, readOnly) ==
  [Free(name, m) EXCEPT !.workspace = [readOnly |-> readOnly],
                        !.signature = Parameters(<<WorkspaceParameter, <<"params", m>>>>)]
Measured(d, capacity) ==
  [d EXCEPT !.metrics = [workerCapacity |-> capacity],
            !.signature = @ \o Parameters(<<MetricsArgument>>)]

ValidTasks == {
  Free("a", "NestMore"),
  [Free("a", "Nest") EXCEPT !.output = "Titled"],
  [Free("a", "Nest") EXCEPT !.strict = TRUE],
  [Free("a", "Optional") EXCEPT !.output = "Mapped"],
  [InWorkspace("a", "Names", FALSE) EXCEPT !.controls = WithBudget(9, 3), !.output = "Named"],
  [InWorkspace("a", "Plain", FALSE) EXCEPT !.controls = WithBudget(10, 3), !.output = "Deep"],
  [InWorkspace("a", "Deep", TRUE) EXCEPT !.controls = WithBudget(9, 3), !.strict = TRUE],
  Measured(Free("a", "Mapped"), TRUE),
  Measured(InWorkspace("a", "Plain", FALSE), FALSE),
  Free("b", "Self"),
  [Free("b", "Self") EXCEPT !.output = "Nest"]}

\* What task(...) or build_taskdef rejects: one wrong thing each.
WrongTasks == {
  Free("", "Plain"),
  [Free("a", "Plain") EXCEPT !.owner = ""],
  [Free("a", "Plain") EXCEPT !.unsupported = TRUE],
  [Free("a", "Plain") EXCEPT !.coroutine = TRUE],
  [Free("a", "Plain") EXCEPT !.controls = [NoBudget EXCEPT !.retryCount = 11]],
  [Free("a", "Plain") EXCEPT !.controls = WithBudget(10, 3)],
  [Free("a", "Plain") EXCEPT !.controls.limits.frequency = 1],
  [InWorkspace("a", "Plain", FALSE) EXCEPT !.controls = WithBudget(10, 4)],
  [Free("a", "Plain") EXCEPT !.output = "int"],
  Free("a", "int"),
  Free("a", "Root"), Free("a", "Opaque"), Free("a", "HoldsSelf")}

\* Signatures with metadata that do not go with them - missing, swapped, of another
\* type, without their metadata, the metadata without them; the four that do are those of
\* ValidTasks.
W == WorkspaceParameter
P == <<"params", "Plain">>
M == MetricsArgument
WithMetadata(signature, workspace, metrics) ==
  [Free("c", "Plain") EXCEPT !.signature = Parameters(signature),
     !.workspace = IF workspace THEN [readOnly |-> FALSE] ELSE None,
     !.metrics = IF metrics THEN [workerCapacity |-> FALSE] ELSE None]
Matching == {WithMetadata(<<P>>, FALSE, FALSE), WithMetadata(<<W, P>>, TRUE, FALSE),
             WithMetadata(<<P, M>>, FALSE, TRUE), WithMetadata(<<W, P, M>>, TRUE, TRUE)}
WrongSignatures ==
  ({WithMetadata(s, w, m) : s \in {<<P>>, <<W, P>>, <<P, M>>, <<W, P, M>>}, w, m \in BOOLEAN}
     \ Matching)
    \cup {WithMetadata(s, TRUE, TRUE) : s \in {<<>>, <<P, W>>, <<M, P>>, <<P, W, M>>, <<W, M, P>>,
           <<<<"workspace", "Plain">>, P, M>>, <<W, P, <<"metrics", "Path">>>>, <<W, P, M, M>>}}
    \cup {[WithMetadata(<<P>>, FALSE, FALSE) EXCEPT !.signature[1].default = TRUE],
          [WithMetadata(<<P>>, FALSE, FALSE) EXCEPT !.signature[1].positional = FALSE]}

ModuleOf(d) == [tasks |-> <<d>>, raises |-> FALSE]
ModuleTexts ==
  {ModuleOf(d) : d \in ValidTasks \cup WrongTasks \cup WrongSignatures}
    \cup {[tasks |-> <<>>, raises |-> FALSE], [tasks |-> <<Free("a", "Plain")>>, raises |-> TRUE],
          [tasks |-> <<Free("a", "Plain"), Free("b", "Plain")>>, raises |-> FALSE]}

\* Environments
Empty == [v \in Variables |-> "absent"]
Conductor == ConductorUrl :> "given"
LakeFS == [v \in LakeFSVariables |-> "given"]
Metrics == MetricsEndpoint :> "given"
Instance == InstanceId :> "given"
All == Conductor @@ LakeFS @@ Metrics @@ Instance

ShellEnvironments == {
  Empty,
  (Mode :> "thread" @@ WorkerId :> "given" @@ Prefix :> "given") @@ Empty,
  (ConductorUrl :> "blank") @@ Empty}
DotenvFiles == {
  All @@ Empty,
  Conductor @@ LakeFS @@ Empty,
  Conductor @@ Metrics @@ Empty,
  (MetricsEndpoint :> "replace-me") @@ All @@ Empty,
  ("PERAGO_WORKSPACE_ROOT" :> "malformed") @@ All @@ Empty}

\* JSON values: dicts of up to two levels of dicts and lists inside, with one composite
\* item each beside texts and nulls; some texts are blank or empty.
Keys == {"x", "title", "properties"}
Atoms == {Atom("text"), Atom("null")}
Blanks == {Atom("blank"), Atom("empty")}
Flat == {Dict(f) : f \in UNION {[K -> Atoms] : K \in SUBSET Keys}}
        \cup {Dict("x" :> v @@ "title" :> w) : v, w \in Blanks \cup {Atom("text")}}
Around(inner) ==
  {Dict(k :> v @@ f) : k \in Keys, v \in inner,
                       f \in UNION {[K -> {Atom("text")}] : K \in {L \in SUBSET Keys : Cardinality(L) < 2}}}
Lists == {List(<<>>)} \cup {List(<<v>>) : v \in Flat \cup Atoms}
Second == Around(Flat \cup Lists)
JsonValues == Atoms \cup Lists \cup Flat \cup Second
              \cup Around({v \in Second : \E f \in Flat : Has(v, "x") /\ v.dict["x"] = f})
=============================================================================
