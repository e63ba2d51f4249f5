----------------------------- MODULE TaskSchema -----------------------------
(***************************************************************************)
(* The schemas of a TaskDef (taskdef.py) and the validation of payloads at *)
(* run time (execution.py).  What Pydantic makes of a model, what a JSON   *)
(* schema accepts and what a model validates are external; the passes over *)
(* the schema in between are the program's.                                *)
(*                                                                         *)
(* JSON is a dict, a list or an atom.  Of the atoms, texts are four: the   *)
(* empty one, one of white space, the word "commit" and any other; null,   *)
(* the booleans and the words of a schema stand for themselves.            *)
(***************************************************************************)
EXTENDS TaskDeclaration, Functions, SequencesExt, TLC

CONSTANTS
  WorkspaceModel,    \* WorkspaceInput, and WorkspaceOutput with the same fields
  Validated          \* Validated[m]: text fields of m with a validator that refuses
                     \* blank texts, which no schema shows

Dict(f) == [dict |-> f]
List(s) == [list |-> s]
Atom(a) == [atom |-> a]
IsDict(j) == "dict" \in DOMAIN j
IsList(j) == "list" \in DOMAIN j
Bool(b) == Atom(IF b THEN "true" ELSE "false")

Has(j, key) == IsDict(j) /\ key \in DOMAIN j.dict
Drop(j, keys) == Dict(Restrict(j.dict, DOMAIN j.dict \ keys))

\* j with each item it holds changed by Op
Each(Op(_), j) ==
  IF IsDict(j) THEN Dict([k \in DOMAIN j.dict |-> Op(j.dict[k])])
  ELSE IF IsList(j) THEN List([i \in DOMAIN j.list |-> Op(j.list[i])])
  ELSE j

StringValues == {Atom(t) : t \in {"empty", "blank", "commit", "text"}}
Blank(v) == v \in {Atom("empty"), Atom("blank")}    \* not value.strip()

NameList(names) == List(SetToSeq({Atom(n) : n \in names}))

-----------------------------------------------------------------------------
\* model_json_schema; a reference is the name of its definition

RefTo(m) == Dict("$ref" :> Atom(m))
Title == "title" :> Atom("text")
OfType(t) == "type" :> Atom(t)

FieldSchema(type) ==
  CASE type.kind = "text"     -> Dict(Title @@ OfType("string"))
    [] type.kind = "name"     -> Dict(Title @@ OfType("string") @@ "minLength" :> Atom("1"))
    [] type.kind = "literal"  -> Dict(Title @@ OfType("string") @@ "const" :> Atom("commit"))
    [] type.kind = "model"    -> RefTo(type.model)
    [] type.kind = "optional" ->
         Dict("anyOf" :> List(<<RefTo(type.model), Dict(OfType("null"))>>))
    [] type.kind = "list"     -> Dict(Title @@ OfType("array") @@ "items" :> RefTo(type.model))
    [] type.kind = "dict"     ->
         Dict(Title @@ OfType("object") @@ "additionalProperties" :> RefTo(type.model))

ModelSchema(m) ==
  LET required == {f \in DOMAIN Fields[m] : Fields[m][f].required}
  IN Dict(Title @@ OfType("object")
          @@ "properties" :> Dict([f \in DOMAIN Fields[m] |-> FieldSchema(Fields[m][f].type)])
          @@ (IF required = {} THEN <<>> ELSE "required" :> NameList(required)))

Definitions(models) == "$defs" :> Dict([k \in models |-> ModelSchema(k)])

ModelJsonSchema(m) ==
  IF Recursive(m) THEN Dict(Definitions(ModelGraph(m)) @@ "$ref" :> Atom(m))
  ELSE IF Below(m) = {} THEN ModelSchema(m)
  ELSE Dict(ModelSchema(m).dict @@ Definitions(Below(m)))

-----------------------------------------------------------------------------
\* The passes of schema_for_model

StructuralKeys == {"$defs", "additionalProperties", "properties", "required", "type"}

\* _strip_object_schema_metadata
StripObject(j) == Drop(j, DOMAIN j.dict \ StructuralKeys)

\* _strip_model_schema_metadata
StripModel(j) ==
  LET top == StripObject(j)
      strip(d) == IF Has(d, "type") /\ d.dict["type"] = Atom("object") THEN StripObject(d) ELSE d
  IN IF Has(top, "$defs")
     THEN Dict([top.dict EXCEPT !["$defs"] = Each(strip, @)]) ELSE top

RECURSIVE Inline(_, _)
Inline(defs, j) ==
  IF Has(j, "$ref")
  THEN Inline(defs, Dict(Drop(Each(LAMBDA i : Inline(defs, i), j), {"$ref"}).dict
                         @@ defs[j.dict["$ref"].atom].dict))
  ELSE Each(LAMBDA i : Inline(defs, i), j)

\* _inline_refs
InlineRefs(j) ==
  Inline(IF Has(j, "$defs") THEN j.dict["$defs"].dict ELSE <<>>, Drop(j, {"$defs"}))

\* Mutant of StripTitles: every key "title" goes, the fields of that name too.
RECURSIVE StripEveryTitle(_, _)
StripEveryTitle(j, inProperties) ==
  Each(LAMBDA i : StripEveryTitle(i, FALSE), IF IsDict(j) THEN Drop(j, {"title"}) ELSE j)

\* _strip_schema_metadata_keys: under "properties" a key is a field's name.
RECURSIVE StripTitles(_, _)
StripTitles(j, inProperties) ==
  IF IsDict(j)
  THEN LET kept == IF inProperties THEN j ELSE Drop(j, {"title"})
       IN Dict([k \in DOMAIN kept.dict |-> StripTitles(kept.dict[k], k = "properties")])
  ELSE Each(LAMBDA i : StripTitles(i, inProperties), j)

\* _set_object_schema_extra: objects with fields, not the mappings.
RECURSIVE SetExtra(_, _)
SetExtra(j, allowed) ==
  LET object == /\ Has(j, "type") /\ j.dict["type"] = Atom("object")
                /\ Has(j, "properties") /\ IsDict(j.dict["properties"])
      set == IF object THEN Dict("additionalProperties" :> Bool(allowed) @@ j.dict) ELSE j
  IN Each(LAMBDA i : SetExtra(i, allowed), set)

SchemaForModel(m, allowed) ==
  SetExtra(StripTitles(InlineRefs(StripModel(ModelJsonSchema(m))), FALSE), allowed)

-----------------------------------------------------------------------------
\* build_taskdef

ObjectSchema(properties, allowed) ==
  Dict(OfType("object") @@ "properties" :> Dict(properties)
       @@ "required" :> NameList(DOMAIN properties)
       @@ "additionalProperties" :> Bool(allowed))

WorkspaceSchema(d) ==
  IF HasWorkspace(d) THEN "workspace" :> SchemaForModel(WorkspaceModel, FALSE) ELSE <<>>

InputSchema(d) ==
  ObjectSchema(WorkspaceSchema(d) @@ "params" :> SchemaForModel(ParamsType(d), ~d.strict), TRUE)

OutputSchema(d) ==
  ObjectSchema(WorkspaceSchema(d) @@ "result" :> SchemaForModel(d.output, FALSE), FALSE)

-----------------------------------------------------------------------------
\* What a JSON schema accepts

HasType(v, t) ==
  CASE t = "object" -> IsDict(v)
    [] t = "array"  -> IsList(v)
    [] t = "string" -> v \in StringValues
    [] t = "null"   -> v = Atom("null")

RECURSIVE Accepts(_, _)
Accepts(schema, v) ==
  LET s == schema.dict
      keys == IF IsDict(v) THEN DOMAIN v.dict ELSE {}
      named == IF Has(schema, "properties") THEN DOMAIN s["properties"].dict ELSE {}
  IN /\ Has(schema, "type") => HasType(v, s["type"].atom)
     /\ Has(schema, "minLength") => v # Atom("empty")
     /\ Has(schema, "const") => v = s["const"]
     /\ \A k \in keys \cap named : Accepts(s["properties"].dict[k], v.dict[k])
     /\ Has(schema, "required") /\ IsDict(v) =>
          \A i \in DOMAIN s["required"].list : s["required"].list[i].atom \in keys
     /\ Has(schema, "additionalProperties") =>
          \A k \in keys \ named :
            IF IsDict(s["additionalProperties"]) THEN Accepts(s["additionalProperties"], v.dict[k])
            ELSE s["additionalProperties"] = Bool(TRUE)
     /\ Has(schema, "anyOf") =>
          \E i \in DOMAIN s["anyOf"].list : Accepts(s["anyOf"].list[i], v)
     /\ Has(schema, "items") /\ IsList(v) =>
          \A i \in DOMAIN v.list : Accepts(s["items"], v.list[i])

-----------------------------------------------------------------------------
\* What a model validates: model_validate(v, extra=...), which holds for nested models
\* too

\* the parts of v that are of the model a type names
Parts(type, v) ==
  CASE type.kind = "model" -> {v}
    [] type.kind = "optional" -> {v} \ {Atom("null")}
    [] type.kind = "list" -> IF IsList(v) THEN Range(v.list) ELSE {}
    [] type.kind = "dict" -> IF IsDict(v) THEN Range(v.dict) ELSE {}
    [] OTHER -> {}

HasKind(type, v) ==
  CASE type.kind = "text"    -> v \in StringValues
    [] type.kind = "name"    -> v \in StringValues \ {Atom("empty")}
    [] type.kind = "literal" -> v = Atom("commit")
    [] type.kind = "list"    -> IsList(v)
    [] type.kind = "dict"    -> IsDict(v)
    [] OTHER                 -> TRUE

\* Every field has its type, and extra ones are there only if they may be.
RECURSIVE Fits(_, _, _)
Fits(m, v, extra) ==
  /\ IsDict(v)
  /\ \A f \in DOMAIN Fields[m] :
       LET type == Fields[m][f].type
       IN IF f \in DOMAIN v.dict
          THEN /\ HasKind(type, v.dict[f])
               /\ \A p \in Parts(type, v.dict[f]) : Fits(type.model, p, extra)
          ELSE ~Fields[m][f].required
  /\ extra = "forbid" => DOMAIN v.dict \subseteq DOMAIN Fields[m]

\* A validator of m, or of a model inside, raises.
RECURSIVE Refuses(_, _)
Refuses(m, v) ==
  /\ IsDict(v)
  /\ \E f \in DOMAIN Fields[m] \cap DOMAIN v.dict :
       LET type == Fields[m][f].type
       IN \/ f \in Validated[m] /\ Blank(v.dict[f])
          \/ \E p \in Parts(type, v.dict[f]) : Refuses(type.model, p)

Validates(m, v, extra) == Fits(m, v, extra) /\ ~Refuses(m, v)

\* Mutant of ParamsExtra: params are as strict as a result.
ParamsExtraForbid(d) == "forbid"

\* _validate_params
ParamsExtra(d) == IF d.strict THEN "forbid" ELSE "ignore"

\* validators refuse the workspace or the params
InputRefused(d, input) ==
  \/ HasWorkspace(d) /\ Has(input, "workspace") /\ Refuses(WorkspaceModel, input.dict["workspace"])
  \/ Has(input, "params") /\ Refuses(ParamsType(d), input.dict["params"])

\* invoke_workspace_task_body and invoke_workspace_free_task get as far as the body
ReachesBody(d, input) ==
  /\ Has(input, "params")
  /\ HasWorkspace(d) =>
       Has(input, "workspace") /\ Validates(WorkspaceModel, input.dict["workspace"], "forbid")
  /\ Validates(ParamsType(d), input.dict["params"], ParamsExtra(d))

\* _validate_result, of a result as it is dumped; the defaults a dump adds are values
\* of their fields' types
ValidResult(d, v) == Validates(d.output, v, "forbid")

=============================================================================
