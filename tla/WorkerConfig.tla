---------------------------- MODULE WorkerConfig ----------------------------
(***************************************************************************)
(* load_runtime_config and the environments of child processes (config.py).*)
(*                                                                         *)
(* An environment gives each variable a text.  What a parser makes of a    *)
(* text decides its class: "absent"; "blank"; "replace-me"; "malformed",   *)
(* which the variable's parser rejects (for a root: a directory that is    *)
(* not writable); "given", which it accepts; and for the execution mode    *)
(* the two modes.  The module target has an ASCII letter or digit, so that *)
(* a prefix can be derived from it.  A blank PERAGO_WORKER_ID is an empty  *)
(* one.                                                                    *)
(***************************************************************************)
EXTENDS Naturals

CONSTANT NoConfig     \* RuntimeConfigError instead of a RuntimeConfig

Texts == {"absent", "blank", "replace-me", "malformed", "given", "process", "thread"}

Roots == {"PERAGO_WORKSPACE_ROOT", "PERAGO_LOG_ROOT"}
\* sizes, durations and counts: unset or blank means the default
Quantities == {"PERAGO_LOG_FILE_MAX_SIZE", "PERAGO_LOG_RETENTION", "PERAGO_WORKSPACE_GC_TTL",
               "PERAGO_WORKSPACE_GC_INTERVAL", "PERAGO_SHUTDOWN_FORCE_KILL_AFTER",
               "PERAGO_FAILURE_REASON_MAX_LENGTH"}
Prefix == "PERAGO_WORKER_ID_PREFIX"
Mode == "PERAGO_EXECUTION_MODE"
WorkerId == "PERAGO_WORKER_ID"
ConductorUrl == "CONDUCTOR_SERVER_URL"
LakeFSVariables == {"LAKECTL_SERVER_ENDPOINT_URL", "LAKECTL_CREDENTIALS_ACCESS_KEY_ID",
                    "LAKECTL_CREDENTIALS_SECRET_ACCESS_KEY"}
UnsupportedMetrics == {"OTEL_EXPORTER_OTLP_METRICS_HEADERS", "OTEL_SERVICE_NAME",
                       "OTEL_RESOURCE_ATTRIBUTES", "OTEL_EXPORTER_OTLP_ENDPOINT"}
MetricsEndpoint == "OTEL_EXPORTER_OTLP_METRICS_ENDPOINT"
InstanceId == "PERAGO_INSTANCE_ID"
MetricsSettings == {InstanceId, "OTEL_EXPORTER_OTLP_METRICS_COMPRESSION",
                    "OTEL_EXPORTER_OTLP_METRICS_TIMEOUT", "OTEL_METRIC_EXPORT_INTERVAL"}

Variables == Roots \cup Quantities \cup {Prefix, Mode, WorkerId, ConductorUrl, MetricsEndpoint}
             \cup LakeFSVariables \cup UnsupportedMetrics \cup MetricsSettings

Environments == [Variables -> Texts]

-----------------------------------------------------------------------------
\* load_runtime_env: what .env says counts where the process has no variable at all,
\* so that an empty one in the process hides it.
LoadRuntimeEnv(process, dotenv) ==
  [v \in Variables |-> IF process[v] # "absent" THEN process[v] ELSE dotenv[v]]

Unset(text) == text \in {"absent", "blank"}

\* Parsers with a default, and the prefix, whose default is for an absent one only
ParsesOrDefault(text) == Unset(text) \/ text = "given"
ParsesMode(text) == Unset(text) \/ text \in {"process", "thread"}
ParsesPrefix(text) == text \in {"absent", "given"}

\* _env_optional: connection settings
Placeholder(env, names) == \E v \in names : env[v] = "replace-me"
Configured(env, v) == ~Unset(env[v])

ValidLakeFS(env) ==
  /\ ~Placeholder(env, LakeFSVariables)
  /\ \A v, w \in LakeFSVariables : Configured(env, v) <=> Configured(env, w)

\* The other settings are parsed only if there is an endpoint.
ValidMetrics(env) ==
  /\ \A v \in UnsupportedMetrics : ~Configured(env, v)
  /\ ~Placeholder(env, {MetricsEndpoint})
  /\ Configured(env, MetricsEndpoint) => \A v \in MetricsSettings : ParsesOrDefault(env[v])

ValidEnvironment(env) ==
  /\ \A v \in Quantities : ParsesOrDefault(env[v])
  /\ ParsesPrefix(env[Prefix])
  /\ ParsesMode(env[Mode])
  /\ ~Placeholder(env, {ConductorUrl})
  /\ ValidLakeFS(env)
  /\ ValidMetrics(env)
  /\ \A v \in Roots : env[v] # "malformed"          \* check_writable_root

\* The parts of the RuntimeConfig that starting depends on
LoadRuntimeConfig(process, dotenv) ==
  LET env == LoadRuntimeEnv(process, dotenv)
  IN IF ~ValidEnvironment(env) THEN NoConfig
     ELSE [prefix |-> IF env[Prefix] = "given" THEN "configured" ELSE "derived",
           mode |-> IF env[Mode] = "thread" THEN "thread" ELSE "process",
           conductor |-> Configured(env, ConductorUrl),
           lakefs |-> \A v \in LakeFSVariables : Configured(env, v),
           metrics |-> Configured(env, MetricsEndpoint),
           instance |-> Configured(env, MetricsEndpoint) /\ Configured(env, InstanceId)]

-----------------------------------------------------------------------------
\* Worker ids: a prefix and a slot, 0 for the broker's.  An id that the process has
\* from its own environment and one made from its pid have a prefix of their own.

BrokerSlot == 0
NoId == <<"none", 0>>
OwnId(process) == IF Unset(process[WorkerId]) THEN NoId ELSE <<"own", 0>>

\* child_environment of one slot, _broker_environment
ChildEnvironment(config, slot) == [prefix |-> config.prefix, id |-> <<config.prefix, slot>>]

\* worker_child_specs: the id of each slot, by which the supervisor keeps its queues
ChildSpecs(config, slots) == [s \in slots |-> ChildEnvironment(config, s)]

\* os.environ.update(child_env), then resolve_worker_id
ResolveWorkerId(own, child) ==
  IF child.id # NoId THEN child.id
  ELSE IF own # NoId THEN own ELSE <<"pid", 0>>
=============================================================================
