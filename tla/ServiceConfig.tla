--------------------------- MODULE ServiceConfig ---------------------------
(***************************************************************************)
(* How a process finds its configuration: common/config.py parses the      *)
(* environment and collects every error; a service's server.py tries that  *)
(* three times and falls back to defaults of its own; a monolith node      *)
(* reads each variable by itself and replaces what it cannot use.          *)
(*                                                                         *)
(* A variable's value is abstracted to what the parsers tell apart; an     *)
(* empty string counts as unset.  HOST and WORKER_ID accept any string.    *)
(***************************************************************************)
EXTENDS Integers, FiniteSets

CONSTANTS DefaultThreads,    \* GRPC_MAX_WORKERS where it is not set,
          FallbackThreads,   \* in a service's fallback configuration,
          NodeThreads,       \* and at a monolith node
          GivenThreads       \* the size that a valid GRPC_MAX_WORKERS gives

ASSUME ThreadsAssumption ==
  {DefaultThreads, FallbackThreads, NodeThreads, GivenThreads} \subseteq Nat \ {0}

Values == {"unset", "valid", "malformed", "out_of_range"}

StoreAddrs == {"JOB_SERVICE_ADDR", "QUEUE_SERVICE_ADDR", "RESULT_SERVICE_ADDR"}

\* The variables a service must be given, and those that have a default.
Vars(required, optional) ==
  [required |-> required,
   optional |-> optional \cup {"LOG_LEVEL", "GRPC_MAX_WORKERS"}]

GatewayVars == Vars(StoreAddrs, {"GATEWAY_PORT", "INTERNAL_RPC_TIMEOUT_MS"})

CoordinatorVars ==
  Vars(StoreAddrs, {"COORDINATOR_PORT", "HEARTBEAT_INTERVAL_MS", "WORKER_TIMEOUT_MS",
                    "INTERNAL_RPC_TIMEOUT_MS"})

JobVars == Vars({}, {"JOB_PORT", "MAX_DEDUP_KEYS"})

QueueVars == Vars({}, {"QUEUE_PORT"})

ResultVars == Vars({}, {"RESULT_PORT", "MAX_OUTPUT_BYTES"})

WorkerVars ==
  Vars({"COORDINATOR_ADDR"},
       {"HEARTBEAT_INTERVAL_MS", "FETCH_IDLE_SLEEP_MS", "INTERNAL_RPC_TIMEOUT_MS",
        "FETCH_WORK_RPC_TIMEOUT_MS", "WORKER_HEARTBEAT_RPC_TIMEOUT_MS",
        "REPORT_RETRY_INITIAL_DELAY_MS", "REPORT_RETRY_MULTIPLIER",
        "REPORT_RETRY_MAX_DELAY_MS", "REPORT_RETRY_MAX_ATTEMPTS"})

ServiceVars == [gateway |-> GatewayVars, coordinator |-> CoordinatorVars, job |-> JobVars,
                queue |-> QueueVars, result |-> ResultVars, worker |-> WorkerVars]

Services == DOMAIN ServiceVars

Variables == UNION {ServiceVars[s].required \cup ServiceVars[s].optional : s \in Services}

\* An environment gives each variable a value, and SERVICE_NAME one of the
\* services or none it could load.
Environments == [vars : [Variables -> Values], service_name : Services \cup {"none"}]
-----------------------------------------------------------------------------
MissingOrInvalid(env, required) == {v \in required : env.vars[v] # "valid"}

Invalid(env, optional) == {v \in optional : env.vars[v] \in {"malformed", "out_of_range"}}

\* A slip TLC must notice: an address is validated only where one is given.
ErrorsOfGiven(s, env) ==
  Invalid(env, ServiceVars[s].required) \cup Invalid(env, ServiceVars[s].optional)

\* What load_service_config collects before it raises a ConfigError.
Errors(s, env) ==
  MissingOrInvalid(env, ServiceVars[s].required) \cup Invalid(env, ServiceVars[s].optional)

Loads(s, env) == Errors(s, env) = {}

Threads(env, default) ==
  IF env.vars["GRPC_MAX_WORKERS"] = "valid" THEN GivenThreads ELSE default

\* A configuration is that of a service, with its port, the stores it has
\* addresses of, and its number of threads.
Config(of, port, upstreams, threads) ==
  [of |-> of, port |-> port, upstreams |-> upstreams, threads |-> threads]

PortVar == [gateway |-> "GATEWAY_PORT", coordinator |-> "COORDINATOR_PORT",
            job |-> "JOB_PORT", queue |-> "QUEUE_PORT", result |-> "RESULT_PORT"]

\* A worker listens to nobody and has port 0, which a server takes for any port.
Port(s, env) ==
  IF s \notin DOMAIN PortVar THEN "ephemeral"
  ELSE IF env.vars[PortVar[s]] = "valid" THEN "given" ELSE "default"

Parsed(s, env) ==
  Config(s, Port(s, env), {v \in ServiceVars[s].required : env.vars[v] = "valid"},
         Threads(env, DefaultThreads))

\* The fallback of a service knows no store and no variable, also where some
\* are valid.
Fallback(s) == Config(s, "default", {}, FallbackThreads)

\* What a service runs with: its own configuration, else the one of the service
\* SERVICE_NAME names, else a fallback.
Resolve(s, env, fallback) ==
  IF Loads(s, env) THEN Parsed(s, env)
  ELSE IF env.service_name \in Services /\ Loads(env.service_name, env)
    THEN Parsed(env.service_name, env)
  ELSE fallback

GatewayConfig(env) == Resolve("gateway", env, Fallback("gateway"))

CoordinatorConfig(env) == Resolve("coordinator", env, Fallback("coordinator"))

JobConfig(env) == Resolve("job", env, Fallback("job"))

QueueConfig(env) == Resolve("queue", env, Fallback("queue"))

ResultConfig(env) == Resolve("result", env, Fallback("result"))

\* A monolith node's services find their stores at the node's own address.  A
\* number that is no number is replaced by the default, one that is too small
\* by the smallest.
NodeConfig(env) ==
  Config("monolith", "own", StoreAddrs,
         IF env.vars["GRPC_MAX_WORKERS"] = "out_of_range" THEN 1
                                                          ELSE Threads(env, NodeThreads))
=============================================================================
