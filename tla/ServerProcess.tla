--------------------------- MODULE ServerProcess ---------------------------
(***************************************************************************)
(* One server process from its start to its end: a service of Design A     *)
(* (services/*/server.py) or a monolith node (services/monolith/node.py).  *)
(* It resolves its configuration, binds its port, serves calls on a pool   *)
(* of threads, and stops on a signal.                                      *)
(*                                                                         *)
(* A handler of the Gateway or the Coordinator calls the stores while it   *)
(* holds its thread.  In a monolith node these nested calls arrive at the  *)
(* node's own server and need a thread of the same pool.  A task is a call *)
(* <<c, 0>> or the k-th nested call of its handler, <<c, k>>.  How many a  *)
(* handler makes is left open, after a failed one too: compensations and   *)
(* best-effort calls go on.  Time passes in ticks, and a thread computes   *)
(* for less than two of them between two nested calls.                     *)
(***************************************************************************)
EXTENDS ServiceConfig, Sequences

CONSTANTS Kinds,          \* the processes: services and "monolith"
          Settings,       \* the environments they may be started in
          Calls,          \* the calls other processes make, each once
          MaxNested,      \* nested calls of one handler
          Timeout,        \* internal_rpc_timeout_ms, in ticks
          Grace           \* shutdown_grace_seconds, in ticks

ASSUME ProcessAssumption ==
  /\ Kinds \subseteq (Services \ {"worker"}) \cup {"monolith"}
  /\ Settings \subseteq Environments
  /\ IsFiniteSet(Calls)
  /\ {MaxNested, Timeout, Grace} \subseteq Nat \ {0}

Tasks == Calls \X (0..MaxNested)

VARIABLES kind, env,    \* fixed from the start
          config,       \* what was made of env
          stage,        \* of the process
          queue,        \* the executor's queue of tasks
          place,        \* task -> where it is
          long,         \* the tasks computing since before the last tick
          made,         \* call -> nested calls its handler has made
          waited,       \* call -> ticks since it made the last one
          failed,       \* call -> how a nested call failed
          outcome,      \* call -> how it ended
          stopping      \* ticks since the stop of the server began

process == <<kind, env, config, stage, stopping>>

calls == <<made, waited, failed, outcome>>

vars == <<kind, env, config, stage, queue, place, long, made, waited, failed, outcome,
          stopping>>

NoConfig == Config("none", "none", {}, 1)

\* Each process resolves its configuration its own way.
ConfigOf(k, e) ==
  CASE k = "gateway" -> GatewayConfig(e)
    [] k = "coordinator" -> CoordinatorConfig(e)
    [] k = "job" -> JobConfig(e)
    [] k = "queue" -> QueueConfig(e)
    [] k = "result" -> ResultConfig(e)
    [] k = "monolith" -> NodeConfig(e)

Handler(c) == <<c, 0>>

Last(c) == <<c, made[c]>>

\* A thread of the pool is taken by a task that computes and by a handler that
\* waits for a nested call.
Busy == {t \in Tasks : place[t] \in {"running", "waiting"}}

Idle == Cardinality(Busy) < config.threads

Waiting == {c \in Calls : place[Handler(c)] = "waiting"}

Open == {c \in Calls : place[Handler(c)] # "none" /\ outcome[c] = "none"}

HasUpstreams == kind \in {"gateway", "coordinator", "monolith"}
-----------------------------------------------------------------------------
(***************************************************************************)
(* Start: resolve the configuration, bind the port, announce readiness.    *)
(***************************************************************************)
Init ==
  /\ kind \in Kinds /\ env \in Settings
  /\ config = NoConfig
  /\ stage = "starting"
  /\ queue = <<>>
  /\ place = [t \in Tasks |-> "none"]
  /\ long = {}
  /\ made = [c \in Calls |-> 0]
  /\ waited = [c \in Calls |-> 0]
  /\ failed = [c \in Calls |-> "no"]
  /\ outcome = [c \in Calls |-> "none"]
  /\ stopping = 0

Configure ==
  /\ stage = "starting"
  /\ config' = ConfigOf(kind, env)
  /\ stage' = "configured"
  /\ UNCHANGED <<kind, env, queue, place, long, calls, stopping>>

\* The port may be taken.  The process ends with an error then.
Bind ==
  /\ stage = "configured"
  /\ stage' \in {"ready", "failed"}
  /\ UNCHANGED <<kind, env, config, queue, place, long, calls, stopping>>
-----------------------------------------------------------------------------
(***************************************************************************)
(* Calls and threads.                                                      *)
(***************************************************************************)
Serving == stage \in {"ready", "signalled"}

\* Another process calls.  A server that stops refuses.
Accept(c) ==
  /\ place[Handler(c)] = "none" /\ outcome[c] = "none"
  /\ \/ /\ Serving
        /\ place' = [place EXCEPT ![Handler(c)] = "queued"]
        /\ queue' = Append(queue, Handler(c))
        /\ UNCHANGED outcome
     \/ /\ stage = "draining"
        /\ outcome' = [outcome EXCEPT ![c] = "refused"]
        /\ UNCHANGED <<place, queue>>
  /\ UNCHANGED <<process, long, made, waited, failed>>

\* A slip TLC must notice: a thread for every task.
DispatchUnbounded ==
  /\ queue # <<>>
  /\ place' = [place EXCEPT ![Head(queue)] = "running"]
  /\ queue' = Tail(queue)
  /\ UNCHANGED <<process, long, calls>>

\* A free thread takes the first task.
Dispatch ==
  /\ queue # <<>> /\ Idle
  /\ place' = [place EXCEPT ![Head(queue)] = "running"]
  /\ queue' = Tail(queue)
  /\ UNCHANGED <<process, long, calls>>

\* The handler calls the store at address a.
CallStore(c, a) ==
  /\ HasUpstreams
  /\ place[Handler(c)] = "running" /\ made[c] < MaxNested
  /\ a \in config.upstreams
  /\ kind # "monolith" \/ Serving
  /\ LET t == <<c, made[c] + 1>> IN
       IF kind = "monolith"
         THEN /\ place' = [place EXCEPT ![Handler(c)] = "waiting", ![t] = "queued"]
              /\ queue' = Append(queue, t)
         ELSE /\ place' = [place EXCEPT ![Handler(c)] = "waiting", ![t] = "upstream"]
              /\ UNCHANGED queue
  /\ made' = [made EXCEPT ![c] = @ + 1]
  /\ waited' = [waited EXCEPT ![c] = 0]
  /\ long' = long \ {Handler(c)}
  /\ UNCHANGED <<process, failed, outcome>>

\* The node's own server does not take the nested call any more.
CallStoppedStore(c) ==
  /\ kind = "monolith" /\ stage = "draining"
  /\ place[Handler(c)] = "running" /\ made[c] < MaxNested
  /\ made' = [made EXCEPT ![c] = @ + 1]
  /\ failed' = [failed EXCEPT ![c] = "refused"]
  /\ UNCHANGED <<process, queue, place, long, waited, outcome>>

\* The handler ends.  A Gateway or Coordinator without a client for a store it
\* needs ends its calls before it makes any.
Return(c, result) ==
  /\ place[Handler(c)] = "running"
  /\ place' = [place EXCEPT ![Handler(c)] = "done"]
  /\ outcome' = [outcome EXCEPT ![c] = result]
  /\ long' = long \ {Handler(c)}
  /\ UNCHANGED <<process, queue, made, waited, failed>>

EndHandler(c) == outcome[c] = "none" /\ Return(c, "answered")

EndUnconfigured(c) ==
  /\ HasUpstreams /\ outcome[c] = "none" /\ made[c] = 0
  /\ StoreAddrs \ config.upstreams # {}
  /\ Return(c, "unconfigured")

\* The store answers.  The handler goes on if it still waits for this answer.
EndNested(t) ==
  /\ t[2] > 0 /\ place[t] \in {"running", "upstream"}
  /\ LET c == t[1] IN
       place' = IF t = Last(c) /\ c \in Waiting
                  THEN [place EXCEPT ![t] = "done", ![Handler(c)] = "running"]
                  ELSE [place EXCEPT ![t] = "done"]
  /\ long' = long \ {t}
  /\ UNCHANGED <<process, queue, calls>>

\* A slip TLC must notice: the store is called without a timeout.
GiveUpNever(c) == FALSE /\ UNCHANGED <<vars, c>>

\* A slip TLC must notice: the timeout is too short for a call in the queue.
GiveUpEarly(c) ==
  /\ c \in Waiting /\ waited[c] = 1
  /\ place' = [place EXCEPT ![Handler(c)] = "running"]
  /\ failed' = [failed EXCEPT ![c] = "timeout"]
  /\ UNCHANGED <<process, queue, long, made, waited, outcome>>

\* The nested call's time is up.  The handler goes on, and the task it no
\* longer waits for stays where it is.
GiveUp(c) ==
  /\ c \in Waiting /\ waited[c] = Timeout
  /\ place' = [place EXCEPT ![Handler(c)] = "running"]
  /\ failed' = [failed EXCEPT ![c] = "timeout"]
  /\ UNCHANGED <<process, queue, long, made, waited, outcome>>
-----------------------------------------------------------------------------
(***************************************************************************)
(* Stop.  A monolith node first waits for its worker, while it still       *)
(* serves; then the server refuses new calls and lets the open ones end    *)
(* within the grace.                                                       *)
(***************************************************************************)
Signal ==
  /\ stage = "ready"
  /\ stage' = "signalled"
  /\ UNCHANGED <<kind, env, config, queue, place, long, calls, stopping>>

StopServer ==
  /\ stage = "signalled"
  /\ stage' = "draining"
  /\ UNCHANGED <<kind, env, config, queue, place, long, calls, stopping>>

\* A slip TLC must notice: the calls in hand are given no time.
EndProcessAtOnce ==
  /\ stage = "draining"
  /\ stage' = "stopped"
  /\ outcome' = [c \in Calls |-> IF c \in Open THEN "aborted" ELSE outcome[c]]
  /\ UNCHANGED <<kind, env, config, stopping, queue, place, long, made, waited, failed>>

\* All calls have ended, or the grace has and the open ones are aborted.
EndProcess ==
  /\ stage = "draining"
  /\ Open = {} \/ stopping = Grace
  /\ stage' = "stopped"
  /\ outcome' = [c \in Calls |-> IF c \in Open THEN "aborted" ELSE outcome[c]]
  /\ UNCHANGED <<kind, env, config, stopping, queue, place, long, made, waited, failed>>

\* Time passes once no thread has computed for a whole tick, no task is left
\* beside an idle thread, and no timeout is due.
Tick ==
  /\ Serving \/ (stage = "draining" /\ stopping < Grace)
  /\ long = {}
  /\ ~ (queue # <<>> /\ Idle)
  /\ \A c \in Waiting : waited[c] < Timeout
  /\ long' = {t \in Tasks : place[t] = "running"}
  /\ waited' = [c \in Calls |-> IF c \in Waiting THEN waited[c] + 1 ELSE waited[c]]
  /\ stopping' = IF stage = "draining" THEN stopping + 1 ELSE stopping
  /\ UNCHANGED <<kind, env, config, stage, queue, place, made, failed, outcome>>

Step(c) ==
  \/ CallStoppedStore(c) \/ EndHandler(c) \/ EndUnconfigured(c)
  \/ \E a \in StoreAddrs : CallStore(c, a)

Next ==
  \/ Configure \/ Bind \/ Dispatch \/ Signal \/ StopServer \/ EndProcess \/ Tick
  \/ \E c \in Calls : Accept(c) \/ Step(c) \/ GiveUp(c)
  \/ \E t \in Tasks : EndNested(t)

Spec == Init /\ [][Next]_vars

(***************************************************************************)
(* A store at another address need not answer, and nobody need call or     *)
(* signal; threads, timers and the stopping process go on.                 *)
(***************************************************************************)
Fairness ==
  /\ WF_vars(Dispatch) /\ WF_vars(Tick) /\ WF_vars(StopServer) /\ WF_vars(EndProcess)
  /\ \A c \in Calls : WF_vars(Step(c)) /\ WF_vars(GiveUp(c))
  /\ \A t \in Tasks : WF_vars(place[t] = "running" /\ EndNested(t))

FairSpec == Spec /\ Fairness
-----------------------------------------------------------------------------
(***************************************************************************)
(* Properties.                                                             *)
(***************************************************************************)
\* The variables keep their types, and no more threads are taken than the pool
\* of server.py or node.py has.
TypeOK ==
  /\ kind \in Kinds /\ env \in Settings
  /\ stage \in {"starting", "configured", "ready", "signalled", "draining", "stopped",
                "failed"}
  /\ queue \in Seq(Tasks)
  /\ place \in [Tasks -> {"none", "queued", "upstream", "running", "waiting", "done"}]
  /\ long \subseteq Tasks
  /\ made \in [Calls -> 0..MaxNested]
  /\ waited \in [Calls -> 0..Timeout]
  /\ failed \in [Calls -> {"no", "timeout", "refused"}]
  /\ outcome \in [Calls -> {"none", "answered", "unconfigured", "refused", "aborted"}]
  /\ stopping \in 0..Grace
  /\ config.threads \in Nat \ {0} /\ Cardinality(Busy) <= config.threads

\* The nested calls of a monolith node that has more threads than calls in hand
\* are answered in time, whatever the order in which handlers and nested calls
\* share the pool.  With as many calls as threads every handler can wait for a
\* thread that no handler gives back until its timeout.
LoopbackCallsAreInTime ==
  kind = "monolith" /\ config.threads > Cardinality(Calls)
    => \A c \in Calls : failed[c] # "timeout"

Unusable(v) ==
  \/ env.vars[v] \in {"malformed", "out_of_range"}
  \/ env.vars[v] = "unset" /\ v \in ServiceVars[kind].required

UsableEnvironment ==
  \A v \in ServiceVars[kind].required \cup ServiceVars[kind].optional : ~ Unusable(v)

\* Although each server.py swallows the error that load_service_config raises: a
\* service whose environment is usable listens at its own port; it turns its
\* callers away as unconfigured only if something in its environment is
\* unusable; and it calls a store only if every address its configuration
\* requires is given.
UpstreamsFollowTheEnvironment ==
  kind # "monolith" =>
    /\ stage # "starting" /\ UsableEnvironment
         => /\ config.of = kind
            /\ config.port = "given" <=> env.vars[PortVar[kind]] = "valid"
    /\ \A c \in Calls :
      /\ outcome[c] = "unconfigured" => ~ UsableEnvironment
      /\ made[c] > 0 => \A a \in StoreAddrs : env.vars[a] = "valid"

\* A call that a server has accepted ends, also where all threads of a monolith
\* node wait for each other; and a store, whose handlers call nobody, answers
\* it, also if the process is told to stop meanwhile.
AcceptedCallsEnd ==
  \A c \in Calls :
    c \in Open ~> IF HasUpstreams THEN outcome[c] # "none" ELSE outcome[c] = "answered"
=============================================================================
