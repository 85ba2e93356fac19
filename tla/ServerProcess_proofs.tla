------------------------ MODULE ServerProcess_proofs ------------------------
(***************************************************************************)
(* Proofs about one server process, for any environments, calls, sizes of  *)
(* the pool and durations: its types and the bound of its pool, what its   *)
(* callers notice of a bad environment, and that the nested calls of a     *)
(* monolith node end before their timeout.                                 *)
(***************************************************************************)
EXTENDS ServerProcess, FiniteSetTheorems, SequenceTheorems, TLAPS

\* Before the port is bound nothing was accepted.
Early == stage \in {"starting", "configured"}

NothingYet ==
  /\ queue = <<>> /\ long = {}
  /\ \A t \in Tasks : place[t] = "none"
  /\ \A c \in Calls : made[c] = 0 /\ failed[c] = "no" /\ outcome[c] = "none"

Refused == HasUpstreams /\ StoreAddrs \ config.upstreams # {}

ProcessInv ==
  /\ TypeOK
  /\ config = IF stage = "starting" THEN NoConfig ELSE ConfigOf(kind, env)
  /\ Early => NothingYet
  /\ \A c \in Calls :
    /\ outcome[c] = "unconfigured" => Refused
    /\ made[c] > 0 /\ kind # "monolith"
         => HasUpstreams /\ config.upstreams \cap StoreAddrs # {}

LEMMA TasksAreFinite ==
  /\ IsFiniteSet(Tasks)
  /\ \A c \in Calls : Handler(c) \in Tasks
  /\ \A c \in Calls : \A k \in 0..MaxNested : <<c, k>> \in Tasks
<1>1. MaxNested \in Nat /\ IsFiniteSet(Calls)
  BY ProcessAssumption
<1>2. IsFiniteSet(0..MaxNested)
  BY <1>1, FS_Interval
<1> QED BY <1>1, <1>2, FS_Product DEF Tasks, Handler

\* The threads of a pool are counted by what is taken from it.
LEMMA FewerAreBusy ==
  ASSUME TypeOK, UNCHANGED config, Busy' \subseteq Busy
  PROVE  config'.threads \in Nat \ {0} /\ Cardinality(Busy') <= config'.threads
<1>1. IsFiniteSet(Busy)
  <2>1. Busy \in SUBSET Tasks
    BY DEF Busy
  <2> QED BY <2>1, TasksAreFinite, FS_Subset
<1>2. Busy' \in SUBSET Busy
  OBVIOUS
<1>3. IsFiniteSet(Busy') /\ Cardinality(Busy') <= Cardinality(Busy)
  BY <1>1, <1>2, FS_Subset
<1>4. Cardinality(Busy) \in Nat /\ Cardinality(Busy') \in Nat
  BY <1>1, <1>3, FS_CardinalityType
<1> QED BY <1>3, <1>4 DEF TypeOK

LEMMA OneMoreIsBusy ==
  ASSUME TypeOK, UNCHANGED config, Idle, NEW t \in Tasks, Busy' \subseteq Busy \cup {t}
  PROVE  config'.threads \in Nat \ {0} /\ Cardinality(Busy') <= config'.threads
<1>1. IsFiniteSet(Busy)
  <2>1. Busy \in SUBSET Tasks
    BY DEF Busy
  <2> QED BY <2>1, TasksAreFinite, FS_Subset
<1>2. IsFiniteSet(Busy \cup {t}) /\ Cardinality(Busy \cup {t}) <= Cardinality(Busy) + 1
  <2>1. Cardinality(Busy) \in Nat
    BY <1>1, FS_CardinalityType
  <2> QED BY <1>1, <2>1, FS_AddElement
<1>3. Busy' \in SUBSET (Busy \cup {t})
  OBVIOUS
<1>4. IsFiniteSet(Busy') /\ Cardinality(Busy') <= Cardinality(Busy \cup {t})
  BY <1>2, <1>3, FS_Subset
<1>5. /\ Cardinality(Busy) \in Nat /\ Cardinality(Busy') \in Nat
      /\ Cardinality(Busy \cup {t}) \in Nat
  BY <1>1, <1>2, <1>4, FS_CardinalityType
<1> QED BY <1>2, <1>4, <1>5 DEF TypeOK, Idle
-----------------------------------------------------------------------------
(***************************************************************************)
(* Configurations.                                                         *)
(***************************************************************************)
LEMMA ThreadsArePositive ==
  /\ \A e : \A default \in {DefaultThreads, NodeThreads} : Threads(e, default) \in Nat \ {0}
  /\ NoConfig.threads \in Nat \ {0}
  /\ \A k \in Kinds : \A e : ConfigOf(k, e).threads \in Nat \ {0}
<1>1. \A e : \A default \in {DefaultThreads, NodeThreads} : Threads(e, default) \in Nat \ {0}
  BY ThreadsAssumption DEF Threads
<1>2. NoConfig.threads \in Nat \ {0}
  BY DEF NoConfig, Config
<1>3. ASSUME NEW s, NEW e
      PROVE  Resolve(s, e, Fallback(s)).threads \in Nat \ {0}
  BY <1>1, ThreadsAssumption DEF Resolve, Parsed, Fallback, Config
<1>4. ASSUME NEW e
      PROVE  NodeConfig(e).threads \in Nat \ {0}
  BY <1>1 DEF NodeConfig, Config
<1>5. ASSUME NEW k \in Kinds, NEW e
      PROVE  ConfigOf(k, e).threads \in Nat \ {0}
  <2>1. k \in {"gateway", "coordinator", "job", "queue", "result", "monolith"}
    BY ProcessAssumption DEF Services, ServiceVars
  <2> QED BY <1>3, <1>4, <2>1 DEF ConfigOf, GatewayConfig, CoordinatorConfig, JobConfig,
                                  QueueConfig, ResultConfig
<1> QED BY <1>1, <1>2, <1>5
-----------------------------------------------------------------------------
LEMMA ProcessInvHoldsAtFirst == Init => ProcessInv
<1> SUFFICES ASSUME Init PROVE ProcessInv
  OBVIOUS
<1>1. Busy = {}
  BY DEF Init, Busy
<1>2. Cardinality(Busy) = 0
  BY <1>1, FS_EmptySet
<1>3. NoConfig.threads \in Nat \ {0}
  BY ThreadsArePositive
<1>4. {MaxNested, Timeout, Grace} \subseteq Nat \ {0}
  BY ProcessAssumption
<1>5. TypeOK
  BY <1>2, <1>3, <1>4 DEF Init, TypeOK
<1> QED BY <1>5 DEF Init, ProcessInv, Early, NothingYet

LEMMA ConfigureKeepsInv ==
  ASSUME ProcessInv, Configure
  PROVE  ProcessInv'
<1>1. NothingYet
  BY DEF ProcessInv, Configure, Early
<1>2. Busy' = {}
  BY <1>1 DEF Configure, Busy, NothingYet
<1>3. Cardinality(Busy') = 0
  BY <1>2, FS_EmptySet
<1>4. config'.threads \in Nat \ {0}
  BY ThreadsArePositive DEF Configure, ProcessInv, TypeOK
<1>5. TypeOK'
  BY <1>3, <1>4 DEF ProcessInv, Configure, TypeOK, calls
<1>6. NothingYet'
  BY <1>1 DEF Configure, NothingYet, calls
<1> QED BY <1>1, <1>5, <1>6 DEF ProcessInv, Configure, NothingYet, calls

\* Steps of the process that take no thread, and steps of calls that leave the
\* process alone, keep the invariant with the types of what they change.
LEMMA StageKeepsInv ==
  ASSUME ProcessInv, Bind \/ Signal \/ StopServer
  PROVE  ProcessInv'
<1>1. UNCHANGED <<kind, env, config, queue, place, long, made, waited, failed, outcome, stopping>>
  BY DEF Bind, Signal, StopServer, calls
<1>2. /\ stage' \in {"ready", "signalled", "draining", "failed"}
      /\ stage # "starting"
  BY DEF Bind, Signal, StopServer
<1>3. Busy' = Busy
  BY <1>1 DEF Busy
<1>4. config'.threads \in Nat \ {0} /\ Cardinality(Busy') <= config'.threads
  BY <1>1, <1>3, FewerAreBusy DEF ProcessInv
<1>5. TypeOK'
  BY <1>1, <1>2, <1>4 DEF ProcessInv, TypeOK
<1> QED BY <1>1, <1>2, <1>5 DEF ProcessInv, Early, Refused, HasUpstreams

LEMMA EndProcessKeepsInv ==
  ASSUME ProcessInv, EndProcess
  PROVE  ProcessInv'
<1>1. /\ UNCHANGED <<kind, env, config, queue, place, long, made, waited, failed, stopping>>
      /\ stage = "draining" /\ stage' = "stopped"
      /\ outcome' = [c \in Calls |-> IF c \in Open THEN "aborted" ELSE outcome[c]]
  BY DEF EndProcess
<1>2. Busy' = Busy
  BY <1>1 DEF Busy
<1>3. config'.threads \in Nat \ {0} /\ Cardinality(Busy') <= config'.threads
  BY <1>1, <1>2, FewerAreBusy DEF ProcessInv
<1>4. TypeOK'
  BY <1>1, <1>3 DEF ProcessInv, TypeOK
<1>5. \A c \in Calls : outcome'[c] = "unconfigured" => outcome[c] = "unconfigured"
  BY <1>1
<1> QED BY <1>1, <1>4, <1>5 DEF ProcessInv, Early, Refused, HasUpstreams

LEMMA TickKeepsInv ==
  ASSUME ProcessInv, Tick
  PROVE  ProcessInv'
<1>1. /\ UNCHANGED <<kind, env, config, stage, queue, place, made, failed, outcome>>
      /\ ~ Early
  BY DEF Tick, Serving, Early
<1>2. Busy' = Busy
  BY <1>1 DEF Busy
<1>3. config'.threads \in Nat \ {0} /\ Cardinality(Busy') <= config'.threads
  BY <1>1, <1>2, FewerAreBusy DEF ProcessInv
<1>4. {MaxNested, Timeout, Grace} \subseteq Nat \ {0}
  BY ProcessAssumption
<1>5. waited' \in [Calls -> 0..Timeout]
  <2>1. ASSUME NEW c \in Calls
        PROVE  (IF c \in Waiting THEN waited[c] + 1 ELSE waited[c]) \in 0..Timeout
    BY <1>4 DEF ProcessInv, TypeOK, Tick
  <2> QED BY <2>1 DEF Tick
<1>6. stopping' \in 0..Grace /\ long' \subseteq Tasks
  BY <1>4 DEF ProcessInv, TypeOK, Tick, Serving
<1>7. TypeOK'
  BY <1>1, <1>3, <1>5, <1>6 DEF ProcessInv, TypeOK
<1> QED BY <1>1, <1>7 DEF ProcessInv, Early, Refused, HasUpstreams
\* A step of a call that keeps to types, takes no thread, and makes neither a
\* call nor an end without a configuration for it.
LEMMA CallStepKeepsInv ==
  ASSUME ProcessInv, ~ Early, UNCHANGED process,
         queue' \in Seq(Tasks),
         place' \in [Tasks -> {"none", "queued", "upstream", "running", "waiting", "done"}],
         Busy' \subseteq Busy, long' \subseteq long,
         made' \in [Calls -> 0..MaxNested], waited' \in [Calls -> 0..Timeout],
         failed' \in [Calls -> {"no", "timeout", "refused"}],
         outcome' \in [Calls -> {"none", "answered", "unconfigured", "refused", "aborted"}],
         \A c \in Calls :
           /\ outcome'[c] = "unconfigured" => outcome[c] = "unconfigured" \/ Refused
           /\ made'[c] > 0 /\ kind # "monolith"
                => made[c] > 0 \/ (HasUpstreams /\ config.upstreams \cap StoreAddrs # {})
  PROVE  ProcessInv'
<1>1. UNCHANGED <<kind, env, config, stage, stopping>>
  BY DEF process
<1>2. config'.threads \in Nat \ {0} /\ Cardinality(Busy') <= config'.threads
  BY <1>1, FewerAreBusy DEF ProcessInv
<1>3. TypeOK'
  BY <1>1, <1>2 DEF ProcessInv, TypeOK
<1>4. ASSUME NEW c \in Calls
      PROVE  /\ outcome'[c] = "unconfigured" => Refused'
             /\ made'[c] > 0 /\ kind' # "monolith"
                  => HasUpstreams' /\ config'.upstreams \cap StoreAddrs # {}
  <2>1. (Refused <=> Refused') /\ (HasUpstreams <=> HasUpstreams')
    BY <1>1 DEF Refused, HasUpstreams
  <2>2. /\ outcome[c] = "unconfigured" => Refused
        /\ made[c] > 0 /\ kind # "monolith"
             => HasUpstreams /\ config.upstreams \cap StoreAddrs # {}
    BY DEF ProcessInv
  <2> QED BY <1>1, <2>1, <2>2
<1>5. config' = IF stage' = "starting" THEN NoConfig ELSE ConfigOf(kind', env')
  BY <1>1 DEF ProcessInv
<1>6. ~ Early'
  BY <1>1 DEF Early
<1> QED BY <1>3, <1>4, <1>5, <1>6 DEF ProcessInv

\* Nothing moves before the port is bound.
LEMMA PlacedIsNotEarly ==
  ASSUME ProcessInv, NEW t \in Tasks, place[t] # "none"
  PROVE  ~ Early
BY DEF ProcessInv, NothingYet

LEMMA AcceptKeepsInv ==
  ASSUME ProcessInv, NEW c \in Calls, Accept(c)
  PROVE  ProcessInv'
<1>1. Handler(c) \in Tasks
  BY TasksAreFinite
<1>2. ~ Early /\ UNCHANGED <<process, long, made, waited, failed>>
  BY DEF Accept, Serving, Early
<1>3. CASE Serving
  <2>1. /\ place' = [place EXCEPT ![Handler(c)] = "queued"]
        /\ queue' = Append(queue, Handler(c))
        /\ UNCHANGED outcome
    BY <1>3 DEF Accept, Serving
  <2>2. queue' \in Seq(Tasks)
    BY <1>1, <2>1 DEF ProcessInv, TypeOK
  <2>3. place' \in [Tasks -> {"none", "queued", "upstream", "running", "waiting", "done"}]
    BY <2>1 DEF ProcessInv, TypeOK
  <2>4. Busy' \subseteq Busy
    BY <1>1, <2>1 DEF Busy, ProcessInv, TypeOK
  <2> QED BY <1>2, <2>1, <2>2, <2>3, <2>4, CallStepKeepsInv DEF ProcessInv, TypeOK
<1>4. CASE ~ Serving
  <2>1. /\ outcome' = [outcome EXCEPT ![c] = "refused"]
        /\ UNCHANGED <<place, queue>>
    BY <1>4 DEF Accept
  <2>2. Busy' \subseteq Busy
    BY <2>1 DEF Busy
  <2>3. /\ outcome' \in [Calls -> {"none", "answered", "unconfigured", "refused", "aborted"}]
        /\ \A d \in Calls : outcome'[d] = "unconfigured" => outcome[d] = "unconfigured"
    BY <2>1 DEF ProcessInv, TypeOK
  <2> QED BY <1>2, <2>1, <2>2, <2>3, CallStepKeepsInv DEF ProcessInv, TypeOK
<1> QED BY <1>3, <1>4

LEMMA DispatchKeepsInv ==
  ASSUME ProcessInv, Dispatch
  PROVE  ProcessInv'
<1>1. Head(queue) \in Tasks /\ Tail(queue) \in Seq(Tasks)
  BY DEF Dispatch, ProcessInv, TypeOK
<1>2. /\ ~ Early
      /\ UNCHANGED <<kind, env, config, stage, stopping, long, made, waited, failed, outcome>>
      /\ place' = [place EXCEPT ![Head(queue)] = "running"]
      /\ queue' = Tail(queue)
  BY DEF Dispatch, ProcessInv, NothingYet, process, calls
<1>3. Busy' \subseteq Busy \cup {Head(queue)}
  BY <1>1, <1>2 DEF Busy, ProcessInv, TypeOK
<1>4. config'.threads \in Nat \ {0} /\ Cardinality(Busy') <= config'.threads
  BY <1>1, <1>2, <1>3, OneMoreIsBusy DEF ProcessInv, Dispatch
<1>5. TypeOK'
  BY <1>1, <1>2, <1>4 DEF ProcessInv, TypeOK
<1> QED BY <1>2, <1>5 DEF ProcessInv, Early, Refused, HasUpstreams

LEMMA CallStoreKeepsInv ==
  ASSUME ProcessInv, NEW c \in Calls, NEW a \in StoreAddrs, CallStore(c, a)
  PROVE  ProcessInv'
<1>1. /\ Handler(c) \in Tasks
      /\ made[c] + 1 \in 0..MaxNested
      /\ <<c, made[c] + 1>> \in Tasks
  <2>1. made[c] \in 0..MaxNested /\ made[c] < MaxNested /\ MaxNested \in Nat
    BY ProcessAssumption DEF CallStore, ProcessInv, TypeOK
  <2> QED BY <2>1, TasksAreFinite
<1>2. ~ Early
  BY <1>1, PlacedIsNotEarly DEF CallStore
<1>3. PICK where \in {"queued", "upstream"} :
        /\ place' = [place EXCEPT ![Handler(c)] = "waiting", ![<<c, made[c] + 1>>] = where]
        /\ queue' \in {queue, Append(queue, <<c, made[c] + 1>>)}
  BY DEF CallStore
<1>4. /\ UNCHANGED <<process, failed, outcome>>
      /\ made' = [made EXCEPT ![c] = @ + 1]
      /\ waited' = [waited EXCEPT ![c] = 0]
      /\ long' \subseteq long
      /\ HasUpstreams /\ config.upstreams \cap StoreAddrs # {}
      /\ place[Handler(c)] = "running"
  BY DEF CallStore
<1>5. Busy' \subseteq Busy
  BY <1>1, <1>3, <1>4 DEF Busy, ProcessInv, TypeOK
<1>6. place' \in [Tasks -> {"none", "queued", "upstream", "running", "waiting", "done"}]
  BY <1>3 DEF ProcessInv, TypeOK
<1>7. queue' \in Seq(Tasks)
  <2>1. queue \in Seq(Tasks)
    BY DEF ProcessInv, TypeOK
  <2>2. \A t \in Tasks : Append(queue, t) \in Seq(Tasks)
    BY <2>1
  <2> QED BY <1>1, <1>3, <2>1, <2>2
<1>8. made' \in [Calls -> 0..MaxNested] /\ waited' \in [Calls -> 0..Timeout]
  BY <1>1, <1>4, ProcessAssumption DEF ProcessInv, TypeOK
<1> QED BY <1>2, <1>4, <1>5, <1>6, <1>7, <1>8, CallStepKeepsInv DEF ProcessInv, TypeOK

LEMMA CallStoppedStoreKeepsInv ==
  ASSUME ProcessInv, NEW c \in Calls, CallStoppedStore(c)
  PROVE  ProcessInv'
<1>1. /\ ~ Early /\ kind = "monolith"
      /\ UNCHANGED <<process, queue, place, long, waited, outcome>>
  BY DEF CallStoppedStore, Early
<1>2. made' \in [Calls -> 0..MaxNested]
  BY ProcessAssumption DEF CallStoppedStore, ProcessInv, TypeOK
<1>3. failed' \in [Calls -> {"no", "timeout", "refused"}]
  BY DEF CallStoppedStore, ProcessInv, TypeOK
<1>4. Busy' \subseteq Busy
  BY <1>1 DEF Busy
<1> QED BY <1>1, <1>2, <1>3, <1>4, CallStepKeepsInv DEF ProcessInv, TypeOK

LEMMA ReturnKeepsInv ==
  ASSUME ProcessInv, NEW c \in Calls, EndHandler(c) \/ EndUnconfigured(c)
  PROVE  ProcessInv'
<1>1. PICK result \in {"answered", "unconfigured"} :
        Return(c, result) /\ (result = "unconfigured" => Refused)
  BY DEF EndHandler, EndUnconfigured, Refused
<1>2. Handler(c) \in Tasks
  BY TasksAreFinite
<1>3. ~ Early
  BY <1>1, <1>2, PlacedIsNotEarly DEF Return
<1>4. /\ UNCHANGED <<process, queue, made, waited, failed>>
      /\ place' = [place EXCEPT ![Handler(c)] = "done"]
      /\ outcome' = [outcome EXCEPT ![c] = result]
      /\ long' \subseteq long
  BY <1>1 DEF Return
<1>5. /\ place' \in [Tasks -> {"none", "queued", "upstream", "running", "waiting", "done"}]
      /\ outcome' \in [Calls -> {"none", "answered", "unconfigured", "refused", "aborted"}]
      /\ Busy' \subseteq Busy
  BY <1>2, <1>4 DEF ProcessInv, TypeOK, Busy
<1>6. \A d \in Calls : outcome'[d] = "unconfigured" => outcome[d] = "unconfigured" \/ Refused
  BY <1>1, <1>4 DEF ProcessInv, TypeOK
<1> QED BY <1>3, <1>4, <1>5, <1>6, CallStepKeepsInv DEF ProcessInv, TypeOK

LEMMA EndNestedKeepsInv ==
  ASSUME ProcessInv, NEW t \in Tasks, EndNested(t)
  PROVE  ProcessInv'
<1>1. ~ Early
  BY PlacedIsNotEarly DEF EndNested
<1>2. /\ UNCHANGED <<process, queue, made, waited, failed, outcome>>
      /\ long' \subseteq long
  BY DEF EndNested, calls
<1>3. t[1] \in Calls /\ Handler(t[1]) \in Tasks
  BY TasksAreFinite DEF Tasks
<1>4. /\ place' \in [Tasks -> {"none", "queued", "upstream", "running", "waiting", "done"}]
      /\ Busy' \subseteq Busy
  BY <1>3 DEF EndNested, ProcessInv, TypeOK, Busy, Waiting
<1> QED BY <1>1, <1>2, <1>4, CallStepKeepsInv DEF ProcessInv, TypeOK

LEMMA GiveUpKeepsInv ==
  ASSUME ProcessInv, NEW c \in Calls, GiveUp(c)
  PROVE  ProcessInv'
<1>1. Handler(c) \in Tasks
  BY TasksAreFinite
<1>2. ~ Early
  BY <1>1, PlacedIsNotEarly DEF GiveUp, Waiting
<1>3. UNCHANGED <<process, queue, long, made, waited, outcome>>
  BY DEF GiveUp
<1>4. /\ place' \in [Tasks -> {"none", "queued", "upstream", "running", "waiting", "done"}]
      /\ Busy' \subseteq Busy
      /\ failed' \in [Calls -> {"no", "timeout", "refused"}]
  BY <1>1 DEF GiveUp, ProcessInv, TypeOK, Busy, Waiting
<1> QED BY <1>2, <1>3, <1>4, CallStepKeepsInv DEF ProcessInv, TypeOK

LEMMA ProcessInvIsInductive == ProcessInv /\ [Next]_vars => ProcessInv'
<1> SUFFICES ASSUME ProcessInv, [Next]_vars PROVE ProcessInv'
  OBVIOUS
<1>1. CASE Configure
  BY <1>1, ConfigureKeepsInv
<1>2. CASE Bind \/ Signal \/ StopServer
  BY <1>2, StageKeepsInv
<1>3. CASE Dispatch
  BY <1>3, DispatchKeepsInv
<1>4. CASE EndProcess
  BY <1>4, EndProcessKeepsInv
<1>5. CASE Tick
  BY <1>5, TickKeepsInv
<1>6. ASSUME NEW c \in Calls, Accept(c) \/ Step(c) \/ GiveUp(c)
      PROVE  ProcessInv'
  BY <1>6, AcceptKeepsInv, CallStoppedStoreKeepsInv, ReturnKeepsInv, CallStoreKeepsInv,
     GiveUpKeepsInv DEF Step
<1>7. ASSUME NEW t \in Tasks, EndNested(t)
      PROVE  ProcessInv'
  BY <1>7, EndNestedKeepsInv
<1>8. CASE UNCHANGED vars
  BY <1>8 DEF vars, ProcessInv, TypeOK, Busy, Early, NothingYet, Refused, HasUpstreams
<1> QED BY <1>1, <1>2, <1>3, <1>4, <1>5, <1>6, <1>7, <1>8 DEF Next

LEMMA ProcessInvariant == Spec => []ProcessInv
<1>1. ProcessInv /\ [Next]_vars => ProcessInv'
  BY ProcessInvIsInductive
<1> QED BY <1>1, ProcessInvHoldsAtFirst, PTL DEF Spec

\* Whatever a process is configured to be, and in whatever order its tasks
\* come, wait and end, its pool never has more of them than threads.
THEOREM ProcessTypeCorrect == Spec => []TypeOK
<1>1. ProcessInv => TypeOK
  BY DEF ProcessInv
<1> QED BY <1>1, ProcessInvariant, PTL
-----------------------------------------------------------------------------
(***************************************************************************)
(* What callers notice of an environment.                                  *)
(***************************************************************************)
LEMMA UsableLoads ==
  ASSUME env \in Environments, kind \in Services, UsableEnvironment
  PROVE  Loads(kind, env)
<1>1. \A v \in ServiceVars[kind].required \cup ServiceVars[kind].optional :
        v \in Variables /\ env.vars[v] \in Values
  BY DEF Environments, Variables
<1>2. MissingOrInvalid(env, ServiceVars[kind].required) = {}
  BY <1>1 DEF UsableEnvironment, Unusable, MissingOrInvalid, Values
<1>3. Invalid(env, ServiceVars[kind].required \cup ServiceVars[kind].optional) = {}
  BY <1>1 DEF UsableEnvironment, Unusable, Invalid
<1> QED BY <1>2, <1>3 DEF Loads, Errors, Invalid

\* Each service resolves its configuration in the same way.
LEMMA ConfigIsResolved ==
  ASSUME NEW k \in Kinds, k # "monolith", NEW e
  PROVE  k \in DOMAIN PortVar /\ k \in Services /\ ConfigOf(k, e) = Resolve(k, e, Fallback(k))
<1>1. k \in {"gateway", "coordinator", "job", "queue", "result"}
  BY ProcessAssumption DEF Services, ServiceVars
<1> QED BY <1>1 DEF ConfigOf, GatewayConfig, CoordinatorConfig, JobConfig, QueueConfig,
                    ResultConfig, PortVar, Services, ServiceVars

\* Only the gateway and the coordinator require addresses of stores, and all.
LEMMA StoresAreRequired ==
  /\ \A k \in {"gateway", "coordinator"} : ServiceVars[k].required = StoreAddrs
  /\ \A s \in Services \ {"gateway", "coordinator"} :
       ServiceVars[s].required \cap StoreAddrs = {}
<1>1. \A k \in {"gateway", "coordinator"} : ServiceVars[k].required = StoreAddrs
  BY DEF ServiceVars, GatewayVars, CoordinatorVars, Vars
<1>2. ASSUME NEW s \in Services \ {"gateway", "coordinator"}
      PROVE  ServiceVars[s].required \cap StoreAddrs = {}
  <2>1. s \in {"job", "queue", "result", "worker"}
    BY DEF Services, ServiceVars
  <2>2. ServiceVars[s].required \subseteq {"COORDINATOR_ADDR"}
    BY <2>1 DEF ServiceVars, JobVars, QueueVars, ResultVars, WorkerVars, Vars
  <2> QED BY <2>2 DEF StoreAddrs
<1> QED BY <1>1, <1>2

\* A service configured with the address of one store was given all of them.
LEMMA OneAddressMeansAll ==
  ASSUME NEW s \in Services, NEW e, Loads(s, e), Parsed(s, e).upstreams \cap StoreAddrs # {}
  PROVE  \A a \in StoreAddrs : e.vars[a] = "valid"
<1>1. Parsed(s, e).upstreams \subseteq ServiceVars[s].required
  BY DEF Parsed, Config
<1>2. ServiceVars[s].required = StoreAddrs
  BY <1>1, StoresAreRequired
<1> QED BY <1>2 DEF Loads, Errors, MissingOrInvalid

\* Although the error of a bad environment is swallowed, and another service's
\* configuration may be taken for it: a usable environment gives the service its own
\* port and refuses nobody, and no store is called unless all are given.
THEOREM EnvironmentsAreFollowed == Spec => []UpstreamsFollowTheEnvironment
<1>1. ProcessInv => UpstreamsFollowTheEnvironment
  <2> SUFFICES ASSUME ProcessInv, kind # "monolith"
               PROVE  /\ stage # "starting" /\ UsableEnvironment
                           => /\ config.of = kind
                              /\ config.port = "given" <=> env.vars[PortVar[kind]] = "valid"
                      /\ \A c \in Calls :
                        /\ outcome[c] = "unconfigured" => ~ UsableEnvironment
                        /\ made[c] > 0 => \A a \in StoreAddrs : env.vars[a] = "valid"
    BY DEF UpstreamsFollowTheEnvironment
  <2>1. kind \in Kinds /\ env \in Environments
    BY ProcessAssumption DEF ProcessInv, TypeOK
  <2>2. /\ kind \in DOMAIN PortVar /\ kind \in Services
        /\ ConfigOf(kind, env) = Resolve(kind, env, Fallback(kind))
    BY <2>1, ConfigIsResolved
  <2>3. UsableEnvironment => ConfigOf(kind, env) = Parsed(kind, env)
    BY <2>1, <2>2, UsableLoads DEF Resolve
  <2>4. ASSUME stage # "starting", UsableEnvironment
        PROVE  /\ config.of = kind
               /\ config.port = "given" <=> env.vars[PortVar[kind]] = "valid"
    <3>1. config = Parsed(kind, env)
      BY <2>3, <2>4 DEF ProcessInv
    <3> QED BY <2>2, <3>1 DEF Parsed, Config, Port
  <2>5. ASSUME NEW c \in Calls, outcome[c] = "unconfigured"
        PROVE  ~ UsableEnvironment
    <3>1. Refused /\ stage # "starting"
      BY <2>5 DEF ProcessInv, Early, NothingYet
    <3>2. SUFFICES ASSUME UsableEnvironment PROVE FALSE
      OBVIOUS
    <3>3. config = Parsed(kind, env)
      BY <2>3, <3>1, <3>2 DEF ProcessInv
    <3>4. Loads(kind, env) /\ ServiceVars[kind].required = StoreAddrs
      BY <2>1, <2>2, <3>1, <3>2, UsableLoads, StoresAreRequired DEF Refused, HasUpstreams
    <3>5. config.upstreams = StoreAddrs
      BY <3>3, <3>4 DEF Parsed, Config, Loads, Errors, MissingOrInvalid
    <3> QED BY <3>1, <3>5 DEF Refused
  <2>6. ASSUME NEW c \in Calls, made[c] > 0
        PROVE  \A a \in StoreAddrs : env.vars[a] = "valid"
    <3>1. stage # "starting" /\ config.upstreams \cap StoreAddrs # {}
      BY <2>6 DEF ProcessInv, Early, NothingYet
    <3>2. config = Resolve(kind, env, Fallback(kind))
      BY <2>2, <3>1 DEF ProcessInv
    <3>3. Fallback(kind).upstreams = {}
      BY DEF Fallback, Config
    <3>4. PICK s \in Services : Loads(s, env) /\ config = Parsed(s, env)
      BY <2>2, <3>1, <3>2, <3>3 DEF Resolve
    <3> QED BY <3>1, <3>4, OneAddressMeansAll
  <2> QED BY <2>4, <2>5, <2>6
<1> QED BY <1>1, ProcessInvariant, PTL
-----------------------------------------------------------------------------
(***************************************************************************)
(* The nested calls of a monolith node whose pool has a thread for each    *)
(* call in hand and one more.  All handlers may wait, but then one thread  *)
(* at least runs a nested call, which ends within two ticks.  So the queue *)
(* moves by one task a tick at the least, and a nested call, which finds   *)
(* fewer tasks before it than there are calls, has waited no longer than   *)
(* there are calls when it is answered.                                    *)
(***************************************************************************)
Roomy == kind = "monolith" /\ config.threads > Cardinality(Calls)

\* A handler has one nested call under way at the most, and waits for it.
NestedOK ==
  \A c \in Calls :
    /\ \A k \in 1..MaxNested :
      /\ place[<<c, k>>] \notin {"upstream", "waiting"}
      /\ place[<<c, k>>] \in {"queued", "running"}
           => k = made[c] /\ place[<<c, 0>>] = "waiting"
    /\ place[<<c, 0>>] = "waiting"
         => made[c] > 0 /\ place[<<c, made[c]>>] \in {"queued", "running"}

\* The executor's queue has the queued tasks, each once.
QueueOK ==
  /\ \A i \in DOMAIN queue : place[queue[i]] = "queued"
  /\ \A i, j \in DOMAIN queue : queue[i] = queue[j] => i = j
  /\ \A t \in Tasks : place[t] = "queued" => \E i \in DOMAIN queue : queue[i] = t

LongOK == \A t \in long : place[t] = "running"

\* Before time can pass, a thread is given back.
Freeing == Idle \/ \E c \in Calls : \E k \in 1..MaxNested : <<c, k>> \in long

\* What is left to a nested call at place i of the queue, and to one that runs.
QueuedInTime(c, i) ==
  waited[c] > 0 => waited[c] + i < Cardinality(Calls)
                   \/ (waited[c] + i = Cardinality(Calls) /\ Freeing)

RunningInTime(c) ==
  waited[c] < Cardinality(Calls) \/ (waited[c] = Cardinality(Calls) /\ <<c, made[c]>> \in long)

TimeOK ==
  \A c \in Calls :
    place[<<c, 0>>] = "waiting" =>
      /\ \A i \in DOMAIN queue : queue[i] = <<c, made[c]>> => QueuedInTime(c, i)
      /\ place[<<c, made[c]>>] = "running" => RunningInTime(c)

PoolOK ==
  /\ NestedOK /\ QueueOK /\ LongOK /\ TimeOK
  /\ \A c \in Calls : failed[c] # "timeout"

PoolInv == Roomy => PoolOK

LEMMA CallsAreCounted ==
  /\ Cardinality(Calls) \in Nat
  /\ \A c \in Calls : Cardinality(Calls) > 0
<1>1. IsFiniteSet(Calls)
  BY ProcessAssumption
<1>2. Cardinality(Calls) \in Nat /\ (Cardinality(Calls) = 0 <=> Calls = {})
  BY <1>1, FS_CardinalityType, FS_EmptySet
<1> QED BY <1>2

LEMMA BusyIsFinite ==
  IsFiniteSet(Busy) /\ Cardinality(Busy) \in Nat
<1>1. Busy \in SUBSET Tasks
  BY DEF Busy
<1> QED BY <1>1, TasksAreFinite, FS_Subset, FS_CardinalityType

\* The first and the nested calls of a handler are tasks; there are no others.
LEMMA TaskForm ==
  /\ \A t \in Tasks : \E c \in Calls : \E k \in 0..MaxNested : t = <<c, k>>
  /\ \A c \in Calls : \A k \in 0..MaxNested : <<c, k>> \in Tasks
BY DEF Tasks

\* If nothing but handlers took threads, one would be left.
LEMMA NestedRunsWhenFull ==
  ASSUME ProcessInv, Roomy, PoolOK, ~ Idle
  PROVE  \E c \in Calls : \E k \in 1..MaxNested : place[<<c, k>>] = "running"
<1> DEFINE H == {Handler(c) : c \in Calls}
           first == [c \in Calls |-> Handler(c)]
<1>1. IsFiniteSet(H) /\ Cardinality(H) <= Cardinality(Calls)
  <2>1. first \in Surjection(Calls, H)
    BY DEF Surjection
  <2>2. IsFiniteSet(Calls)
    BY ProcessAssumption
  <2> HIDE DEF H, first
  <2> QED BY <2>1, <2>2, FS_Surjection
<1>2. SUFFICES ASSUME \A c \in Calls : \A k \in 1..MaxNested : place[<<c, k>>] # "running"
               PROVE  FALSE
  OBVIOUS
<1>3. Busy \subseteq H
  <2> SUFFICES ASSUME NEW t \in Tasks, place[t] \in {"running", "waiting"} PROVE t \in H
    BY DEF Busy
  <2>1. PICK c \in Calls, k \in 0..MaxNested : t = <<c, k>>
    BY TaskForm
  <2>2. k \notin 1..MaxNested
    BY <1>2, <2>1 DEF PoolOK, NestedOK
  <2>3. k = 0
    BY <2>2, ProcessAssumption
  <2> QED BY <2>1, <2>3 DEF Handler
<1> HIDE DEF H
<1>4. Cardinality(Busy) <= Cardinality(H)
  <2>1. Busy \in SUBSET H
    BY <1>3
  <2> QED BY <1>1, <2>1, FS_Subset
<1>5. Cardinality(H) \in Nat
  BY <1>1, FS_CardinalityType
<1>6. Cardinality(Busy) >= config.threads
  BY BusyIsFinite DEF Idle, ProcessInv, TypeOK
<1> QED BY <1>1, <1>4, <1>5, <1>6, BusyIsFinite, CallsAreCounted DEF Roomy, ProcessInv, TypeOK

\* Each call has two tasks under way at the most, so that a full pool leaves
\* fewer of them to the queue than there are calls.
LEMMA QueueIsShort ==
  ASSUME ProcessInv, Roomy, PoolOK, ~ Idle
  PROVE  Len(queue) < Cardinality(Calls)
<1> DEFINE H == {Handler(c) : c \in Calls}
           L == {Last(c) : c \in Calls}
           first == [c \in Calls |-> Handler(c)]
           last == [c \in Calls |-> Last(c)]
           Q == {queue[i] : i \in 1..Len(queue)}
<1>1. IsFiniteSet(H) /\ Cardinality(H) <= Cardinality(Calls)
  <2>1. first \in Surjection(Calls, H)
    BY DEF Surjection
  <2>2. IsFiniteSet(Calls)
    BY ProcessAssumption
  <2> HIDE DEF H, first
  <2> QED BY <2>1, <2>2, FS_Surjection
<1>2. IsFiniteSet(L) /\ Cardinality(L) <= Cardinality(Calls)
  <2>1. last \in Surjection(Calls, L)
    BY DEF Surjection
  <2>2. IsFiniteSet(Calls)
    BY ProcessAssumption
  <2> HIDE DEF L, last
  <2> QED BY <2>1, <2>2, FS_Surjection
<1>3. queue \in [1..Len(queue) -> Tasks] /\ Len(queue) \in Nat /\ DOMAIN queue = 1..Len(queue)
  BY DEF ProcessInv, TypeOK
<1>4. IsFiniteSet(Q) /\ Len(queue) <= Cardinality(Q)
  <2>1. Q \in SUBSET Tasks
    BY <1>3
  <2>2. queue \in Injection(1..Len(queue), Q)
    BY <1>3 DEF Injection, IsInjective, PoolOK, QueueOK
  <2>3. Cardinality(1..Len(queue)) = Len(queue)
    <3>1. ASSUME NEW n \in Nat
          PROVE  Cardinality(1..n) = n
      <4>1. Cardinality(1..n) = IF 1 > n THEN 0 ELSE n - 1 + 1
        BY FS_Interval
      <4> QED BY <4>1
    <3> QED BY <1>3, <3>1
  <2>4. IsFiniteSet(Q)
    BY <2>1, TasksAreFinite, FS_Subset
  <2> HIDE DEF Q
  <2> QED BY <2>2, <2>3, <2>4, FS_Injection
<1>5. Q \cup Busy \subseteq H \cup L
  <2> SUFFICES ASSUME NEW t \in Tasks, place[t] \in {"queued", "running", "waiting"}
               PROVE  t \in H \cup L
    BY <1>3 DEF Busy, PoolOK, QueueOK
  <2>1. PICK c \in Calls, k \in 0..MaxNested : t = <<c, k>>
    BY TaskForm
  <2>2. CASE k = 0
    BY <2>1, <2>2 DEF Handler
  <2>3. CASE k # 0
    <3>1. k \in 1..MaxNested
      BY <2>3, ProcessAssumption
    <3>2. k = made[c]
      BY <2>1, <3>1 DEF PoolOK, NestedOK
    <3> QED BY <2>1, <3>2 DEF Last
  <2> QED BY <2>2, <2>3
<1>6. Q \cap Busy = {}
  BY <1>3 DEF Busy, PoolOK, QueueOK
<1> HIDE DEF Q, H, L
<1>7. /\ IsFiniteSet(H \cup L)
      /\ Cardinality(H \cup L) = Cardinality(H) + Cardinality(L) - Cardinality(H \cap L)
  BY <1>1, <1>2, FS_Union
<1>8. /\ Cardinality(Q \cup Busy) = Cardinality(Q) + Cardinality(Busy) - Cardinality(Q \cap Busy)
      /\ Cardinality(Q \cap Busy) = 0
  BY <1>4, <1>6, BusyIsFinite, FS_Union, FS_EmptySet
<1>9. Cardinality(Q \cup Busy) <= Cardinality(H \cup L)
  <2>1. (Q \cup Busy) \in SUBSET (H \cup L)
    BY <1>5
  <2> QED BY <1>7, <2>1, FS_Subset
<1>10. /\ Cardinality(H) \in Nat /\ Cardinality(L) \in Nat /\ Cardinality(Q) \in Nat
       /\ Cardinality(H \cap L) \in Nat
  <2>1. (H \cap L) \in SUBSET H
    OBVIOUS
  <2> QED BY <1>1, <1>2, <1>4, <2>1, FS_Subset, FS_CardinalityType
<1>11. Cardinality(Busy) >= config.threads
  BY BusyIsFinite DEF Idle, ProcessInv, TypeOK
<1> QED BY <1>1, <1>2, <1>3, <1>4, <1>7, <1>8, <1>9, <1>10, <1>11, BusyIsFinite, CallsAreCounted
        DEF Roomy, ProcessInv, TypeOK
\* A thread that is idle stays so, and one that is given back becomes idle.
LEMMA IdleStays ==
  ASSUME ProcessInv, UNCHANGED config, Busy' \subseteq Busy, Idle
  PROVE  Idle'
<1>1. Busy' \in SUBSET Busy
  OBVIOUS
<1>2. IsFiniteSet(Busy') /\ Cardinality(Busy') <= Cardinality(Busy)
  BY <1>1, BusyIsFinite, FS_Subset
<1>3. Cardinality(Busy') \in Nat
  BY <1>2, FS_CardinalityType
<1> QED BY <1>2, <1>3, BusyIsFinite DEF Idle, ProcessInv, TypeOK

LEMMA ThreadGivenBack ==
  ASSUME ProcessInv, UNCHANGED config, NEW t \in Busy, Busy' \subseteq Busy \ {t}
  PROVE  Idle'
<1>1. Busy' \in SUBSET (Busy \ {t})
  OBVIOUS
<1>2. IsFiniteSet(Busy \ {t}) /\ Cardinality(Busy \ {t}) = Cardinality(Busy) - 1
  BY BusyIsFinite, FS_RemoveElement
<1>3. IsFiniteSet(Busy') /\ Cardinality(Busy') <= Cardinality(Busy) - 1
  BY <1>1, <1>2, FS_Subset
<1>4. Cardinality(Busy') \in Nat
  BY <1>3, FS_CardinalityType
<1> QED BY <1>3, <1>4, BusyIsFinite DEF Idle, ProcessInv, TypeOK

LEMMA FreeingStays ==
  ASSUME ProcessInv, UNCHANGED config, Busy' \subseteq Busy,
         \A c \in Calls : \A k \in 1..MaxNested : <<c, k>> \in long => <<c, k>> \in long',
         Freeing
  PROVE  Freeing'
<1>1. CASE Idle
  BY <1>1, IdleStays DEF Freeing
<1>2. CASE ~ Idle
  BY <1>2 DEF Freeing
<1> QED BY <1>1, <1>2

LEMMA Appended ==
  ASSUME NEW q \in Seq(Tasks), NEW t \in Tasks
  PROVE  \E n \in Nat :
           /\ n = Len(q) /\ DOMAIN q = 1..n /\ DOMAIN Append(q, t) = 1..(n + 1)
           /\ \A i \in 1..n : Append(q, t)[i] = q[i] /\ q[i] \in Tasks
           /\ Append(q, t)[n + 1] = t
<1>1. /\ Len(q) \in Nat /\ DOMAIN q = 1..Len(q)
      /\ \A i \in 1..Len(q) : q[i] \in Tasks
  OBVIOUS
<1>2. /\ Append(q, t) \in Seq(Tasks) /\ Len(Append(q, t)) = Len(q) + 1
      /\ \A i \in 1..Len(q) : Append(q, t)[i] = q[i]
      /\ Append(q, t)[Len(q) + 1] = t
  BY AppendProperties
<1>3. DOMAIN Append(q, t) = 1..(Len(q) + 1)
  BY <1>2
<1> QED BY <1>1, <1>2, <1>3

\* Call c is accepted and its handler waits for a thread.
LEMMA AcceptKeepsPool ==
  ASSUME ProcessInv, PoolOK, NEW c \in Calls, Accept(c), Serving
  PROVE  PoolOK'
<1>1. /\ place[<<c, 0>>] = "none" /\ <<c, 0>> \in Tasks
      /\ place' = [place EXCEPT ![<<c, 0>>] = "queued"]
      /\ queue' = Append(queue, <<c, 0>>)
      /\ UNCHANGED <<config, long, made, waited, failed>>
  BY TasksAreFinite DEF Accept, Serving, Handler, process
<1>2. /\ \A t \in Tasks : place'[t] = IF t = <<c, 0>> THEN "queued" ELSE place[t]
      /\ \A d \in Calls : \A k \in 0..MaxNested : <<d, k>> \in Tasks
      /\ \A d \in Calls : made[d] \in 0..MaxNested
  BY <1>1, TaskForm DEF ProcessInv, TypeOK
<1>3. PICK n \in Nat :
        /\ n = Len(queue) /\ DOMAIN queue = 1..n /\ DOMAIN queue' = 1..(n + 1)
        /\ \A i \in 1..n : queue'[i] = queue[i] /\ queue[i] \in Tasks
        /\ queue'[n + 1] = <<c, 0>>
  <2>1. queue \in Seq(Tasks)
    BY DEF ProcessInv, TypeOK
  <2> QED BY <1>1, <2>1, Appended
<1>4. NestedOK'
  <2> SUFFICES ASSUME NEW d \in Calls
               PROVE  /\ \A k \in 1..MaxNested :
                        /\ place'[<<d, k>>] \notin {"upstream", "waiting"}
                        /\ place'[<<d, k>>] \in {"queued", "running"}
                             => k = made'[d] /\ place'[<<d, 0>>] = "waiting"
                      /\ place'[<<d, 0>>] = "waiting"
                           => made'[d] > 0 /\ place'[<<d, made'[d]>>] \in {"queued", "running"}
    BY DEF NestedOK
  <2>1. /\ \A k \in 1..MaxNested : place'[<<d, k>>] = place[<<d, k>>]
        /\ place'[<<d, 0>>] = IF d = c THEN "queued" ELSE place[<<d, 0>>]
    BY <1>2, ProcessAssumption
  <2> QED BY <1>1, <1>2, <2>1, ProcessAssumption DEF PoolOK, NestedOK
<1>5. QueueOK'
  <2>1. \A i \in DOMAIN queue' : place'[queue'[i]] = "queued"
    BY <1>1, <1>2, <1>3 DEF PoolOK, QueueOK
  <2>2. \A i, j \in DOMAIN queue' : queue'[i] = queue'[j] => i = j
    BY <1>1, <1>3 DEF PoolOK, QueueOK
  <2>3. \A t \in Tasks : place'[t] = "queued" => \E i \in DOMAIN queue' : queue'[i] = t
    BY <1>1, <1>2, <1>3 DEF PoolOK, QueueOK
  <2> QED BY <2>1, <2>2, <2>3 DEF QueueOK
<1>6. LongOK'
  BY <1>1, <1>2 DEF PoolOK, LongOK, ProcessInv, TypeOK
<1>7. Freeing => Freeing'
  BY <1>1, <1>2, FreeingStays DEF Busy
<1>8. TimeOK'
  <2> SUFFICES ASSUME NEW d \in Calls, place'[<<d, 0>>] = "waiting"
               PROVE  /\ \A i \in DOMAIN queue' :
                           queue'[i] = <<d, made'[d]>> => QueuedInTime(d, i)'
                      /\ place'[<<d, made'[d]>>] = "running" => RunningInTime(d)'
    BY DEF TimeOK
  <2>1. place[<<d, 0>>] = "waiting" /\ d # c
    BY <1>1, <1>2, ProcessAssumption
  <2>2. place'[<<d, made[d]>>] = place[<<d, made[d]>>]
    BY <1>2, <2>1
  <2>3. \A i \in DOMAIN queue' :
          queue'[i] = <<d, made[d]>> => i \in DOMAIN queue /\ queue[i] = <<d, made[d]>>
    BY <1>3, <2>1
  <2>4. \A i \in DOMAIN queue : QueuedInTime(d, i) => QueuedInTime(d, i)'
    BY <1>1, <1>7 DEF QueuedInTime
  <2>5. RunningInTime(d) => RunningInTime(d)'
    BY <1>1 DEF RunningInTime
  <2> QED BY <1>1, <2>1, <2>2, <2>3, <2>4, <2>5 DEF PoolOK, TimeOK
<1> QED BY <1>1, <1>4, <1>5, <1>6, <1>8 DEF PoolOK

\* The queue moves: each task in it comes one place nearer.
LEMMA DispatchKeepsPool ==
  ASSUME ProcessInv, PoolOK, Dispatch
  PROVE  PoolOK'
<1>1. PICK n \in Nat :
        /\ n = Len(queue) /\ n > 0 /\ DOMAIN queue = 1..n /\ DOMAIN queue' = 1..(n - 1)
        /\ Head(queue) = queue[1] /\ queue[1] \in Tasks
        /\ \A i \in 1..(n - 1) : queue'[i] = queue[i + 1]
  BY DEF Dispatch, ProcessInv, TypeOK
<1>2. PICK c \in Calls, m \in 0..MaxNested : queue[1] = <<c, m>>
  BY <1>1, TaskForm
<1>3. /\ UNCHANGED <<config, long, made, waited, failed>>
      /\ place[<<c, m>>] = "queued"
      /\ place' = [place EXCEPT ![<<c, m>>] = "running"]
  <2>1. UNCHANGED <<config, long, made, waited, failed>>
    BY DEF Dispatch, process, calls
  <2>2. 1 \in DOMAIN queue
    BY <1>1
  <2>3. place[queue[1]] = "queued"
    BY <2>2 DEF PoolOK, QueueOK
  <2>4. place' = [place EXCEPT ![queue[1]] = "running"]
    BY <1>1 DEF Dispatch
  <2> QED BY <1>2, <2>1, <2>3, <2>4
<1>4. /\ \A t \in Tasks : place'[t] = IF t = <<c, m>> THEN "running" ELSE place[t]
      /\ \A d \in Calls : \A k \in 0..MaxNested : <<d, k>> \in Tasks
      /\ \A d \in Calls : made[d] \in 0..MaxNested
  BY <1>3, TaskForm DEF ProcessInv, TypeOK
<1>5. NestedOK'
  <2> SUFFICES ASSUME NEW d \in Calls
               PROVE  /\ \A k \in 1..MaxNested :
                        /\ place'[<<d, k>>] \notin {"upstream", "waiting"}
                        /\ place'[<<d, k>>] \in {"queued", "running"}
                             => k = made'[d] /\ place'[<<d, 0>>] = "waiting"
                      /\ place'[<<d, 0>>] = "waiting"
                           => made'[d] > 0 /\ place'[<<d, made'[d]>>] \in {"queued", "running"}
    BY DEF NestedOK
  <2>1. place'[<<d, 0>>] = "waiting" <=> place[<<d, 0>>] = "waiting"
    BY <1>3, <1>4, ProcessAssumption
  <2>2. \A k \in 0..MaxNested :
          /\ place'[<<d, k>>] \in {"queued", "running"} <=> place[<<d, k>>] \in {"queued", "running"}
          /\ place'[<<d, k>>] \in {"upstream", "waiting"} => place[<<d, k>>] = place'[<<d, k>>]
    BY <1>3, <1>4
  <2> QED BY <1>3, <1>4, <2>1, <2>2 DEF PoolOK, NestedOK
<1>6. QueueOK'
  <2>1. \A i \in 1..(n - 1) : i + 1 \in 1..n /\ i + 1 # 1
    OBVIOUS
  <2>2. \A i \in DOMAIN queue' : queue'[i] # <<c, m>>
    BY <1>1, <1>2, <2>1 DEF PoolOK, QueueOK
  <2>3. \A i \in DOMAIN queue' : place'[queue'[i]] = "queued"
    <3> SUFFICES ASSUME NEW i \in 1..(n - 1) PROVE place'[queue'[i]] = "queued"
      BY <1>1
    <3>1. queue'[i] \in Tasks /\ place[queue'[i]] = "queued"
      BY <1>1, <2>1 DEF PoolOK, QueueOK, ProcessInv, TypeOK
    <3> QED BY <1>1, <1>4, <2>2, <3>1
  <2>4. \A i, j \in DOMAIN queue' : queue'[i] = queue'[j] => i = j
    <3> SUFFICES ASSUME NEW i \in 1..(n - 1), NEW j \in 1..(n - 1), queue'[i] = queue'[j]
                 PROVE  i = j
      BY <1>1
    <3>1. i + 1 = j + 1
      BY <1>1, <2>1 DEF PoolOK, QueueOK
    <3> QED BY <3>1
  <2>5. ASSUME NEW t \in Tasks, place'[t] = "queued"
        PROVE  \E i \in DOMAIN queue' : queue'[i] = t
    <3>1. t # <<c, m>> /\ place[t] = "queued"
      BY <1>4, <2>5
    <3>2. PICK i \in 1..n : queue[i] = t
      BY <1>1, <3>1 DEF PoolOK, QueueOK
    <3>3. i - 1 \in 1..(n - 1) /\ (i - 1) + 1 = i
      BY <1>2, <3>1, <3>2
    <3> QED BY <1>1, <3>2, <3>3
  <2> QED BY <2>3, <2>4, <2>5 DEF QueueOK
<1>7. LongOK'
  BY <1>3, <1>4 DEF PoolOK, LongOK, ProcessInv, TypeOK
<1>8. TimeOK'
  <2> SUFFICES ASSUME NEW d \in Calls, place'[<<d, 0>>] = "waiting"
               PROVE  /\ \A i \in DOMAIN queue' :
                           queue'[i] = <<d, made'[d]>> => QueuedInTime(d, i)'
                      /\ place'[<<d, made'[d]>>] = "running" => RunningInTime(d)'
    BY DEF TimeOK
  <2>1. place[<<d, 0>>] = "waiting" /\ waited[d] \in Nat /\ Cardinality(Calls) \in Nat
        /\ Cardinality(Calls) > 0
    BY <1>3, <1>4, CallsAreCounted, ProcessAssumption DEF ProcessInv, TypeOK
  <2>2. ASSUME NEW i \in 1..(n - 1), queue'[i] = <<d, made[d]>>
        PROVE  waited[d] > 0 => waited[d] + i < Cardinality(Calls)
    <3>1. i + 1 \in DOMAIN queue /\ queue[i + 1] = <<d, made[d]>>
      BY <1>1, <2>2
    <3>2. QueuedInTime(d, i + 1)
      BY <2>1, <3>1 DEF PoolOK, TimeOK
    <3> QED BY <2>1, <3>2 DEF QueuedInTime
  <2>3. ASSUME <<d, made[d]>> = <<c, m>>
        PROVE  waited[d] < Cardinality(Calls)
    <3>1. 1 \in DOMAIN queue /\ queue[1] = <<d, made[d]>>
      BY <1>1, <1>2, <2>3
    <3>2. QueuedInTime(d, 1)
      BY <2>1, <3>1 DEF PoolOK, TimeOK
    <3> QED BY <2>1, <3>2 DEF QueuedInTime
  <2>4. ASSUME <<d, made[d]>> # <<c, m>>, place'[<<d, made[d]>>] = "running"
        PROVE  RunningInTime(d)
    BY <1>4, <2>1, <2>4 DEF PoolOK, TimeOK
  <2> QED BY <1>1, <1>3, <2>2, <2>3, <2>4 DEF QueuedInTime, RunningInTime
<1> QED BY <1>3, <1>5, <1>6, <1>7, <1>8 DEF PoolOK
\* A step that moves no queued task and no thread of a nested call keeps the
\* pool: the queue, what runs long of it, and what handlers wait for stay.
LEMMA HandlerStepKeepsPool ==
  ASSUME ProcessInv, PoolOK, UNCHANGED <<config, queue, waited>>, NEW c \in Calls,
         place[<<c, 0>>] = "running",
         place' \in {place, [place EXCEPT ![<<c, 0>>] = "done"]},
         made' \in {made, [made EXCEPT ![c] = @ + 1]},
         long' \subseteq long, long \ {<<c, 0>>} \subseteq long',
         <<c, 0>> \in long' => place'[<<c, 0>>] = "running",
         \A d \in Calls : failed'[d] # "timeout"
  PROVE  PoolOK'
<1>1. /\ \A t \in Tasks : t # <<c, 0>> => place'[t] = place[t]
      /\ place'[<<c, 0>>] \in {"running", "done"}
      /\ <<c, 0>> \in Tasks
      /\ \A d \in Calls : \A k \in 0..MaxNested : <<d, k>> \in Tasks
      /\ \A d \in Calls : made[d] \in 0..MaxNested
  BY TaskForm, ProcessAssumption DEF ProcessInv, TypeOK
<1>2. \A d \in Calls : d # c => made'[d] = made[d]
  BY DEF ProcessInv, TypeOK
<1>3. \A d \in Calls : \A k \in 1..MaxNested :
        /\ <<d, k>> \in Tasks /\ place'[<<d, k>>] = place[<<d, k>>]
        /\ <<d, k>> \in long => <<d, k>> \in long'
  <2>1. \A k \in 1..MaxNested : k \in 0..MaxNested /\ k # 0
    BY ProcessAssumption
  <2> QED BY <1>1, <2>1
<1>4. NestedOK'
  <2> SUFFICES ASSUME NEW d \in Calls
               PROVE  /\ \A k \in 1..MaxNested :
                        /\ place'[<<d, k>>] \notin {"upstream", "waiting"}
                        /\ place'[<<d, k>>] \in {"queued", "running"}
                             => k = made'[d] /\ place'[<<d, 0>>] = "waiting"
                      /\ place'[<<d, 0>>] = "waiting"
                           => made'[d] > 0 /\ place'[<<d, made'[d]>>] \in {"queued", "running"}
    BY DEF NestedOK
  <2>1. CASE d = c
    <3>1. \A k \in 1..MaxNested : place[<<c, k>>] \notin {"queued", "running", "upstream", "waiting"}
      BY DEF PoolOK, NestedOK
    <3>2. place'[<<c, 0>>] # "waiting"
      BY <1>1
    <3> QED BY <1>3, <2>1, <3>1, <3>2
  <2>2. CASE d # c
    <3>1. place'[<<d, 0>>] = place[<<d, 0>>] /\ place'[<<d, made[d]>>] = place[<<d, made[d]>>]
      <4>1. <<d, 0>> \in Tasks /\ <<d, made[d]>> \in Tasks
        BY <1>1, ProcessAssumption
      <4> QED BY <1>1, <2>2, <4>1
    <3> QED BY <1>2, <1>3, <2>2, <3>1 DEF PoolOK, NestedOK
  <2> QED BY <2>1, <2>2
<1>5. QueueOK'
  <2>1. \A i \in DOMAIN queue : queue[i] \in Tasks /\ queue[i] # <<c, 0>>
    <3>1. \A i \in DOMAIN queue : queue[i] \in Tasks
      BY DEF ProcessInv, TypeOK
    <3> QED BY <3>1 DEF PoolOK, QueueOK
  <2>2. \A t \in Tasks : place'[t] = "queued" <=> place[t] = "queued"
    BY <1>1
  <2> QED BY <2>1, <2>2 DEF PoolOK, QueueOK
<1>6. LongOK'
  BY <1>1 DEF PoolOK, LongOK, ProcessInv, TypeOK
<1>7. Freeing => Freeing'
  <2>1. Busy' \subseteq Busy
    BY <1>1 DEF Busy
  <2> QED BY <1>3, <2>1, FreeingStays
<1>8. TimeOK'
  <2> SUFFICES ASSUME NEW d \in Calls, place'[<<d, 0>>] = "waiting"
               PROVE  /\ \A i \in DOMAIN queue' :
                           queue'[i] = <<d, made'[d]>> => QueuedInTime(d, i)'
                      /\ place'[<<d, made'[d]>>] = "running" => RunningInTime(d)'
    BY DEF TimeOK
  <2>1. d # c
    BY <1>1
  <2>2. /\ place[<<d, 0>>] = "waiting" /\ made'[d] = made[d] /\ made[d] \in 1..MaxNested
        /\ place'[<<d, made[d]>>] = place[<<d, made[d]>>]
    <3>1. <<d, 0>> \in Tasks /\ <<d, 0>> # <<c, 0>>
      BY <1>1, <2>1, ProcessAssumption
    <3>2. place[<<d, 0>>] = "waiting"
      BY <1>1, <3>1
    <3>3. made[d] \in 1..MaxNested
      BY <1>1, <3>2 DEF PoolOK, NestedOK
    <3> QED BY <1>2, <1>3, <2>1, <3>2, <3>3
  <2>3. \A i \in DOMAIN queue : QueuedInTime(d, i) => QueuedInTime(d, i)'
    BY <1>7 DEF QueuedInTime
  <2>4. RunningInTime(d) => RunningInTime(d)'
    BY <1>3, <2>2 DEF RunningInTime
  <2> QED BY <2>2, <2>3, <2>4 DEF PoolOK, TimeOK
<1> QED BY <1>4, <1>5, <1>6, <1>8 DEF PoolOK

LEMMA CallStoppedStoreKeepsPool ==
  ASSUME ProcessInv, PoolOK, NEW c \in Calls, CallStoppedStore(c)
  PROVE  PoolOK'
<1>1. /\ UNCHANGED <<config, queue, waited, place, long>>
      /\ place[<<c, 0>>] = "running"
      /\ made' = [made EXCEPT ![c] = @ + 1]
  BY DEF CallStoppedStore, Handler, process
<1>2. \A d \in Calls : failed'[d] # "timeout"
  BY DEF CallStoppedStore, PoolOK, ProcessInv, TypeOK
<1> QED BY <1>1, <1>2, HandlerStepKeepsPool

LEMMA ReturnKeepsPool ==
  ASSUME ProcessInv, PoolOK, NEW c \in Calls, EndHandler(c) \/ EndUnconfigured(c)
  PROVE  PoolOK'
<1>1. /\ UNCHANGED <<config, queue, waited, made, failed>>
      /\ place[<<c, 0>>] = "running"
      /\ place' = [place EXCEPT ![<<c, 0>>] = "done"]
      /\ long' = long \ {<<c, 0>>}
  BY DEF EndHandler, EndUnconfigured, Return, Handler, process
<1> QED BY <1>1, HandlerStepKeepsPool DEF PoolOK

\* The handler of c sends its next nested call to the end of the queue.
LEMMA CallStoreKeepsPool ==
  ASSUME ProcessInv, PoolOK, kind = "monolith", NEW c \in Calls, NEW a \in StoreAddrs,
         CallStore(c, a)
  PROVE  PoolOK'
<1>1. made[c] \in 0..MaxNested /\ made[c] < MaxNested /\ MaxNested \in Nat
  BY ProcessAssumption DEF CallStore, ProcessInv, TypeOK
<1>2. PICK m \in 1..MaxNested : m = made[c] + 1 /\ m # made[c]
  BY <1>1
<1>3. /\ place[<<c, 0>>] = "running"
      /\ place' = [place EXCEPT ![<<c, 0>>] = "waiting", ![<<c, m>>] = "queued"]
      /\ queue' = Append(queue, <<c, m>>)
      /\ made' = [made EXCEPT ![c] = m]
      /\ waited' = [waited EXCEPT ![c] = 0]
      /\ long' = long \ {<<c, 0>>}
      /\ UNCHANGED <<config, failed>>
  BY <1>2 DEF CallStore, Handler, process
<1>4. /\ \A d \in Calls : \A k \in 0..MaxNested : <<d, k>> \in Tasks
      /\ \A d \in Calls : made[d] \in 0..MaxNested
      /\ 0 \in 0..MaxNested /\ m \in 0..MaxNested /\ m # 0
      /\ \A k \in 1..MaxNested : k \in 0..MaxNested /\ k # 0
      /\ \A d \in Calls : made'[d] = IF d = c THEN m ELSE made[d]
      /\ \A d \in Calls : waited'[d] = IF d = c THEN 0 ELSE waited[d]
  BY <1>1, <1>2, <1>3, TaskForm DEF ProcessInv, TypeOK
<1>5. /\ \A t \in Tasks : place'[t] = IF t = <<c, m>> THEN "queued"
                                      ELSE IF t = <<c, 0>> THEN "waiting" ELSE place[t]
      /\ place[<<c, m>>] \notin {"queued", "running", "waiting"}
  <2>1. place[<<c, m>>] \notin {"queued", "running", "waiting"}
    BY <1>2 DEF PoolOK, NestedOK
  <2> QED BY <1>3, <2>1 DEF ProcessInv, TypeOK
<1>6. PICK n \in Nat :
        /\ n = Len(queue) /\ DOMAIN queue = 1..n /\ DOMAIN queue' = 1..(n + 1)
        /\ \A i \in 1..n : queue'[i] = queue[i] /\ queue[i] \in Tasks
        /\ queue'[n + 1] = <<c, m>>
  <2>1. queue \in Seq(Tasks) /\ <<c, m>> \in Tasks
    BY <1>4 DEF ProcessInv, TypeOK
  <2> QED BY <1>3, <2>1, Appended
<1>7. NestedOK'
  <2> SUFFICES ASSUME NEW d \in Calls
               PROVE  /\ \A k \in 1..MaxNested :
                        /\ place'[<<d, k>>] \notin {"upstream", "waiting"}
                        /\ place'[<<d, k>>] \in {"queued", "running"}
                             => k = made'[d] /\ place'[<<d, 0>>] = "waiting"
                      /\ place'[<<d, 0>>] = "waiting"
                           => made'[d] > 0 /\ place'[<<d, made'[d]>>] \in {"queued", "running"}
    BY DEF NestedOK
  <2>1. CASE d = c
    <3>1. /\ place'[<<c, 0>>] = "waiting" /\ place'[<<c, m>>] = "queued" /\ made'[c] = m
          /\ \A k \in 1..MaxNested : k # m => place'[<<c, k>>] = place[<<c, k>>]
      BY <1>4, <1>5
    <3>2. \A k \in 1..MaxNested : place[<<c, k>>] \notin {"queued", "running", "upstream", "waiting"}
      BY <1>3 DEF PoolOK, NestedOK
    <3> QED BY <2>1, <3>1, <3>2
  <2>2. CASE d # c
    <3>1. /\ \A k \in 0..MaxNested : place'[<<d, k>>] = place[<<d, k>>]
          /\ made'[d] = made[d]
      BY <1>4, <1>5, <2>2
    <3> QED BY <1>4, <3>1 DEF PoolOK, NestedOK
  <2> QED BY <2>1, <2>2
<1>8. QueueOK'
  <2>1. \A i \in DOMAIN queue' : place'[queue'[i]] = "queued"
    <3>1. ASSUME NEW i \in 1..n
          PROVE  place'[queue'[i]] = "queued"
      <4>1. queue[i] \in Tasks /\ place[queue[i]] = "queued" /\ queue[i] # <<c, 0>>
        BY <1>3, <1>6 DEF PoolOK, QueueOK
      <4> QED BY <1>5, <1>6, <4>1
    <3>2. place'[queue'[n + 1]] = "queued"
      BY <1>4, <1>5, <1>6
    <3> QED BY <1>6, <3>1, <3>2
  <2>2. \A i, j \in DOMAIN queue' : queue'[i] = queue'[j] => i = j
    BY <1>5, <1>6 DEF PoolOK, QueueOK
  <2>3. \A t \in Tasks : place'[t] = "queued" => \E i \in DOMAIN queue' : queue'[i] = t
    BY <1>5, <1>6 DEF PoolOK, QueueOK
  <2> QED BY <2>1, <2>2, <2>3 DEF QueueOK
<1>9. LongOK'
  <2>1. <<c, m>> \notin long
    BY <1>5 DEF PoolOK, LongOK
  <2> QED BY <1>3, <1>5, <2>1 DEF PoolOK, LongOK, ProcessInv, TypeOK
<1>10. Freeing => Freeing'
  <2>1. ASSUME NEW t \in Tasks, place'[t] \in {"running", "waiting"}
        PROVE  place[t] \in {"running", "waiting"}
    <3>1. CASE t = <<c, m>>
      BY <1>5, <2>1, <3>1
    <3>2. CASE t = <<c, 0>>
      BY <1>3, <3>2
    <3>3. CASE t # <<c, m>> /\ t # <<c, 0>>
      BY <1>5, <2>1, <3>3
    <3> QED BY <3>1, <3>2, <3>3
  <2>2. \A d \in Calls : \A k \in 1..MaxNested : <<d, k>> \in long => <<d, k>> \in long'
    BY <1>3, <1>4
  <2>3. Busy' \subseteq Busy
    BY <2>1 DEF Busy
  <2> QED BY <1>3, <2>2, <2>3, FreeingStays
<1>11. TimeOK'
  <2> SUFFICES ASSUME NEW d \in Calls, place'[<<d, 0>>] = "waiting"
               PROVE  /\ \A i \in DOMAIN queue' :
                           queue'[i] = <<d, made'[d]>> => QueuedInTime(d, i)'
                      /\ place'[<<d, made'[d]>>] = "running" => RunningInTime(d)'
    BY DEF TimeOK
  <2>1. CASE d = c
    BY <1>4, <1>5, <2>1 DEF QueuedInTime
  <2>2. CASE d # c
    <3>1. /\ \A k \in 0..MaxNested : place'[<<d, k>>] = place[<<d, k>>]
          /\ made'[d] = made[d] /\ waited'[d] = waited[d] /\ made[d] \in 0..MaxNested
      BY <1>4, <1>5, <2>2
    <3>2. place[<<d, 0>>] = "waiting" /\ made[d] \in 1..MaxNested
      BY <1>4, <3>1 DEF PoolOK, NestedOK
    <3>3. \A i \in DOMAIN queue' :
            queue'[i] = <<d, made[d]>> => i \in DOMAIN queue /\ queue[i] = <<d, made[d]>>
      BY <1>6, <2>2
    <3>4. \A i \in DOMAIN queue : QueuedInTime(d, i) => QueuedInTime(d, i)'
      BY <1>10, <3>1 DEF QueuedInTime
    <3>5. <<d, made[d]>> \in long => <<d, made[d]>> \in long'
      BY <1>3, <2>2
    <3>6. RunningInTime(d) => RunningInTime(d)'
      BY <3>1, <3>5 DEF RunningInTime
    <3> QED BY <3>1, <3>2, <3>3, <3>4, <3>6 DEF PoolOK, TimeOK
  <2> QED BY <2>1, <2>2
<1> QED BY <1>3, <1>7, <1>8, <1>9, <1>11 DEF PoolOK
\* A nested call is answered: its thread is idle, and its handler goes on.
LEMMA EndNestedKeepsPool ==
  ASSUME ProcessInv, PoolOK, NEW t \in Tasks, EndNested(t)
  PROVE  PoolOK'
<1>1. PICK c \in Calls, m \in 1..MaxNested : t = <<c, m>>
  <2>1. PICK c \in Calls, k \in 0..MaxNested : t = <<c, k>>
    BY TaskForm
  <2>2. k > 0
    BY <2>1 DEF EndNested
  <2> QED BY <2>1, <2>2, ProcessAssumption
<1>2. /\ place[<<c, m>>] = "running" /\ m = made[c] /\ place[<<c, 0>>] = "waiting"
      /\ m # 0 /\ 0 \in 0..MaxNested /\ m \in 0..MaxNested
  <2>1. place[<<c, m>>] = "running"
    BY <1>1 DEF EndNested, PoolOK, NestedOK
  <2>2. m = made[c] /\ place[<<c, 0>>] = "waiting"
    BY <2>1 DEF PoolOK, NestedOK
  <2>3. m # 0 /\ 0 \in 0..MaxNested /\ m \in 0..MaxNested
    BY ProcessAssumption
  <2> QED BY <2>1, <2>2, <2>3
<1>3. /\ place' = [place EXCEPT ![<<c, m>>] = "done", ![<<c, 0>>] = "running"]
      /\ long' = long \ {<<c, m>>}
      /\ UNCHANGED <<config, queue, made, waited, failed>>
  BY <1>1, <1>2 DEF EndNested, Last, Waiting, Handler, process, calls
<1>4. /\ \A d \in Calls : \A k \in 0..MaxNested : <<d, k>> \in Tasks
      /\ \A d \in Calls : made[d] \in 0..MaxNested
      /\ \A k \in 1..MaxNested : k \in 0..MaxNested /\ k # 0
  BY TaskForm, ProcessAssumption DEF ProcessInv, TypeOK
<1>5. \A u \in Tasks : place'[u] = IF u = <<c, m>> THEN "done"
                                   ELSE IF u = <<c, 0>> THEN "running" ELSE place[u]
  BY <1>2, <1>3 DEF ProcessInv, TypeOK
<1>6. NestedOK'
  <2> SUFFICES ASSUME NEW d \in Calls
               PROVE  /\ \A k \in 1..MaxNested :
                        /\ place'[<<d, k>>] \notin {"upstream", "waiting"}
                        /\ place'[<<d, k>>] \in {"queued", "running"}
                             => k = made'[d] /\ place'[<<d, 0>>] = "waiting"
                      /\ place'[<<d, 0>>] = "waiting"
                           => made'[d] > 0 /\ place'[<<d, made'[d]>>] \in {"queued", "running"}
    BY DEF NestedOK
  <2>1. CASE d = c
    <3>1. /\ place'[<<c, 0>>] = "running" /\ place'[<<c, m>>] = "done"
          /\ \A k \in 1..MaxNested : k # m => place'[<<c, k>>] = place[<<c, k>>]
      BY <1>2, <1>4, <1>5
    <3>2. \A k \in 1..MaxNested :
            k # m => place[<<c, k>>] \notin {"queued", "running", "upstream", "waiting"}
      BY <1>2 DEF PoolOK, NestedOK
    <3> QED BY <2>1, <3>1, <3>2
  <2>2. CASE d # c
    <3>1. \A k \in 0..MaxNested : place'[<<d, k>>] = place[<<d, k>>]
      BY <1>4, <1>5, <2>2
    <3>2. /\ place'[<<d, 0>>] = place[<<d, 0>>] /\ made'[d] = made[d]
          /\ place'[<<d, made[d]>>] = place[<<d, made[d]>>]
          /\ \A k \in 1..MaxNested : place'[<<d, k>>] = place[<<d, k>>]
      BY <1>2, <1>3, <1>4, <3>1
    <3> QED BY <3>2 DEF PoolOK, NestedOK
  <2> QED BY <2>1, <2>2
<1>7. QueueOK'
  <2>1. \A i \in DOMAIN queue : place'[queue[i]] = "queued"
    <3>1. \A i \in DOMAIN queue : queue[i] \in Tasks
      BY DEF ProcessInv, TypeOK
    <3> QED BY <1>2, <1>5, <3>1 DEF PoolOK, QueueOK
  <2>2. \A u \in Tasks : place'[u] = "queued" => place[u] = "queued"
    BY <1>5
  <2> QED BY <1>3, <2>1, <2>2 DEF PoolOK, QueueOK
<1>8. LongOK'
  BY <1>3, <1>5 DEF PoolOK, LongOK, ProcessInv, TypeOK
<1>9. Freeing'
  <2>1. <<c, m>> \in Busy
    BY <1>2, <1>4 DEF Busy
  <2>2. ASSUME NEW u \in Tasks, place'[u] \in {"running", "waiting"}
        PROVE  u # <<c, m>> /\ place[u] \in {"running", "waiting"}
    BY <1>2, <1>5, <2>2
  <2>3. Busy' \subseteq Busy \ {<<c, m>>}
    BY <2>2 DEF Busy
  <2> QED BY <1>3, <2>1, <2>3, ThreadGivenBack DEF Freeing
<1>10. TimeOK'
  <2> SUFFICES ASSUME NEW d \in Calls, place'[<<d, 0>>] = "waiting"
               PROVE  /\ \A i \in DOMAIN queue' :
                           queue'[i] = <<d, made'[d]>> => QueuedInTime(d, i)'
                      /\ place'[<<d, made'[d]>>] = "running" => RunningInTime(d)'
    BY DEF TimeOK
  <2>1. d # c
    BY <1>2, <1>4, <1>5
  <2>2. /\ \A k \in 0..MaxNested : place'[<<d, k>>] = place[<<d, k>>]
        /\ place[<<d, 0>>] = "waiting" /\ made[d] \in 0..MaxNested
    BY <1>2, <1>4, <1>5, <2>1
  <2>3. \A i \in DOMAIN queue : QueuedInTime(d, i) => QueuedInTime(d, i)'
    BY <1>3, <1>9 DEF QueuedInTime
  <2>4. <<d, made[d]>> \in long => <<d, made[d]>> \in long'
    BY <1>3, <2>1
  <2>5. RunningInTime(d) => RunningInTime(d)'
    BY <1>3, <2>4 DEF RunningInTime
  <2> QED BY <1>3, <2>2, <2>3, <2>5 DEF PoolOK, TimeOK
<1> QED BY <1>3, <1>6, <1>7, <1>8, <1>10 DEF PoolOK

\* No timeout that is longer than the number of calls expires.
LEMMA NobodyGivesUp ==
  ASSUME ProcessInv, PoolOK, Timeout > Cardinality(Calls), NEW c \in Calls
  PROVE  ~ GiveUp(c)
<1> SUFFICES ASSUME GiveUp(c) PROVE FALSE
  OBVIOUS
<1>1. place[<<c, 0>>] = "waiting" /\ waited[c] = Timeout
  BY DEF GiveUp, Waiting, Handler
<1>2. /\ made[c] > 0 /\ place[<<c, made[c]>>] \in {"queued", "running"}
      /\ <<c, made[c]>> \in Tasks
      /\ Timeout \in Nat \ {0} /\ Cardinality(Calls) \in Nat
  BY <1>1, TaskForm, CallsAreCounted, ProcessAssumption DEF PoolOK, NestedOK, ProcessInv, TypeOK
<1>3. CASE place[<<c, made[c]>>] = "queued"
  <2>1. PICK i \in DOMAIN queue : queue[i] = <<c, made[c]>>
    BY <1>2, <1>3 DEF PoolOK, QueueOK
  <2>2. i \in Nat /\ i > 0
    <3>1. queue \in Seq(Tasks)
      BY DEF ProcessInv, TypeOK
    <3> QED BY <2>1, <3>1
  <2>3. QueuedInTime(c, i)
    BY <1>1, <2>1 DEF PoolOK, TimeOK
  <2> QED BY <1>1, <1>2, <2>2, <2>3 DEF QueuedInTime
<1>4. CASE place[<<c, made[c]>>] = "running"
  <2>1. RunningInTime(c)
    BY <1>1, <1>4 DEF PoolOK, TimeOK
  <2> QED BY <1>1, <1>2, <2>1 DEF RunningInTime
<1> QED BY <1>2, <1>3, <1>4

\* Time passes when all threads are taken, one of them by a nested call, or
\* nothing is queued.
LEMMA TickKeepsPool ==
  ASSUME ProcessInv, PoolOK, Roomy, Tick
  PROVE  PoolOK'
<1>1. /\ UNCHANGED <<config, queue, place, made, failed>>
      /\ long = {} /\ long' = {t \in Tasks : place[t] = "running"}
      /\ queue # <<>> => ~ Idle
      /\ \A c \in Calls :
           waited'[c] = IF place[<<c, 0>>] = "waiting" THEN waited[c] + 1 ELSE waited[c]
  BY DEF Tick, Waiting, Handler
<1>2. NestedOK' /\ QueueOK' /\ LongOK'
  BY <1>1 DEF PoolOK, NestedOK, QueueOK, LongOK
<1>3. ASSUME ~ Idle
      PROVE  Freeing'
  <2>1. PICK c \in Calls, k \in 1..MaxNested : place[<<c, k>>] = "running"
    BY <1>3, NestedRunsWhenFull
  <2>2. <<c, k>> \in Tasks
    BY TaskForm
  <2>3. <<c, k>> \in long'
    BY <1>1, <2>1, <2>2
  <2> QED BY <2>3 DEF Freeing
<1>4. TimeOK'
  <2> SUFFICES ASSUME NEW d \in Calls, place'[<<d, 0>>] = "waiting"
               PROVE  /\ \A i \in DOMAIN queue' :
                           queue'[i] = <<d, made'[d]>> => QueuedInTime(d, i)'
                      /\ place'[<<d, made'[d]>>] = "running" => RunningInTime(d)'
    BY DEF TimeOK
  <2>1. /\ place[<<d, 0>>] = "waiting" /\ waited'[d] = waited[d] + 1
        /\ waited[d] \in Nat /\ Cardinality(Calls) \in Nat
        /\ <<d, made[d]>> \in Tasks
    BY <1>1, TaskForm, CallsAreCounted, ProcessAssumption DEF ProcessInv, TypeOK
  <2>2. ASSUME NEW i \in DOMAIN queue, queue[i] = <<d, made[d]>>
        PROVE  QueuedInTime(d, i)'
    <3>1. queue \in Seq(Tasks)
      BY DEF ProcessInv, TypeOK
    <3>2. queue # <<>> /\ i \in Nat /\ i <= Len(queue) /\ Len(queue) \in Nat
      BY <2>2, <3>1
    <3>3. ~ Idle /\ ~ Freeing /\ Freeing'
      BY <1>1, <1>3, <3>2 DEF Freeing
    <3>4. waited[d] + i < Cardinality(Calls)
      <4>1. CASE waited[d] = 0
        BY <2>1, <3>2, <3>3, <4>1, QueueIsShort
      <4>2. CASE waited[d] > 0
        <5>1. QueuedInTime(d, i)
          BY <2>1, <2>2 DEF PoolOK, TimeOK
        <5> QED BY <3>3, <4>2, <5>1 DEF QueuedInTime
      <4> QED BY <2>1, <4>1, <4>2
    <3>5. waited'[d] + i < Cardinality(Calls) \/ waited'[d] + i = Cardinality(Calls)
      BY <2>1, <3>2, <3>4
    <3> QED BY <3>3, <3>5 DEF QueuedInTime
  <2>3. ASSUME place[<<d, made[d]>>] = "running"
        PROVE  RunningInTime(d)'
    <3>1. RunningInTime(d)
      BY <2>1, <2>3 DEF PoolOK, TimeOK
    <3>2. <<d, made[d]>> \in long' /\ <<d, made[d]>> \notin long
      BY <1>1, <2>1, <2>3
    <3> QED BY <1>1, <2>1, <3>1, <3>2 DEF RunningInTime
  <2> QED BY <1>1, <2>2, <2>3
<1> QED BY <1>1, <1>2, <1>4 DEF PoolOK
\* Nothing is in the pool before the port is bound, whatever its size.
LEMMA EmptyPool == ProcessInv /\ Early => PoolOK
<1> SUFFICES ASSUME ProcessInv, Early PROVE PoolOK
  OBVIOUS
<1>1. NothingYet /\ \A c \in Calls : made[c] \in 0..MaxNested
  BY DEF ProcessInv, TypeOK
<1>2. \A c \in Calls : \A k \in 0..MaxNested : place[<<c, k>>] = "none"
  BY <1>1, TaskForm DEF NothingYet
<1>3. 0 \in 0..MaxNested /\ 1..MaxNested \subseteq 0..MaxNested
  BY ProcessAssumption
<1>4. NestedOK
  BY <1>2, <1>3 DEF NestedOK
<1>5. DOMAIN queue = {}
  BY <1>1 DEF NothingYet
<1>6. QueueOK
  BY <1>1, <1>5 DEF QueueOK, NothingYet
<1>7. TimeOK
  BY <1>2, <1>3 DEF TimeOK
<1> QED BY <1>1, <1>4, <1>6, <1>7 DEF PoolOK, LongOK, NothingYet

LEMMA EmptyPoolLater == (ProcessInv /\ Early => PoolOK)'
BY EmptyPool, PTL

LEMMA QuietStepKeepsPool ==
  ASSUME PoolOK, UNCHANGED <<config, queue, place, long, made, waited, failed>>
  PROVE  PoolOK'
<1>1. Busy' = Busy
  BY DEF Busy
<1>2. Idle' <=> Idle
  BY <1>1 DEF Idle
<1>3. Freeing' <=> Freeing
  BY <1>2 DEF Freeing
<1>4. \A c \in Calls : \A i \in DOMAIN queue : QueuedInTime(c, i) => QueuedInTime(c, i)'
  BY <1>3 DEF QueuedInTime
<1>5. \A c \in Calls : RunningInTime(c) => RunningInTime(c)'
  BY DEF RunningInTime
<1>6. TimeOK'
  BY <1>4, <1>5 DEF PoolOK, TimeOK
<1> QED BY <1>6 DEF PoolOK, NestedOK, QueueOK, LongOK

LEMMA PoolInvIsInductive ==
  Timeout > Cardinality(Calls) /\ ProcessInv /\ PoolInv /\ [Next]_vars => PoolInv'
<1> SUFFICES ASSUME Timeout > Cardinality(Calls), ProcessInv, PoolInv, [Next]_vars, Roomy'
             PROVE  PoolOK'
  BY DEF PoolInv
<1>1. ProcessInv'
  BY ProcessInvIsInductive
<1>2. CASE Early'
  BY <1>1, <1>2, EmptyPoolLater
<1>3. CASE ~ Early'
  <2>1. ~ Configure
    BY <1>3 DEF Configure, Early
  <2>2. CASE UNCHANGED <<kind, config>>
    <3>1. Roomy /\ PoolOK
      BY <2>2 DEF Roomy, PoolInv
    <3>2. CASE Bind \/ Signal \/ StopServer \/ EndProcess
      BY <3>1, <3>2, QuietStepKeepsPool DEF Bind, Signal, StopServer, EndProcess, calls
    <3>3. CASE Dispatch
      BY <3>1, <3>3, DispatchKeepsPool
    <3>4. CASE Tick
      BY <3>1, <3>4, TickKeepsPool
    <3>5. ASSUME NEW c \in Calls, Accept(c)
          PROVE  PoolOK'
      <4>1. CASE Serving
        BY <3>1, <3>5, <4>1, AcceptKeepsPool
      <4>2. CASE ~ Serving
        <5>1. UNCHANGED <<config, queue, place, long, made, waited, failed>>
          BY <3>5, <4>2 DEF Accept, process
        <5> QED BY <3>1, <5>1, QuietStepKeepsPool
      <4> QED BY <4>1, <4>2
    <3>6. ASSUME NEW c \in Calls, Step(c)
          PROVE  PoolOK'
      BY <3>1, <3>6, CallStoppedStoreKeepsPool, ReturnKeepsPool, CallStoreKeepsPool
         DEF Step, Roomy
    <3>7. ASSUME NEW c \in Calls, GiveUp(c)
          PROVE  PoolOK'
      BY <3>1, <3>7, NobodyGivesUp
    <3>8. ASSUME NEW t \in Tasks, EndNested(t)
          PROVE  PoolOK'
      BY <3>1, <3>8, EndNestedKeepsPool
    <3>9. CASE UNCHANGED vars
      BY <3>1, <3>9, QuietStepKeepsPool DEF vars
    <3> QED BY <2>1, <3>2, <3>3, <3>4, <3>5, <3>6, <3>7, <3>8, <3>9 DEF Next
  <2>3. UNCHANGED <<kind, config>>
    BY <2>1 DEF Next, vars, Bind, Signal, StopServer, EndProcess, Dispatch, Tick, Accept, Step,
                GiveUp, EndNested, CallStoppedStore, CallStore, EndHandler, EndUnconfigured,
                Return, process
  <2> QED BY <2>2, <2>3
<1> QED BY <1>2, <1>3

\* In a monolith node with more threads than calls in hand, no nested call
\* times out that is given a tick more than there are calls: in whatever order
\* handlers and nested calls get the threads, and whenever the node stops.
THEOREM LoopbackCallsEndInTime ==
  ASSUME Timeout > Cardinality(Calls)
  PROVE  Spec => []LoopbackCallsAreInTime
<1>1. Init => PoolInv
  BY ProcessInvHoldsAtFirst, EmptyPool DEF Init, Early, PoolInv
<1>2. ProcessInv /\ PoolInv /\ [Next]_vars => PoolInv'
  BY PoolInvIsInductive
<1>3. PoolInv => LoopbackCallsAreInTime
  BY DEF PoolInv, Roomy, PoolOK, LoopbackCallsAreInTime
<1> QED BY <1>1, <1>2, <1>3, ProcessInvariant, PTL DEF Spec
=============================================================================
