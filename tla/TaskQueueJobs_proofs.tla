------------------------ MODULE TaskQueueJobs_proofs -----------------------
(***************************************************************************)
(* The life of a job in the whole system, for any number of calls,         *)
(* workers, handlers, keys, specs and failures.                            *)
(*                                                                         *)
(* Four arguments, each on top of the one before.  First, whatever the     *)
(* system does to a store, on time or late, is a step of that service: so  *)
(* what is proved of the services holds in the system.  Second, every id   *)
(* that a component holds was issued, and the requests that are sent ask   *)
(* for four transitions only: so what happens to a record and its envelope *)
(* is a step of JobLifecycle.  Third, a job that has left QUEUED does not  *)
(* come back.  Fourth, the one claim that is applied is a token: at most   *)
(* one handler or worker holds it, and running the job uses it up.         *)
(***************************************************************************)
EXTENDS TaskQueue_proofs

\* The transitions that the gateway and the coordinator ask for: they leave
\* out the RUNNING to CANCELED that the Job service would allow.
UsedTransitions ==
  { <<"QUEUED", "RUNNING">>, <<"QUEUED", "CANCELED">>,
    <<"RUNNING", "DONE">>, <<"RUNNING", "FAILED">> }

Named == issued \cup {NoJob}

\* A request that is sent: CreateJob alone may name a job that is not there.
Formed(m, names) ==
  /\ m.rpc # "CreateJob" => m.job \in names
  /\ m.rpc = "DeleteJobIfStatus" => m.from = "QUEUED"
  /\ m.rpc = "TransitionJobStatus" => <<m.from, m.to>> \in UsedTransitions

Sent(m) == GoodMessage(m, results) /\ Formed(m, Named)

\* Every id that is in use was issued.
NamesOK ==
  /\ queue \in Seq(issued)
  /\ \A f \in Faults : Formed(late[f], Named)
  /\ \A c \in Calls : calls[c].job \in Named
  /\ \A h \in Handlers : handlers[h].job \in Named
  /\ \A w \in Workers : workers[w].job \in Named

\* What the steps of the system start from.
LifeInv == Inv /\ DedupInv /\ NamesOK

LifecycleStep == [Lifecycle!Next]_(Lifecycle!vars)
-----------------------------------------------------------------------------
(***************************************************************************)
(* Serving a request is a step of the service that it is sent to.          *)
(***************************************************************************)
ServiceSteps == [JobNext]_jobVars /\ [QueueNext]_queueVars /\ [ResultNext]_resultVars

LEMMA ServeIsAServiceStep ==
  ASSUME NEW m, GoodMessage(m, results), Serve(m)
  PROVE  ServiceSteps
<1> USE DEF ServiceSteps
<1>1. CASE ServeJob(m) /\ UNCHANGED <<queue, results>>
  <2>1. JobNext
    <3>1. CASE m.rpc = "CreateJob" /\ CreateJob(m.spec, m.key, m.job)
      <4>1. m.spec \in Specs /\ m.key \in Keys \cup {NoKey} /\ m.job \in JobIds
        BY <3>1 DEF GoodMessage, Messages, WriteRpcs, AnyKey
      <4> QED BY <3>1, <4>1 DEF JobNext
    <3>2. CASE m.rpc = "DeleteJobIfStatus" /\ DeleteJobIfStatus(m.job, m.from)
      <4>1. m.job \in JobIds /\ m.from \in AnyStatus
        BY <3>2 DEF GoodMessage, Messages, WriteRpcs
      <4> QED BY <3>2, <4>1 DEF JobNext
    <3>3. CASE /\ m.rpc = "TransitionJobStatus"
               /\ \E now \in Times : TransitionJobStatus(m.job, m.from, m.to, now)
      <4>1. m.job \in JobIds /\ m.from \in AnyStatus /\ m.to \in AnyStatus
        BY <3>3 DEF GoodMessage, Messages, WriteRpcs
      <4> QED BY <3>3, <4>1 DEF JobNext
    <3>4. CASE m.rpc = "SetCancelRequested" /\ SetCancelRequested(m.job, TRUE)
      <4>1. m.job \in JobIds
        BY <3>4 DEF GoodMessage, WriteRpcs
      <4> QED BY <3>4, <4>1 DEF JobNext
    <3> QED BY <1>1, <3>1, <3>2, <3>3, <3>4 DEF ServeJob
  <2> QED BY <1>1, <2>1 DEF queueVars, resultVars
<1>2. CASE ServeQueue(m) /\ UNCHANGED <<jobs, dedup, issued, results>>
  <2>1. QueueNext
    BY <1>2 DEF ServeQueue, QueueNext, GoodMessage, WriteRpcs
  <2> QED BY <1>2, <2>1 DEF jobVars, resultVars
<1>3. CASE /\ m.rpc = "StoreResult"
           /\ StoreResult(m.job, m.to, m.spec \in BigSpecs)
           /\ UNCHANGED <<jobs, dedup, issued, queue>>
  <2> DEFINE big == m.spec \in BigSpecs
  <2>1. m.job \in JobIds /\ m.to \in AnyStatus /\ big \in BOOLEAN
    BY <1>3 DEF GoodMessage, Messages, WriteRpcs
  <2>2. StoreResult(m.job, m.to, big)
    BY <1>3, Zenon
  <2> HIDE DEF big
  <2>3. ResultNext
    BY <2>1, <2>2 DEF ResultNext
  <2> QED BY <1>3, <2>3 DEF jobVars, queueVars
<1>4. CASE m.rpc \in ReadRpcs /\ UNCHANGED stores
  BY <1>4 DEF stores, jobVars, queueVars, resultVars
<1> QED BY <1>1, <1>2, <1>3, <1>4 DEF Serve
-----------------------------------------------------------------------------
(***************************************************************************)
(* Serving a request is a step in the life of one job, or of none.         *)
(***************************************************************************)
LEMMA QueueStaysIn ==
  ASSUME NEW S, queue \in Seq(S), NEW j,
         (EnqueueJob(j) /\ j \in S) \/ DequeueJob \/ RemoveJobIfPresent(j)
  PROVE  queue' \in Seq(S)
<1>1. CASE EnqueueJob(j) /\ j \in S
  BY <1>1, AppendProperties DEF EnqueueJob
<1>2. CASE DequeueJob
  BY <1>2, HeadTailProperties DEF DequeueJob
<1>3. CASE RemoveJobIfPresent(j)
  <2>1. DOMAIN queue = 1..Len(queue)
    BY LenProperties
  <2> QED BY <1>3, <2>1, RemoveAtProperties DEF RemoveJobIfPresent
<1> QED BY <1>1, <1>2, <1>3

\* The status of job j alone becomes s.
Becomes(j, s) ==
  [k \in JobIds |-> jobs[k].status]' = [[k \in JobIds |-> jobs[k].status] EXCEPT ![j] = s]

LEMMA ReplacedRecord ==
  ASSUME JobTypeOK, NEW j \in JobIds, NEW rec, jobs' = [jobs EXCEPT ![j] = rec]
  PROVE  Becomes(j, rec.status)
BY DEF JobTypeOK, Becomes

\* The Job service takes a job from one stage of its life to the next.
LEMMA ServeJobIsALifecycleStep ==
  ASSUME StoresOK, JobInv, NEW m, Sent(m), ServeJob(m), UNCHANGED results
  PROVE  LifecycleStep /\ issued \subseteq issued'
<1> USE DEF LifecycleStep
<1> DEFINE st == [k \in JobIds |-> jobs[k].status]
<1>1. JobTypeOK
  BY DEF StoresOK
<1>2. m.rpc \in {"CreateJob", "DeleteJobIfStatus", "TransitionJobStatus", "SetCancelRequested"}
      /\ m.job \in JobIds
  BY DEF ServeJob, Sent, GoodMessage, WriteRpcs
<1>3. CASE m.rpc = "CreateJob" /\ CreateJob(m.spec, m.key, m.job)
  <2>1. CASE UNCHANGED <<jobs, issued>>
    BY <2>1 DEF Lifecycle!vars
  <2>2. CASE /\ m.job \notin issued
             /\ issued' = issued \cup {m.job}
             /\ jobs' = [jobs EXCEPT ![m.job] = NewRecord(m.spec)]
    <3>1. Becomes(m.job, "QUEUED")
      <4>1. NewRecord(m.spec).status = "QUEUED"
        BY DEF NewRecord
      <4>2. Becomes(m.job, NewRecord(m.spec).status)
        BY <1>1, <1>2, <2>2, ReplacedRecord
      <4> QED BY <4>1, <4>2
    <3>2. Lifecycle!Accept(m.job)
      BY <2>2, <3>1 DEF Lifecycle!Accept, Becomes
    <3> QED BY <1>2, <2>2, <3>2 DEF Lifecycle!Next
  <2> QED BY <1>3, <2>1, <2>2 DEF CreateJob
<1>4. CASE m.rpc = "DeleteJobIfStatus" /\ DeleteJobIfStatus(m.job, m.from)
  <2>1. CASE jobs[m.job].status = "QUEUED" /\ jobs' = [jobs EXCEPT ![m.job] = NoRecord]
    <3>1. Becomes(m.job, UNSPECIFIED)
      <4>1. NoRecord.status = UNSPECIFIED
        BY DEF NoRecord
      <4>2. Becomes(m.job, NoRecord.status)
        BY <1>1, <1>2, <2>1, ReplacedRecord
      <4> QED BY <4>1, <4>2
    <3>2. Lifecycle!Withdraw(m.job)
      BY <1>2, <1>4, <2>1, <3>1
         DEF Lifecycle!Withdraw, Lifecycle!UNSPECIFIED, UNSPECIFIED, Becomes, DeleteJobIfStatus
    <3> QED BY <1>2, <1>4, <3>2 DEF Lifecycle!Next, DeleteJobIfStatus
  <2>2. CASE UNCHANGED jobs
    BY <1>4, <2>2 DEF Lifecycle!vars, DeleteJobIfStatus
  <2> QED BY <1>4, <2>1, <2>2 DEF DeleteJobIfStatus, Sent, Formed
<1>5. CASE /\ m.rpc = "TransitionJobStatus"
           /\ \E now \in Times : TransitionJobStatus(m.job, m.from, m.to, now)
  <2>1. PICK now \in Times : TransitionJobStatus(m.job, m.from, m.to, now)
    BY <1>5
  <2>2. CASE Matches(m.job, m.from, m.to) /\ <<m.from, m.to>> \in AllowedTransitions
    <3>1. jobs[m.job] \in JobRecord /\ jobs[m.job].status = m.from /\ m.to \in JobStatus
      BY <1>1, <1>2, <2>2, KnownRecord
         DEF Matches, AllowedTransitions, JobStatus, TerminalStatuses
    <3>2. Transitioned(jobs[m.job], m.to, now).status = m.to
      BY <3>1, TransitionedFields
    <3>3. Becomes(m.job, m.to)
      BY <1>1, <1>2, <2>1, <2>2, <3>2, ReplacedRecord DEF TransitionJobStatus
    <3>4. st[m.job] = m.from /\ UNCHANGED <<issued, results>>
      BY <1>2, <2>1, <3>1 DEF TransitionJobStatus
    <3>5. <<m.from, m.to>> \in UsedTransitions
      BY <1>5 DEF Sent, Formed
    <3>6. m.to \in TerminalStatuses => results[m.job] # UNSPECIFIED
      BY <1>5 DEF Sent, GoodMessage, NoEnvelope
    <3>7. CASE m.from = "QUEUED" /\ m.to = "RUNNING"
      <4>1. Lifecycle!Claim(m.job)
        BY <3>3, <3>4, <3>7 DEF Lifecycle!Claim, Becomes
      <4> QED BY <1>2, <3>4, <4>1 DEF Lifecycle!Next
    <3>8. CASE <<m.from, m.to>> \in {<<"RUNNING", "DONE">>, <<"RUNNING", "FAILED">>,
                                     <<"QUEUED", "CANCELED">>}
      <4>1. m.to \in TerminalStatuses
        BY <3>8 DEF TerminalStatuses
      <4>2. Lifecycle!End(m.job, m.to)
        BY <3>3, <3>4, <3>6, <3>8, <4>1
           DEF Lifecycle!End, Lifecycle!UNSPECIFIED, UNSPECIFIED, Becomes
      <4> QED BY <1>2, <3>4, <4>1, <4>2
              DEF Lifecycle!Next, Lifecycle!TerminalStatuses, TerminalStatuses
    <3> QED BY <3>5, <3>7, <3>8 DEF UsedTransitions
  <2>3. CASE ~ (Matches(m.job, m.from, m.to) /\ <<m.from, m.to>> \in AllowedTransitions)
    BY <2>1, <2>3 DEF TransitionJobStatus, Lifecycle!vars
  <2> QED BY <2>2, <2>3
<1>6. CASE m.rpc = "SetCancelRequested" /\ SetCancelRequested(m.job, TRUE)
  <2>1. \A k \in JobIds : jobs'[k].status = jobs[k].status
    <3>1. CASE Known(m.job)
      <4>1. jobs[m.job] \in JobRecord
        BY <1>1, <1>2, <3>1, KnownRecord
      <4> QED BY <1>1, <1>6, <4>1 DEF SetCancelRequested, JobTypeOK, JobRecord
    <3>2. CASE ~ Known(m.job)
      BY <1>6, <3>2 DEF SetCancelRequested
    <3> QED BY <3>1, <3>2
  <2>2. st' = st
    BY <2>1
  <2> QED BY <1>6, <2>2 DEF SetCancelRequested, Lifecycle!vars
<1> QED BY <1>3, <1>4, <1>5, <1>6 DEF ServeJob
\* Whatever request a service executes: the records, the queue and the index
\* name issued jobs, and one job at most takes a step of its life.
LEMMA ServeIsALifecycleStep ==
  ASSUME LifeInv, NEW m, Sent(m), Serve(m)
  PROVE  LifecycleStep /\ issued \subseteq issued' /\ queue' \in Seq(issued') /\ DedupInv'
<1> USE DEF LifeInv, LifecycleStep
<1>1. StoresOK /\ JobInv /\ StoresOK' /\ JobTypeOK'
  BY ServeKeeps DEF Inv, DedupInv, Sent, StoresOK
<1>2. [JobNext]_jobVars
  BY ServeIsAServiceStep DEF Sent, ServiceSteps
<1>3. DedupInv'
  BY <1>1, <1>2, JobInvIsInductive, DedupInvIsInductive
<1>4. CASE ServeJob(m) /\ UNCHANGED <<queue, results>>
  <2>1. LifecycleStep /\ issued \subseteq issued'
    BY <1>1, <1>4, ServeJobIsALifecycleStep
  <2> QED BY <1>3, <1>4, <2>1, SeqMonotonic DEF NamesOK
<1>5. CASE ServeQueue(m) /\ UNCHANGED <<jobs, dedup, issued, results>>
  <2>1. m.rpc = "EnqueueJob" => m.job \in issued
    BY NullsAssumption DEF Sent, Formed, Named, GoodMessage, WriteRpcs
  <2>2. queue' \in Seq(issued)
    BY <1>5, <2>1, QueueStaysIn DEF ServeQueue, NamesOK
  <2> QED BY <1>3, <1>5, <2>2 DEF Lifecycle!vars
<1>6. CASE /\ m.rpc = "StoreResult"
           /\ StoreResult(m.job, m.to, m.spec \in BigSpecs)
           /\ UNCHANGED <<jobs, dedup, issued, queue>>
  <2>1. m.job \in issued /\ m.job \in JobIds
    BY <1>6, NullsAssumption DEF Sent, Formed, Named, GoodMessage, WriteRpcs
  <2>2. CASE /\ m.to \in TerminalStatuses
             /\ results[m.job] = UNSPECIFIED
             /\ results' = [results EXCEPT ![m.job] = m.to]
    <3>1. Lifecycle!Record(m.job, m.to)
      BY <1>6, <2>1, <2>2 DEF Lifecycle!Record, Lifecycle!UNSPECIFIED, UNSPECIFIED
    <3> QED BY <1>3, <1>6, <2>1, <2>2, <3>1
            DEF NamesOK, Lifecycle!Next, Lifecycle!TerminalStatuses, TerminalStatuses
  <2>3. CASE UNCHANGED results
    BY <1>3, <1>6, <2>3 DEF NamesOK, Lifecycle!vars
  <2> QED BY <1>6, <2>2, <2>3 DEF StoreResult, Acceptable, HasEnvelope, NoEnvelope
<1>7. CASE m.rpc \in ReadRpcs /\ UNCHANGED stores
  BY <1>3, <1>7 DEF stores, NamesOK, Lifecycle!vars
<1> QED BY <1>4, <1>5, <1>6, <1>7 DEF Serve
-----------------------------------------------------------------------------
(***************************************************************************)
(* Every step of a component sends one request, formed as above.           *)
(***************************************************************************)
\* Call c sends m, gets r and goes on as call; the like for handler h.
CallStep(c, m, r, call) ==
  /\ Sent(m) /\ Called(m, r)
  /\ calls' = [calls EXCEPT ![c] = call]
  /\ UNCHANGED <<live, handlers, workers, runs>>

HandlerRpc(h, m, r, handler) ==
  /\ Sent(m) /\ Called(m, r)
  /\ handlers' = [handlers EXCEPT ![h] = handler]
  /\ UNCHANGED <<live, workers, calls, runs>>

\* A call that has started holds an issued job, and so does a handler.
LEMMA CallIsNamed ==
  ASSUME LifeInv, NEW c \in Calls, calls[c].pc \notin {"idle", "done"}
  PROVE  calls[c] \in CallRecord /\ calls[c].job \in JobIds /\ calls[c].job \in issued
BY NullsAssumption DEF LifeInv, Inv, CallsOK, GoodCall, NamesOK, Named

LEMMA HandlerIsNamed ==
  ASSUME LifeInv, NEW h \in Handlers, handlers[h].pc \notin {"idle", "dequeue", "answer"}
  PROVE  handlers[h] \in HandlerRecord /\ handlers[h].job \in JobIds /\ handlers[h].job \in issued
BY NullsAssumption DEF LifeInv, Inv, HandlersOK, GoodHandler, NamesOK, Named

\* The requests.
LEMMA RequestFields ==
  ASSUME NEW rpc, NEW j
  PROVE  Request(rpc, j).rpc = rpc /\ Request(rpc, j).job = j
BY DEF Request, Message

LEMMA PlainIsSent ==
  ASSUME NEW rpc \in {"GetJobRecord", "GetResult", "SetCancelRequested", "EnqueueJob",
                      "RemoveJobIfPresent"},
         NEW j \in JobIds, j \in issued
  PROVE  Sent(Request(rpc, j))
BY PlainIsGood, RequestFields DEF Sent, Formed, Named

LEMMA DequeueIsSent == Sent(Request("DequeueJob", NoJob))
BY DequeueIsGood, RequestFields DEF Sent, Formed, Named

LEMMA CreateIsSent ==
  ASSUME NEW j \in JobIds, NEW spec \in Specs, NEW key \in AnyKey
  PROVE  Sent(CreateRequest(j, spec, key))
BY CreateIsGood DEF Sent, Formed, CreateRequest, Message

LEMMA DeleteIsSent ==
  ASSUME NEW j \in JobIds, j \in issued
  PROVE  Sent(DeleteRequest(j, "QUEUED"))
<1>1. GoodMessage(DeleteRequest(j, "QUEUED"), results)
  BY DeleteIsGood DEF AnyStatus, JobStatus
<1> QED BY <1>1 DEF Sent, Formed, Named, DeleteRequest, Message

LEMMA TransitionIsSent ==
  ASSUME NEW j \in JobIds, j \in issued, NEW from, NEW to, <<from, to>> \in UsedTransitions,
         to \in TerminalStatuses => results[j] # NoEnvelope
  PROVE  Sent(TransitionRequest(j, from, to))
<1>1. from \in AnyStatus /\ to \in AnyStatus
  BY DEF UsedTransitions, AnyStatus, JobStatus, TerminalStatuses
<1>2. GoodMessage(TransitionRequest(j, from, to), results)
  BY <1>1, TransitionIsGood
<1> QED BY <1>2 DEF Sent, Formed, Named, TransitionRequest, Message

LEMMA StoreIsSent ==
  ASSUME NEW j \in JobIds, j \in issued, NEW status \in TerminalStatuses, NEW spec \in AnySpec
  PROVE  Sent(StoreRequest(j, status, spec))
<1>1. GoodMessage(StoreRequest(j, status, spec), results)
  BY StoreIsGood DEF AnyStatus, JobStatus
<1> QED BY <1>1 DEF Sent, Formed, Named, StoreRequest, Message
(* The gateway. *)

Submitted(c, spec, key) == [calls[c] EXCEPT !.op = "submit", !.spec = spec, !.key = key]
Started(c, op, j) == [calls[c] EXCEPT !.op = op, !.job = j]

LEMMA SubmitJobRpc ==
  ASSUME LifeInv, NEW c \in Calls, SubmitJob(c)
  PROVE  \E spec \in Specs, key \in AnyKey : \E r :
           CallStep(c, CreateRequest(c, spec, key), r, AfterCreate(Submitted(c, spec, key), r))
<1>1. PICK spec \in Specs, key \in AnyKey :
        GatewayCall(c, CreateRequest(c, spec, key), LAMBDA r : AfterCreate(Submitted(c, spec, key), r))
  BY DEF SubmitJob, Submitted
<1>2. Sent(CreateRequest(c, spec, key))
  BY CreateIsSent DEF Calls
<1> QED BY <1>1, <1>2 DEF GatewayCall, CallStep, Called

LEMMA SubmitEnqueueRpc ==
  ASSUME LifeInv, NEW c \in Calls, SubmitEnqueue(c)
  PROVE  \E r : CallStep(c, Request("EnqueueJob", calls[c].job), r, AfterEnqueue(calls[c], r))
<1>1. Sent(Request("EnqueueJob", calls[c].job))
  BY CallIsNamed, PlainIsSent DEF SubmitEnqueue
<1> QED BY <1>1 DEF SubmitEnqueue, GatewayCall, CallStep, Called

LEMMA SubmitCompensateRpc ==
  ASSUME LifeInv, NEW c \in Calls, SubmitCompensate(c)
  PROVE  \E r : CallStep(c, DeleteRequest(calls[c].job, "QUEUED"), r,
                         Fail(calls[c], "UNAVAILABLE"))
<1>1. Sent(DeleteRequest(calls[c].job, "QUEUED"))
  BY CallIsNamed, DeleteIsSent DEF SubmitCompensate
<1> QED BY <1>1 DEF SubmitCompensate, GatewayCall, CallStep, Called

LEMMA CancelJobRpc ==
  ASSUME LifeInv, NEW c \in Calls, CancelJob(c)
  PROVE  \E j \in issued : \E r :
           CallStep(c, Request("GetJobRecord", j), r, AfterCancelRead(Started(c, "cancel", j), r))
<1>1. PICK j \in issued :
        GatewayCall(c, Request("GetJobRecord", j),
                    LAMBDA r : AfterCancelRead(Started(c, "cancel", j), r))
  BY DEF CancelJob, Started
<1>2. Sent(Request("GetJobRecord", j))
  BY PlainIsSent DEF LifeInv, Inv, StoresOK, JobTypeOK
<1> QED BY <1>1, <1>2 DEF GatewayCall, CallStep, Called

LEMMA GetJobResultRpc ==
  ASSUME LifeInv, NEW c \in Calls, GetJobResult(c)
  PROVE  \E j \in issued : \E r :
           CallStep(c, Request("GetJobRecord", j), r, AfterResultRead(Started(c, "read", j), r))
<1>1. PICK j \in issued :
        GatewayCall(c, Request("GetJobRecord", j),
                    LAMBDA r : AfterResultRead(Started(c, "read", j), r))
  BY DEF GetJobResult, Started
<1>2. Sent(Request("GetJobRecord", j))
  BY PlainIsSent DEF LifeInv, Inv, StoresOK, JobTypeOK
<1> QED BY <1>1, <1>2 DEF GatewayCall, CallStep, Called

LEMMA CancelRemoveRpc ==
  ASSUME LifeInv, NEW c \in Calls, CancelRemove(c)
  PROVE  \E r : CallStep(c, Request("RemoveJobIfPresent", calls[c].job), r,
                         AfterRemove(calls[c], r))
<1>1. Sent(Request("RemoveJobIfPresent", calls[c].job))
  BY CallIsNamed, PlainIsSent DEF CancelRemove
<1> QED BY <1>1 DEF CancelRemove, GatewayCall, CallStep, Called

LEMMA CancelStoreRpc ==
  ASSUME LifeInv, NEW c \in Calls, CancelStore(c)
  PROVE  \E r : CallStep(c, StoreRequest(calls[c].job, "CANCELED", NoSpec), r,
                         AfterCancelStore(calls[c], r))
<1>1. Sent(StoreRequest(calls[c].job, "CANCELED", NoSpec))
  BY CallIsNamed, StoreIsSent DEF CancelStore, TerminalStatuses, AnySpec
<1> QED BY <1>1 DEF CancelStore, GatewayCall, CallStep, Called

LEMMA CancelTransitionRpc ==
  ASSUME LifeInv, NEW c \in Calls, CancelTransition(c)
  PROVE  \E r : CallStep(c, TransitionRequest(calls[c].job, "QUEUED", "CANCELED"), r,
                         AfterCancelTransition(calls[c], r))
<1>1. results[calls[c].job] # NoEnvelope
  BY DEF CancelTransition, LifeInv, Inv, CallsOK, GoodCall
<1>2. Sent(TransitionRequest(calls[c].job, "QUEUED", "CANCELED"))
  BY <1>1, CallIsNamed, TransitionIsSent DEF CancelTransition, UsedTransitions
<1> QED BY <1>2 DEF CancelTransition, GatewayCall, CallStep, Called

LEMMA CancelFlagRpc ==
  ASSUME LifeInv, NEW c \in Calls, CancelFlag(c)
  PROVE  \E r : CallStep(c, Request("SetCancelRequested", calls[c].job), r,
                         AfterFlag(calls[c], r))
<1>1. Sent(Request("SetCancelRequested", calls[c].job))
  BY CallIsNamed, PlainIsSent DEF CancelFlag
<1> QED BY <1>1 DEF CancelFlag, GatewayCall, CallStep, Called

LEMMA ReadEnvelopeRpc ==
  ASSUME LifeInv, NEW c \in Calls, ReadEnvelope(c)
  PROVE  \E r : CallStep(c, Request("GetResult", calls[c].job), r, AfterGetResult(calls[c], r))
<1>1. Sent(Request("GetResult", calls[c].job))
  BY CallIsNamed, PlainIsSent DEF ReadEnvelope
<1> QED BY <1>1 DEF ReadEnvelope, GatewayCall, CallStep, Called

\* No reply but the one to CreateJob changes the job of a call.
LEMMA CallKeepsJob ==
  ASSUME NEW call \in CallRecord, NEW r, NEW code, NEW status, NEW already
  PROVE  /\ Fail(call, code).job = call.job
         /\ Respond(call, status, already).job = call.job
         /\ AfterEnqueue(call, r).job = call.job
         /\ AfterCancelRead(call, r).job = call.job
         /\ AfterRemove(call, r).job = call.job
         /\ AfterCancelStore(call, r).job = call.job
         /\ AfterCancelTransition(call, r).job = call.job
         /\ AfterFlag(call, r).job = call.job
         /\ AfterResultRead(call, r).job = call.job
         /\ AfterGetResult(call, r).job = call.job
<1> USE DEF CallRecord, Fail, Respond
<1>1. Fail(call, code).job = call.job /\ Respond(call, status, already).job = call.job
  OBVIOUS
<1>2. AfterEnqueue(call, r).job = call.job
  BY DEF AfterEnqueue
<1>3. AfterCancelRead(call, r).job = call.job
  BY DEF AfterCancelRead
<1>4. AfterRemove(call, r).job = call.job
  BY DEF AfterRemove
<1>5. AfterCancelStore(call, r).job = call.job
  BY DEF AfterCancelStore
<1>6. AfterCancelTransition(call, r).job = call.job
  BY DEF AfterCancelTransition
<1>7. AfterFlag(call, r).job = call.job
  BY DEF AfterFlag
<1>8. AfterResultRead(call, r).job = call.job
  BY DEF AfterResultRead
<1>9. AfterGetResult(call, r).job = call.job
  BY DEF AfterGetResult
<1> QED BY <1>1, <1>2, <1>3, <1>4, <1>5, <1>6, <1>7, <1>8, <1>9
-----------------------------------------------------------------------------
(***************************************************************************)
(* The names and the stores after a step.                                  *)
(***************************************************************************)
\* What a step does to the stores and to the requests that are late.
StoresStep ==
  /\ LifecycleStep /\ ServiceSteps /\ DedupInv'
  /\ issued \subseteq issued' /\ queue' \in Seq(issued')
  /\ \A f \in Faults : Formed(late'[f], Named')

StepOK == LifecycleStep /\ ServiceSteps /\ DedupInv' /\ NamesOK'

LEMMA FormedStays ==
  ASSUME NEW m, Formed(m, Named), issued \subseteq issued'
  PROVE  Formed(m, Named')
BY DEF Formed, Named

LEMMA StoresUnchanged ==
  ASSUME LifeInv, UNCHANGED stores
  PROVE  LifecycleStep /\ ServiceSteps /\ DedupInv' /\ issued = issued' /\ queue' \in Seq(issued')
<1>1. LifecycleStep
  BY DEF stores, LifecycleStep, Lifecycle!vars
<1>2. ServiceSteps
  BY DEF stores, ServiceSteps, jobVars, queueVars, resultVars
<1>3. DedupInv'
  BY DEF stores, LifeInv, DedupInv, JobInv, JobTypeOK, DedupIsSound, Known
<1> QED BY <1>1, <1>2, <1>3 DEF stores, LifeInv, NamesOK

LEMMA SpentIsFormed ==
  ASSUME NEW names, NoJob \in names
  PROVE  Formed(Spent, names) /\ Formed(NoMessage, names)
BY DEF Spent, NoMessage, Request, Message, Formed

LEMMA LoseKeepsNames ==
  ASSUME LifeInv, NEW m, Formed(m, Named), Lose(m)
  PROVE  \A f \in Faults : Formed(late'[f], Named)
<1>1. PICK f \in Faults : late' = [late EXCEPT ![f] = m]
  BY DEF Lose
<1>2. late \in [Faults -> Messages]
  BY DEF LifeInv, Inv, LateOK
<1> QED BY <1>1, <1>2 DEF LifeInv, NamesOK

LEMMA CalledStep ==
  ASSUME LifeInv, NEW m, NEW r, Sent(m), Called(m, r)
  PROVE  StoresStep
<1>1. CASE Serve(m) /\ UNCHANGED late
  <2>1. LifecycleStep /\ issued \subseteq issued' /\ queue' \in Seq(issued') /\ DedupInv'
    BY <1>1, ServeIsALifecycleStep
  <2>2. ServiceSteps
    BY <1>1, ServeIsAServiceStep DEF Sent
  <2>3. \A f \in Faults : Formed(late'[f], Named')
    BY <1>1, <2>1, FormedStays DEF LifeInv, NamesOK
  <2> QED BY <2>1, <2>2, <2>3 DEF StoresStep
<1>2. CASE Lose(m) /\ UNCHANGED stores
  <2>1. \A f \in Faults : Formed(late'[f], Named)
    BY <1>2, LoseKeepsNames DEF Sent
  <2> QED BY <1>2, <2>1, StoresUnchanged DEF StoresStep, Named
<1> QED BY <1>1, <1>2 DEF Called

LEMMA CallStepIsOK ==
  ASSUME LifeInv, NEW c \in Calls, NEW m, NEW r, NEW call, CallStep(c, m, r, call),
         call.job \in Named'
  PROVE  StepOK
<1>1. StoresStep
  BY CalledStep DEF CallStep
<1>2. \A d \in Calls : calls'[d].job \in Named'
  BY <1>1 DEF CallStep, LifeInv, Inv, CallsOK, NamesOK, StoresStep, Named
<1> QED BY <1>1, <1>2 DEF CallStep, StoresStep, StepOK, LifeInv, NamesOK, Named

LEMMA HandlerRpcIsOK ==
  ASSUME LifeInv, NEW h \in Handlers, NEW m, NEW r, NEW handler, HandlerRpc(h, m, r, handler),
         handler.job \in Named'
  PROVE  StepOK
<1>1. StoresStep
  BY CalledStep DEF HandlerRpc
<1>2. \A g \in Handlers : handlers'[g].job \in Named'
  BY <1>1 DEF HandlerRpc, LifeInv, Inv, HandlersOK, NamesOK, StoresStep, Named
<1> QED BY <1>1, <1>2 DEF HandlerRpc, StoresStep, StepOK, LifeInv, NamesOK, Named
\* A reply to CreateJob names the fresh id or a job the index knows.
LEMMA CreatedIsIssued ==
  ASSUME LifeInv, NEW m, NEW r, Sent(m), m.rpc = "CreateJob", Called(m, r), r.code = "OK"
  PROVE  r.job \in issued'
<1>1. Serve(m) /\ r = CreateJobReply(m.spec, m.key, m.job)
  BY DEF Called, RpcError, ErrorReply, ReplyTo
<1>2. CreateJob(m.spec, m.key, m.job)
  BY <1>1 DEF Serve, ServeJob, ServeQueue, ReadRpcs
<1>3. CASE ~ Indexed(m.key)
  BY <1>1, <1>2, <1>3 DEF CreateJob, CreateJobReply
<1>4. CASE Indexed(m.key)
  <2>1. PICK i \in DOMAIN dedup : EntryOf(m.key) = dedup[i]
    BY <1>4 DEF Indexed, EntryOf, IndexOf
  <2>2. dedup[i].job \in issued
    BY DEF LifeInv, DedupInv, DedupIsSound
  <2>3. r.job = dedup[i].job
    BY <1>1, <1>4, <2>1 DEF CreateJobReply, ErrorReply
  <2> QED BY <1>2, <1>4, <2>2, <2>3 DEF CreateJob
<1> QED BY <1>3, <1>4

\* A call that keeps its job keeps the names.
LEMMA CallKeepsNames ==
  ASSUME LifeInv, NEW c \in Calls, NEW m, NEW r, NEW call, CallStep(c, m, r, call),
         call.job \in Named
  PROVE  StepOK
<1>1. call.job \in Named'
  BY CalledStep DEF CallStep, StoresStep, Named
<1> QED BY <1>1, CallStepIsOK

LEMMA GatewayIsOK ==
  ASSUME LifeInv, NEW c \in Calls,
         SubmitJob(c) \/ CancelJob(c) \/ GetJobResult(c) \/ ContinueCall(c)
  PROVE  StepOK
<1>1. calls[c] \in CallRecord /\ calls[c].job \in Named
  BY DEF LifeInv, Inv, CallsOK, NamesOK
<1>2. CASE SubmitJob(c)
  <2>1. PICK spec \in Specs, key \in AnyKey : \E r :
          CallStep(c, CreateRequest(c, spec, key), r, AfterCreate(Submitted(c, spec, key), r))
    BY <1>2, SubmitJobRpc
  <2> DEFINE m == CreateRequest(c, spec, key)
             call == Submitted(c, spec, key)
  <2>2. PICK r : CallStep(c, m, r, AfterCreate(call, r))
    BY <2>1
  <2>3. call \in CallRecord /\ call.job = calls[c].job
    BY <1>1 DEF Submitted, CallRecord, AnySpec
  <2>4. m.rpc = "CreateJob"
    BY DEF CreateRequest, Message
  <2> HIDE DEF m, call
  <2>5. CASE r.code # "OK"
    <3>1. AfterCreate(call, r).job = call.job
      BY <2>3, <2>5, CallKeepsJob DEF AfterCreate
    <3> QED BY <1>1, <2>2, <2>3, <3>1, CallKeepsNames
  <2>6. CASE r.code = "OK"
    <3>1. r.job \in issued'
      BY <2>2, <2>4, <2>6, CreatedIsIssued DEF CallStep
    <3>2. AfterCreate(call, r).job = r.job
      BY <2>3, <2>6 DEF AfterCreate, Respond, CallRecord
    <3> QED BY <2>2, <3>1, <3>2, CallStepIsOK DEF Named
  <2> QED BY <2>5, <2>6
<1>3. CASE CancelJob(c)
  <2>1. PICK j \in issued : \E r :
          CallStep(c, Request("GetJobRecord", j), r, AfterCancelRead(Started(c, "cancel", j), r))
    BY <1>3, CancelJobRpc
  <2>2. Started(c, "cancel", j) \in CallRecord /\ Started(c, "cancel", j).job = j
    BY <1>1 DEF Started, CallRecord, AnyJob, LifeInv, Inv, StoresOK, JobTypeOK
  <2> QED BY <2>1, <2>2, CallKeepsJob, CallKeepsNames DEF Named
<1>4. CASE GetJobResult(c)
  <2>1. PICK j \in issued : \E r :
          CallStep(c, Request("GetJobRecord", j), r, AfterResultRead(Started(c, "read", j), r))
    BY <1>4, GetJobResultRpc
  <2>2. Started(c, "read", j) \in CallRecord /\ Started(c, "read", j).job = j
    BY <1>1 DEF Started, CallRecord, AnyJob, LifeInv, Inv, StoresOK, JobTypeOK
  <2> QED BY <2>1, <2>2, CallKeepsJob, CallKeepsNames DEF Named
<1>5. CASE SubmitEnqueue(c)
  BY <1>1, <1>5, SubmitEnqueueRpc, CallKeepsJob, CallKeepsNames
<1>6. CASE SubmitCompensate(c)
  BY <1>1, <1>6, SubmitCompensateRpc, CallKeepsJob, CallKeepsNames
<1>7. CASE CancelRemove(c)
  BY <1>1, <1>7, CancelRemoveRpc, CallKeepsJob, CallKeepsNames
<1>8. CASE CancelStore(c)
  BY <1>1, <1>8, CancelStoreRpc, CallKeepsJob, CallKeepsNames
<1>9. CASE CancelTransition(c)
  BY <1>1, <1>9, CancelTransitionRpc, CallKeepsJob, CallKeepsNames
<1>10. CASE CancelFlag(c)
  BY <1>1, <1>10, CancelFlagRpc, CallKeepsJob, CallKeepsNames
<1>11. CASE ReadEnvelope(c)
  BY <1>1, <1>11, ReadEnvelopeRpc, CallKeepsJob, CallKeepsNames
<1> QED BY <1>2, <1>3, <1>4, <1>5, <1>6, <1>7, <1>8, <1>9, <1>10, <1>11 DEF ContinueCall
(* The coordinator: the request and the reply of every step of a handler. *)

LEMMA FetchDequeueRpc ==
  ASSUME LifeInv, NEW h \in Handlers, FetchDequeue(h)
  PROVE  \E r : HandlerRpc(h, Request("DequeueJob", NoJob), r, AfterDequeue(handlers[h], r))
BY DequeueIsSent DEF FetchDequeue, HandlerCall, HandlerRpc, Called

LEMMA FetchClaimRpc ==
  ASSUME LifeInv, NEW h \in Handlers, FetchClaim(h)
  PROVE  \E r : HandlerRpc(h, TransitionRequest(handlers[h].job, "QUEUED", "RUNNING"), r,
                           AfterClaim(handlers[h], r))
<1>1. Sent(TransitionRequest(handlers[h].job, "QUEUED", "RUNNING"))
  BY HandlerIsNamed, TransitionIsSent DEF FetchClaim, UsedTransitions, TerminalStatuses
<1> QED BY <1>1 DEF FetchClaim, HandlerCall, HandlerRpc, Called

LEMMA FetchRecheckRpc ==
  ASSUME LifeInv, NEW h \in Handlers, FetchRescue(h), handlers[h].pc = "recheck"
  PROVE  \E r : HandlerRpc(h, Request("GetJobRecord", handlers[h].job), r,
                           AfterRecheck(handlers[h], r))
<1>1. Sent(Request("GetJobRecord", handlers[h].job))
  BY HandlerIsNamed, PlainIsSent
<1> QED BY <1>1 DEF FetchRescue, HandlerCall, HandlerRpc, Called

LEMMA FetchRescueRpc ==
  ASSUME LifeInv, NEW h \in Handlers, FetchRescue(h), handlers[h].pc = "rescue"
  PROVE  \E r : HandlerRpc(h, Request("EnqueueJob", handlers[h].job), r,
                           Answer(handlers[h], FALSE))
<1>1. Sent(Request("EnqueueJob", handlers[h].job))
  BY HandlerIsNamed, PlainIsSent
<1> QED BY <1>1 DEF FetchRescue, HandlerCall, HandlerRpc, Called

LEMMA FetchReadRpc ==
  ASSUME LifeInv, NEW h \in Handlers, FetchRead(h)
  PROVE  \E r : HandlerRpc(h, Request("GetJobRecord", handlers[h].job), r,
                           AfterRead(handlers[h], r))
<1>1. Sent(Request("GetJobRecord", handlers[h].job))
  BY HandlerIsNamed, PlainIsSent DEF FetchRead
<1> QED BY <1>1 DEF FetchRead, HandlerCall, HandlerRpc, Called

LEMMA ReportStoreRpc ==
  ASSUME LifeInv, NEW h \in Handlers, ReportStore(h)
  PROVE  \E r : HandlerRpc(h, StoreRequest(handlers[h].job, Outcome(handlers[h].spec),
                                           handlers[h].spec),
                           r, AfterStore(handlers[h], r))
<1>1. Outcome(handlers[h].spec) \in TerminalStatuses
  BY DEF Outcome, TerminalStatuses
<1>2. Sent(StoreRequest(handlers[h].job, Outcome(handlers[h].spec), handlers[h].spec))
  BY <1>1, HandlerIsNamed, StoreIsSent DEF ReportStore, HandlerRecord
<1> QED BY <1>2 DEF ReportStore, HandlerCall, HandlerRpc, Called

LEMMA ReportFinishRpc ==
  ASSUME LifeInv, NEW h \in Handlers, ReportFinish(h)
  PROVE  \E r : HandlerRpc(h, TransitionRequest(handlers[h].job, "RUNNING",
                                                Outcome(handlers[h].spec)),
                           r, AfterFinish(handlers[h], r))
<1>1. results[handlers[h].job] # NoEnvelope
  BY DEF ReportFinish, LifeInv, Inv, HandlersOK, GoodHandler
<1>2. <<"RUNNING", Outcome(handlers[h].spec)>> \in UsedTransitions
  BY DEF Outcome, UsedTransitions
<1>3. Sent(TransitionRequest(handlers[h].job, "RUNNING", Outcome(handlers[h].spec)))
  BY <1>1, <1>2, HandlerIsNamed, TransitionIsSent DEF ReportFinish
<1> QED BY <1>3 DEF ReportFinish, HandlerCall, HandlerRpc, Called

\* No reply but the one to DequeueJob changes the job of a handler.
LEMMA HandlerKeepsJob ==
  ASSUME NEW handler \in HandlerRecord, NEW r, NEW ok
  PROVE  /\ Answer(handler, ok).job = handler.job
         /\ AfterClaim(handler, r).job = handler.job
         /\ AfterRecheck(handler, r).job = handler.job
         /\ AfterRead(handler, r).job = handler.job
         /\ AfterStore(handler, r).job = handler.job
         /\ AfterFinish(handler, r).job = handler.job
<1> USE DEF HandlerRecord, Answer
<1>1. Answer(handler, ok).job = handler.job
  OBVIOUS
<1>2. AfterClaim(handler, r).job = handler.job
  BY DEF AfterClaim
<1>3. AfterRecheck(handler, r).job = handler.job
  BY DEF AfterRecheck
<1>4. AfterRead(handler, r).job = handler.job
  BY DEF AfterRead
<1>5. AfterStore(handler, r).job = handler.job
  BY DEF AfterStore
<1>6. AfterFinish(handler, r).job = handler.job
  BY DEF AfterFinish
<1> QED BY <1>1, <1>2, <1>3, <1>4, <1>5, <1>6

LEMMA HandlerKeepsNames ==
  ASSUME LifeInv, NEW h \in Handlers, NEW m, NEW r, NEW handler, HandlerRpc(h, m, r, handler),
         handler.job \in Named
  PROVE  StepOK
<1>1. handler.job \in Named'
  BY CalledStep DEF HandlerRpc, StoresStep, Named
<1> QED BY <1>1, HandlerRpcIsOK

LEMMA CoordinatorIsOK ==
  ASSUME LifeInv, NEW h \in Handlers,
         \/ FetchDequeue(h) \/ FetchClaim(h) \/ FetchRescue(h) \/ FetchRead(h)
         \/ ReportStore(h) \/ ReportFinish(h)
  PROVE  StepOK
<1>1. handlers[h] \in HandlerRecord /\ handlers[h].job \in Named
  BY DEF LifeInv, Inv, HandlersOK, NamesOK
<1>2. CASE FetchDequeue(h)
  <2> DEFINE m == Request("DequeueJob", NoJob)
  <2>1. PICK r : HandlerRpc(h, m, r, AfterDequeue(handlers[h], r))
    BY <1>2, FetchDequeueRpc
  <2>2. m.rpc = "DequeueJob"
    BY RequestFields
  <2> HIDE DEF m
  <2>3. CASE r.code = "OK" /\ r.found
    <3>1. r = DequeueJobReply
      BY <2>1, <2>2, <2>3 DEF HandlerRpc, Called, RpcError, ErrorReply, ReplyTo
    <3>2. queue # <<>> /\ r.job = Head(queue)
      BY <2>3, <3>1 DEF DequeueJobReply
    <3>3. r.job \in issued
      BY <3>2, HeadTailProperties DEF LifeInv, NamesOK
    <3>4. AfterDequeue(handlers[h], r).job = r.job
      BY <1>1, <2>3 DEF AfterDequeue, HandlerRecord
    <3> QED BY <2>1, <3>3, <3>4, HandlerKeepsNames DEF Named
  <2>4. CASE ~ (r.code = "OK" /\ r.found)
    <3>1. AfterDequeue(handlers[h], r) = Answer(handlers[h], FALSE)
      BY <2>4 DEF AfterDequeue
    <3> QED BY <1>1, <2>1, <3>1, HandlerKeepsJob, HandlerKeepsNames
  <2> QED BY <2>3, <2>4
<1>3. CASE FetchClaim(h)
  BY <1>1, <1>3, FetchClaimRpc, HandlerKeepsJob, HandlerKeepsNames
<1>4. CASE FetchRescue(h) /\ handlers[h].pc = "recheck"
  BY <1>1, <1>4, FetchRecheckRpc, HandlerKeepsJob, HandlerKeepsNames
<1>5. CASE FetchRescue(h) /\ handlers[h].pc = "rescue"
  BY <1>1, <1>5, FetchRescueRpc, HandlerKeepsJob, HandlerKeepsNames
<1>6. CASE FetchRead(h)
  BY <1>1, <1>6, FetchReadRpc, HandlerKeepsJob, HandlerKeepsNames
<1>7. CASE ReportStore(h)
  BY <1>1, <1>7, ReportStoreRpc, HandlerKeepsJob, HandlerKeepsNames
<1>8. CASE ReportFinish(h)
  BY <1>1, <1>8, ReportFinishRpc, HandlerKeepsJob, HandlerKeepsNames
<1> QED BY <1>2, <1>3, <1>4, <1>5, <1>6, <1>7, <1>8 DEF FetchRescue
-----------------------------------------------------------------------------
(***************************************************************************)
(* The workers, the failures and the requests that are executed late.      *)
(***************************************************************************)
LEMMA ExecuteLateIsOK ==
  ASSUME LifeInv, NEW f \in Faults, ExecuteLate(f)
  PROVE  StepOK
<1>1. Sent(late[f]) /\ Serve(late[f])
  BY DEF ExecuteLate, LifeInv, Inv, LateOK, NamesOK, Sent
<1>2. LifecycleStep /\ issued \subseteq issued' /\ queue' \in Seq(issued') /\ DedupInv'
  BY <1>1, ServeIsALifecycleStep
<1>3. ServiceSteps
  BY <1>1, ServeIsAServiceStep DEF Sent
<1>4. \A g \in Faults : Formed(late'[g], Named')
  <2>1. late' = [late EXCEPT ![f] = Spent] /\ late \in [Faults -> Messages]
    BY DEF ExecuteLate, LifeInv, Inv, LateOK
  <2>2. Formed(Spent, Named')
    BY SpentIsFormed DEF Named
  <2> QED BY <1>2, <2>1, <2>2, FormedStays DEF LifeInv, NamesOK
<1> QED BY <1>2, <1>3, <1>4 DEF StepOK, LifeInv, NamesOK, ExecuteLate, Named

\* A step of a worker leaves the stores alone.
LEMMA WorkerStepIsOK ==
  ASSUME LifeInv, WorkerUnchanged, UNCHANGED late \/ UseFault,
         \A h \in Handlers : handlers'[h].job \in Named,
         \A w \in Workers : workers'[w].job \in Named
  PROVE  StepOK
<1>1. LifecycleStep /\ ServiceSteps /\ DedupInv' /\ issued = issued' /\ queue' \in Seq(issued')
  BY StoresUnchanged DEF WorkerUnchanged, stores
<1>2. \A f \in Faults : Formed(late'[f], Named)
  <2>1. CASE UNCHANGED late
    BY <2>1 DEF LifeInv, NamesOK
  <2>2. CASE UseFault
    BY <2>2, SpentIsFormed, LoseKeepsNames DEF UseFault, Named
  <2> QED BY <2>1, <2>2
<1> QED BY <1>1, <1>2 DEF StepOK, NamesOK, Named, LifeInv, WorkerUnchanged

LEMMA IdleNames == IdleWorker.job = NoJob /\ StoppedWorker.job = NoJob /\ IdleHandler.job = NoJob
BY DEF IdleWorker, StoppedWorker, IdleHandler

LEMMA RetryReportNames ==
  ASSUME NEW worker \in WorkerRecord
  PROVE  RetryReport(worker).job \in {worker.job, NoJob}
BY IdleNames DEF RetryReport, WorkerRecord

LEMMA AnsweredNames ==
  ASSUME NEW worker \in WorkerRecord, NEW handler
  PROVE  Answered(worker, handler).job \in {worker.job, handler.job, NoJob}
<1>1. CASE worker.pc = "fetching" /\ handler.ok
  <2>1. Answered(worker, handler).job = handler.job
    BY <1>1 DEF Answered, IdleWorker
  <2> QED BY <2>1
<1>2. CASE ~ (worker.pc = "fetching" /\ handler.ok)
  BY <1>2, IdleNames, RetryReportNames DEF Answered
<1> QED BY <1>1, <1>2

\* Worker w's call that starts on handler h, with the jobs they get.
LEMMA OpenIsOK ==
  ASSUME LifeInv, NEW w \in Workers, NEW h \in Handlers, NEW worker \in WorkerRecord,
         NEW handler \in HandlerRecord, worker.job \in Named, handler.job \in Named,
         Open(w, h, worker, handler)
  PROVE  StepOK
<1>1. [handler EXCEPT !.worker = w].job = handler.job /\ [worker EXCEPT !.via = h].job = worker.job
  BY DEF HandlerRecord, WorkerRecord
<1>2. \A g \in Handlers : handlers'[g].job \in Named
  BY <1>1 DEF Open, LifeInv, Inv, HandlersOK, NamesOK
<1>3. \A v \in Workers : workers'[v].job \in Named
  BY <1>1 DEF Open, LifeInv, Inv, WorkersOK, NamesOK
<1> QED BY <1>2, <1>3, WorkerStepIsOK DEF Open

LEMMA WorkersAreOK ==
  ASSUME LifeInv, NEW w \in Workers, WorkerStep(w) \/ Expire(w) \/ GiveUp(w) \/ Stop(w)
  PROVE  StepOK
<1>1. /\ handlers \in [Handlers -> HandlerRecord] /\ workers \in [Workers -> WorkerRecord]
      /\ \A h \in Handlers : handlers[h].job \in Named
      /\ \A v \in Workers : workers[v].job \in Named
  BY DEF LifeInv, Inv, HandlersOK, WorkersOK, NamesOK
<1>2. CASE Heartbeat(w)
  BY <1>1, <1>2, WorkerStepIsOK DEF Heartbeat
<1>3. CASE Execute(w)
  <2>1. \A v \in Workers : workers'[v].job = workers[v].job
    BY <1>1, <1>3 DEF Execute, WorkerRecord
  <2> QED BY <1>1, <1>3, <2>1, WorkerStepIsOK DEF Execute
<1>4. ASSUME NEW h \in Handlers, FetchWork(w, h)
      PROVE  StepOK
  <2> DEFINE worker == [IdleWorker EXCEPT !.pc = "fetching"]
             handler == [IdleHandler EXCEPT !.pc = "dequeue"]
  <2>1. worker \in WorkerRecord /\ worker.job = NoJob
    BY IdleWorkerIsGood, IdleNames DEF WorkerRecord
  <2>2. handler \in HandlerRecord /\ handler.job = NoJob
    BY DEF IdleHandler, HandlerRecord, AnyJob, AnySpec, FetchPcs
  <2>3. Open(w, h, worker, handler)
    BY <1>4 DEF FetchWork
  <2> HIDE DEF worker, handler
  <2> QED BY <2>1, <2>2, <2>3, OpenIsOK DEF Named
<1>5. ASSUME NEW h \in Handlers, ReportWorkOutcome(w, h)
      PROVE  StepOK
  <2> DEFINE worker == [workers[w] EXCEPT !.pc = "waiting"]
             handler == [IdleHandler EXCEPT !.pc = "store", !.job = workers[w].job,
                                            !.spec = workers[w].spec]
  <2>1. worker \in WorkerRecord /\ worker.job = workers[w].job
    BY <1>1 DEF WorkerRecord
  <2>2. handler \in HandlerRecord /\ handler.job = workers[w].job
    <3>1. IdleHandler \in HandlerRecord
      BY DEF IdleHandler, HandlerRecord, AnyJob, AnySpec
    <3> QED BY <1>1, <3>1 DEF HandlerRecord, WorkerRecord, ReportPcs
  <2>3. Open(w, h, worker, handler)
    BY <1>5 DEF ReportWorkOutcome
  <2> HIDE DEF worker, handler
  <2> QED BY <1>1, <2>1, <2>2, <2>3, OpenIsOK
<1>6. CASE Expire(w)
  BY <1>1, <1>6, WorkerStepIsOK DEF Expire
<1>7. CASE GiveUp(w)
  <2>1. workers'[w].job \in {workers[w].job, NoJob}
    BY <1>1, <1>7, IdleNames, RetryReportNames DEF GiveUp
  <2>2. \A v \in Workers : v # w => workers'[v] = workers[v]
    BY <1>1, <1>7 DEF GiveUp
  <2>3. \A v \in Workers : workers'[v].job \in Named
    BY <1>1, <2>1, <2>2 DEF Named
  <2> QED BY <1>1, <1>7, <2>3, WorkerStepIsOK DEF GiveUp
<1>8. CASE Stop(w)
  BY <1>1, <1>8, IdleNames, WorkerStepIsOK DEF Stop, Named
<1> QED BY <1>2, <1>3, <1>4, <1>5, <1>6, <1>7, <1>8 DEF WorkerStep

LEMMA DeliverAnswerIsOK ==
  ASSUME LifeInv, NEW h \in Handlers, DeliverAnswer(h)
  PROVE  StepOK
<1>1. /\ handlers \in [Handlers -> HandlerRecord] /\ workers \in [Workers -> WorkerRecord]
      /\ \A g \in Handlers : handlers[g].job \in Named
      /\ \A v \in Workers : workers[v].job \in Named
  BY DEF LifeInv, Inv, HandlersOK, WorkersOK, NamesOK
<1>2. \A g \in Handlers : handlers'[g].job \in Named
  BY <1>1, IdleNames DEF DeliverAnswer, Named
<1>3. \A v \in Workers : workers'[v].job \in Named
  BY <1>1, AnsweredNames DEF DeliverAnswer, Named
<1> QED BY <1>2, <1>3, WorkerStepIsOK DEF DeliverAnswer
-----------------------------------------------------------------------------
(***************************************************************************)
(* The theorems about the stores inside the system.                        *)
(***************************************************************************)
LEMMA InitIsOK ==
  ASSUME Init
  PROVE  LifeInv
<1>1. Inv
  BY InitEstablishes
<1>2. DedupInv
  <2>1. dedup = <<>> /\ Len(dedup) = 0 /\ DOMAIN dedup = {}
    BY EmptySeq, LenProperties DEF Init, JobInit
  <2>2. DedupIsSound
    BY <2>1, CapacityAssumption DEF DedupIsSound
  <2>3. JobInv
    BY <1>1 DEF Inv, StoresOK, Init, JobInit, JobInv, NoRecord, Known
  <2> QED BY <2>2, <2>3 DEF DedupInv
<1>3. NamesOK
  BY EmptySeq, IdleNames, SpentIsFormed
     DEF Init, QueueInit, IdleCall, NamesOK, Named
<1> QED BY <1>1, <1>2, <1>3 DEF LifeInv

LEMMA NextIsOK ==
  ASSUME LifeInv, [Next]_vars
  PROVE  StepOK
<1>1. ASSUME NEW h \in Handlers, HandlerStep(h)
      PROVE  StepOK
  BY <1>1, CoordinatorIsOK, DeliverAnswerIsOK DEF HandlerStep
<1>2. CASE UNCHANGED vars
  <2>1. LifecycleStep /\ ServiceSteps /\ DedupInv' /\ issued = issued' /\ queue' \in Seq(issued')
    BY <1>2, StoresUnchanged DEF vars, stores
  <2> QED BY <1>2, <2>1 DEF vars, StepOK, LifeInv, NamesOK, Named
<1> QED BY <1>1, <1>2, GatewayIsOK, WorkersAreOK, ExecuteLateIsOK DEF Next

LEMMA LifeInvariant == Spec => []LifeInv
<1>1. Init => LifeInv
  BY InitIsOK
<1>2. LifeInv /\ [Next]_vars => LifeInv'
  BY NextIsOK, NextKeeps DEF LifeInv, StepOK
<1> QED BY <1>1, <1>2, PTL DEF Spec

\* The services run in the system as they run alone: whatever a handler sends,
\* on time, late or in vain, is one of their RPCs with arguments they allow.
\* What is proved of JobSpec, QueueSpec and ResultSpec holds of Spec.
THEOREM ServicesRunInTheSystem == Spec => JobSpec /\ QueueSpec /\ ResultSpec
<1>1. Init => JobInit /\ QueueInit /\ ResultInit
  BY DEF Init
<1>2. LifeInv /\ [Next]_vars => [JobNext]_jobVars /\ [QueueNext]_queueVars /\ [ResultNext]_resultVars
  BY NextIsOK DEF StepOK, ServiceSteps
<1> QED BY <1>1, <1>2, LifeInvariant, PTL DEF Spec, JobSpec, QueueSpec, ResultSpec

\* Job by job the system implements its lifecycle: every step of every
\* component, and every late request, takes one job at most from a stage of
\* its life to a next one, and none ends before its envelope is recorded.
THEOREM JobsFollowTheLifecycle == Spec => ImplementsLifecycle
<1>1. Init => Lifecycle!Init
  BY DEF Init, JobInit, ResultInit, NoRecord, NoEnvelope, Lifecycle!Init, Lifecycle!UNSPECIFIED,
         UNSPECIFIED
<1>2. LifeInv /\ [Next]_vars => [Lifecycle!Next]_(Lifecycle!vars)
  BY NextIsOK DEF StepOK, LifecycleStep
<1> QED BY <1>1, <1>2, LifeInvariant, PTL DEF Spec, ImplementsLifecycle, Lifecycle!Spec
-----------------------------------------------------------------------------
(***************************************************************************)
(* The claim of a job.  A claim that is applied takes the job out of       *)
(* QUEUED, where it never returns.  From then on one handler, and then one *)
(* worker, holds the claim; executing the job uses it up.                  *)
(***************************************************************************)
\* All that a step may do to the status of a job.
StatusStep(j) ==
  \/ Status(j)' = Status(j)
  \/ j \notin issued /\ Status(j)' = "QUEUED"
  \/ Status(j) = "QUEUED" /\ Status(j)' \in {UNSPECIFIED, "RUNNING", "CANCELED"}
  \/ Status(j) = "RUNNING" /\ Status(j)' \in {"DONE", "FAILED"}

LEMMA EveryStepIsAStatusStep ==
  ASSUME LifecycleStep, NEW j \in JobIds
  PROVE  StatusStep(j)
<1> DEFINE st == [k \in JobIds |-> jobs[k].status]
<1>1. st[j] = Status(j) /\ st'[j] = Status(j)'
  BY DEF Status
<1>2. CASE UNCHANGED Lifecycle!vars
  <2>1. st' = st
    BY <1>2 DEF Lifecycle!vars
  <2> QED BY <1>1, <2>1 DEF StatusStep
<1>3. ASSUME NEW k \in JobIds,
             \/ Lifecycle!Accept(k) \/ Lifecycle!Withdraw(k) \/ Lifecycle!Claim(k)
             \/ \E s \in TerminalStatuses : Lifecycle!Record(k, s) \/ Lifecycle!End(k, s)
      PROVE  StatusStep(j)
  <2>1. CASE Lifecycle!Accept(k)
    <3>1. k \notin issued /\ st' = [st EXCEPT ![k] = "QUEUED"]
      BY <2>1 DEF Lifecycle!Accept
    <3> HIDE DEF st
    <3>2. DOMAIN st = JobIds
      BY DEF st
    <3> QED BY <1>1, <3>1, <3>2 DEF StatusStep
  <2>2. CASE Lifecycle!Withdraw(k)
    <3>1. st[k] = "QUEUED" /\ st' = [st EXCEPT ![k] = UNSPECIFIED]
      BY <2>2 DEF Lifecycle!Withdraw, Lifecycle!UNSPECIFIED, UNSPECIFIED
    <3>2. DOMAIN st = JobIds
      OBVIOUS
    <3> HIDE DEF st
    <3> QED BY <1>1, <3>1, <3>2 DEF StatusStep
  <2>3. CASE Lifecycle!Claim(k)
    <3>1. st[k] = "QUEUED" /\ st' = [st EXCEPT ![k] = "RUNNING"]
      BY <2>3 DEF Lifecycle!Claim
    <3>2. DOMAIN st = JobIds
      OBVIOUS
    <3> HIDE DEF st
    <3> QED BY <1>1, <3>1, <3>2 DEF StatusStep
  <2>4. ASSUME NEW s \in TerminalStatuses, Lifecycle!Record(k, s)
        PROVE  StatusStep(j)
    <3>1. st' = st
      BY <2>4 DEF Lifecycle!Record
    <3> HIDE DEF st
    <3> QED BY <1>1, <3>1 DEF StatusStep
  <2>5. ASSUME NEW s \in TerminalStatuses, Lifecycle!End(k, s)
        PROVE  StatusStep(j)
    <3>1. /\ <<st[k], s>> \in {<<"RUNNING", "DONE">>, <<"RUNNING", "FAILED">>,
                               <<"QUEUED", "CANCELED">>}
          /\ st' = [st EXCEPT ![k] = s]
      BY <2>5 DEF Lifecycle!End
    <3>2. DOMAIN st = JobIds
      OBVIOUS
    <3> HIDE DEF st
    <3> QED BY <1>1, <3>1, <3>2 DEF StatusStep
  <2> QED BY <1>3, <2>1, <2>2, <2>3, <2>4, <2>5
<1> QED BY <1>2, <1>3 DEF LifecycleStep, Lifecycle!Next, Lifecycle!TerminalStatuses, TerminalStatuses

\* A job that was issued and is not QUEUED does not become so.
LEMMA NeverQueuedAgain ==
  ASSUME LifecycleStep, NEW j \in JobIds, j \in issued, Status(j) # "QUEUED"
  PROVE  Status(j)' # "QUEUED"
BY EveryStepIsAStatusStep DEF StatusStep, UNSPECIFIED

\* A job that was not claimed before RUNNING, its way to DONE and FAILED.
Unclaimed(j) == Status(j) \notin {"RUNNING", "DONE", "FAILED"}

LEMMA UnclaimedBefore ==
  ASSUME LifeInv, LifecycleStep, NEW j \in JobIds, Unclaimed(j)'
  PROVE  Unclaimed(j)
<1>1. Known(j) => j \in issued
  BY DEF LifeInv, DedupInv, JobInv
<1> QED BY <1>1, EveryStepIsAStatusStep DEF StatusStep, Unclaimed, Known, Status, UNSPECIFIED

\* FetchWork's second look at a job that it failed to claim.
RecheckOK ==
  \A h \in Handlers :
    /\ handlers[h].pc # "rescue"
    /\ handlers[h].pc = "recheck" => Status(handlers[h].job) # "QUEUED"

\* A worker that listens to a handler has made the call which it serves, and
\* no two workers listen to one handler.
ListenOK ==
  /\ \A w \in Workers, h \in Handlers : workers[w].via = h =>
       \/ workers[w].pc = "fetching" /\ handlers[h].pc \in FetchPcs \cup {"answer"}
       \/ workers[w].pc = "waiting" /\ handlers[h].pc \in ReportPcs \cup {"answer"}
  /\ \A v, w \in Workers : workers[v].via = workers[w].via /\ workers[v].via # NoHandler => v = w

HandlerClaims(h, j) ==
  /\ handlers[h].job = j
  /\ \/ handlers[h].pc = "read"
     \/ /\ handlers[h].pc = "answer"
        /\ handlers[h].ok
        /\ \E w \in Workers : workers[w].pc = "fetching" /\ workers[w].via = h

WorkerClaims(w, j) == workers[w].pc = "executing" /\ workers[w].job = j

\* Nobody holds the claim of j.
Free(j) ==
  /\ \A h \in Handlers : ~ HandlerClaims(h, j)
  /\ \A w \in Workers : ~ WorkerClaims(w, j)

\* One holder at most; none once the job has run; none, nor a run, nor a
\* worker that knows the job, before it was claimed or when it was canceled.
ClaimOK(j) ==
  /\ \A g, h \in Handlers : HandlerClaims(g, j) /\ HandlerClaims(h, j) => g = h
  /\ \A v, w \in Workers : WorkerClaims(v, j) /\ WorkerClaims(w, j) => v = w
  /\ \A h \in Handlers, w \in Workers : ~ (HandlerClaims(h, j) /\ WorkerClaims(w, j))
  /\ runs[j] = 0 \/ (runs[j] = 1 /\ Free(j))
  /\ Unclaimed(j) => runs[j] = 0 /\ Free(j) /\ \A w \in Workers : workers[w].job # j

ClaimsOK == RecheckOK /\ ListenOK /\ \A j \in JobIds : ClaimOK(j)

\* What the next lemmas start from and end with.
ClaimInv == LifeInv /\ ClaimsOK

\* Steps at which claims only go away.
LEMMA ClaimsShrink ==
  ASSUME ClaimInv, LifecycleStep, NEW j \in JobIds, runs'[j] = runs[j],
         \A h \in Handlers : HandlerClaims(h, j)' => HandlerClaims(h, j),
         \A w \in Workers : WorkerClaims(w, j)' => WorkerClaims(w, j),
         \A w \in Workers : workers'[w].job = j => workers[w].job = j \/ ~ Unclaimed(j)
  PROVE  ClaimOK(j)'
<1>1. ClaimOK(j)
  BY DEF ClaimInv, ClaimsOK
<1>2. Unclaimed(j)' => Unclaimed(j)
  BY UnclaimedBefore DEF ClaimInv
<1>3. Free(j) => Free(j)'
  BY DEF Free
<1> QED BY <1>1, <1>2, <1>3 DEF ClaimOK
LEMMA RecheckStays ==
  ASSUME ClaimInv, LifecycleStep, NEW h \in Handlers, handlers[h].pc = "recheck"
  PROVE  Status(handlers[h].job)' # "QUEUED" \/ handlers'[h] # handlers[h]
<1>1. handlers[h].job \in JobIds /\ handlers[h].job \in issued
  BY HandlerIsNamed DEF ClaimInv
<1>2. jobs[handlers[h].job].status # "QUEUED"
  BY DEF ClaimInv, ClaimsOK, RecheckOK, Status
<1>3. jobs'[handlers[h].job].status # "QUEUED"
  BY <1>1, <1>2, NeverQueuedAgain DEF Status
<1> QED BY <1>3 DEF Status

\* Steps of the gateway, late requests, heartbeats.
LEMMA ClaimsStay ==
  ASSUME ClaimInv, LifecycleStep, UNCHANGED <<handlers, workers, runs>>
  PROVE  ClaimsOK'
<1>1. RecheckOK'
  BY RecheckStays DEF ClaimInv, ClaimsOK, RecheckOK
<1>2. ListenOK'
  BY DEF ClaimInv, ClaimsOK, ListenOK
<1>3. ASSUME NEW j \in JobIds PROVE ClaimOK(j)'
  BY <1>3, ClaimsShrink DEF HandlerClaims, WorkerClaims
<1> QED BY <1>1, <1>2, <1>3 DEF ClaimsOK

\* Handler h goes on as handler.
HandlerMoves(h, handler) ==
  /\ handlers' = [handlers EXCEPT ![h] = handler]
  /\ UNCHANGED <<workers, runs>>
  /\ \/ handlers[h].pc \in FetchPcs /\ handler.pc \in FetchPcs \cup {"answer"}
     \/ handlers[h].pc \in ReportPcs /\ handler.pc \in ReportPcs \cup {"answer"}

LEMMA HandlerMovesListen ==
  ASSUME ClaimInv, NEW h \in Handlers, NEW handler, HandlerMoves(h, handler)
  PROVE  ListenOK'
<1>1. handlers \in [Handlers -> HandlerRecord]
  BY DEF ClaimInv, LifeInv, Inv, HandlersOK
<1>2. FetchPcs \cap ReportPcs = {} /\ "answer" \notin FetchPcs \cup ReportPcs
  BY DEF FetchPcs, ReportPcs
<1> QED BY <1>1, <1>2 DEF HandlerMoves, ClaimInv, ClaimsOK, ListenOK

LEMMA HandlerMovesRecheck ==
  ASSUME ClaimInv, LifecycleStep, NEW h \in Handlers, NEW handler, HandlerMoves(h, handler),
         handler.pc # "rescue", handler.pc = "recheck" => jobs'[handler.job].status # "QUEUED"
  PROVE  RecheckOK'
<1>1. handlers \in [Handlers -> HandlerRecord]
  BY DEF ClaimInv, LifeInv, Inv, HandlersOK
<1>2. ASSUME NEW g \in Handlers, g # h, handlers[g].pc = "recheck"
      PROVE  jobs'[handlers'[g].job].status # "QUEUED"
  BY <1>1, <1>2, RecheckStays DEF HandlerMoves, Status
<1> QED BY <1>1, <1>2 DEF HandlerMoves, ClaimInv, ClaimsOK, RecheckOK, Status

\* The steps of a handler that take no claim: those that do not lead to "read",
\* and answer a FetchWork with a job only when they come from "read".
LEMMA HandlerTakesNoClaim ==
  ASSUME ClaimInv, LifecycleStep, NEW h \in Handlers, NEW handler, HandlerMoves(h, handler),
         handler.pc \notin {"rescue", "read"},
         handler.pc = "recheck" => jobs'[handler.job].status # "QUEUED",
         handler.pc = "answer" /\ handler.ok /\ handlers[h].pc \in FetchPcs
           => handlers[h].pc = "read" /\ handler.job = handlers[h].job
  PROVE  ClaimsOK'
<1>1. handlers \in [Handlers -> HandlerRecord]
  BY DEF ClaimInv, LifeInv, Inv, HandlersOK
<1>2. RecheckOK' /\ ListenOK'
  BY HandlerMovesListen, HandlerMovesRecheck
<1>3. ASSUME NEW j \in JobIds, NEW g \in Handlers, HandlerClaims(g, j)'
      PROVE  HandlerClaims(g, j)
  <2>1. CASE g # h
    BY <1>1, <1>3, <2>1 DEF HandlerMoves, HandlerClaims
  <2>2. CASE g = h
    <3>1. /\ handlers'[h] = handler /\ handler.job = j /\ handler.pc = "answer" /\ handler.ok
          /\ \E w \in Workers : workers[w].pc = "fetching" /\ workers[w].via = h
      BY <1>1, <1>3, <2>2 DEF HandlerMoves, HandlerClaims
    <3>2. handlers[h].pc \in FetchPcs
      BY <3>1 DEF ClaimInv, ClaimsOK, ListenOK, HandlerMoves, ReportPcs, FetchPcs
    <3> QED BY <2>2, <3>1, <3>2 DEF HandlerClaims
  <2> QED BY <2>1, <2>2
<1>4. ASSUME NEW j \in JobIds PROVE ClaimOK(j)'
  BY <1>3, ClaimsShrink DEF HandlerMoves, WorkerClaims
<1> QED BY <1>2, <1>4 DEF ClaimsOK

\* A claim that is answered "applied" has taken the job from QUEUED to RUNNING.
LEMMA AppliedClaim ==
  ASSUME ClaimInv, NEW m, NEW r, NEW j \in JobIds, m = TransitionRequest(j, "QUEUED", "RUNNING"),
         Called(m, r), r.code = "OK"
  PROVE  IF r.applied THEN Status(j) = "QUEUED" /\ Status(j)' = "RUNNING"
                      ELSE Status(j) # "QUEUED"
<1>1. /\ m.rpc = "TransitionJobStatus" /\ m.job = j /\ m.from = "QUEUED" /\ m.to = "RUNNING"
  BY DEF TransitionRequest, Message
<1>2. Serve(m) /\ r = TransitionJobStatusReply(j, "QUEUED", "RUNNING")
  <2>1. Serve(m) /\ r = ReplyTo(m)
    BY DEF Called, RpcError, ErrorReply
  <2> QED BY <1>1, <2>1 DEF ReplyTo
<1>3. PICK now \in Times : TransitionJobStatus(j, "QUEUED", "RUNNING", now)
  BY <1>1, <1>2 DEF Serve, ServeJob, ServeQueue, ReadRpcs
<1>4. <<"QUEUED", "RUNNING">> \in AllowedTransitions
  BY DEF AllowedTransitions
<1>5. CASE jobs[j].status = "QUEUED"
  <2>1. r.applied
    BY <1>2, <1>4, <1>5 DEF TransitionJobStatusReply, UNSPECIFIED, Known, StatusReply
  <2>2. Matches(j, "QUEUED", "RUNNING") /\ jobs[j] \in JobRecord /\ "RUNNING" \in JobStatus
    BY <1>5, KnownRecord DEF Matches, UNSPECIFIED, Known, JobStatus, ClaimInv, LifeInv, Inv, StoresOK
  <2>3. jobs'[j] = Transitioned(jobs[j], "RUNNING", now)
    BY <1>3, <1>4, <2>2 DEF TransitionJobStatus, ClaimInv, LifeInv, Inv, StoresOK, JobTypeOK
  <2>4. Transitioned(jobs[j], "RUNNING", now).status = "RUNNING"
    BY <2>2, TransitionedFields
  <2> QED BY <1>5, <2>1, <2>3, <2>4 DEF Status
<1>6. CASE jobs[j].status # "QUEUED"
  <2>1. ~ r.applied
    BY <1>2, <1>6 DEF TransitionJobStatusReply, UNSPECIFIED, Known, StatusReply, ErrorReply
  <2> QED BY <1>6, <2>1 DEF Status
<1> QED BY <1>5, <1>6
\* The claim that was applied: handler h alone holds it.
LEMMA HandlerTakesTheClaim ==
  ASSUME ClaimInv, LifecycleStep, NEW h \in Handlers, NEW handler, HandlerMoves(h, handler),
         handler.pc = "read", handler.job \in JobIds,
         Status(handler.job) = "QUEUED", jobs'[handler.job].status = "RUNNING",
         handlers[h].pc \in FetchPcs \ {"read"}
  PROVE  ClaimsOK'
<1>1. handlers \in [Handlers -> HandlerRecord]
  BY DEF ClaimInv, LifeInv, Inv, HandlersOK
<1>2. RecheckOK' /\ ListenOK'
  BY HandlerMovesListen, HandlerMovesRecheck
<1>3. ASSUME NEW j \in JobIds, NEW g \in Handlers, HandlerClaims(g, j)'
      PROVE  HandlerClaims(g, j) \/ (g = h /\ j = handler.job)
  <2>1. CASE g # h
    BY <1>1, <1>3, <2>1 DEF HandlerMoves, HandlerClaims
  <2>2. CASE g = h
    BY <1>1, <1>3, <2>2 DEF HandlerMoves, HandlerClaims
  <2> QED BY <2>1, <2>2
<1>4. ASSUME NEW j \in JobIds, j # handler.job PROVE ClaimOK(j)'
  BY <1>3, <1>4, ClaimsShrink DEF HandlerMoves, WorkerClaims
<1>5. ClaimOK(handler.job)'
  <2> DEFINE j == handler.job
  <2>1. Unclaimed(j) /\ ~ Unclaimed(j)'
    BY DEF Unclaimed, Status
  <2>2. runs[j] = 0 /\ Free(j)
    BY <2>1 DEF ClaimInv, ClaimsOK, ClaimOK
  <2>3. \A g \in Handlers : HandlerClaims(g, j)' => g = h
    BY <1>3, <2>2 DEF Free
  <2>4. \A w \in Workers : ~ WorkerClaims(w, j)'
    BY <2>2 DEF Free, WorkerClaims, HandlerMoves
  <2>5. runs'[j] = 0
    BY <2>2 DEF HandlerMoves
  <2>6. ASSUME NEW k, k = j PROVE ClaimOK(k)'
    BY <2>1, <2>3, <2>4, <2>5, <2>6 DEF ClaimOK
  <2> QED BY <2>6
<1> QED BY <1>2, <1>4, <1>5 DEF ClaimsOK

LEMMA AnswerFields ==
  ASSUME NEW handler \in HandlerRecord, NEW ok
  PROVE  Answer(handler, ok).pc = "answer" /\ Answer(handler, ok).ok = ok
BY DEF Answer, HandlerRecord

LEMMA CoordinatorKeepsClaims ==
  ASSUME ClaimInv, LifecycleStep, NEW h \in Handlers,
         \/ FetchDequeue(h) \/ FetchClaim(h) \/ FetchRescue(h) \/ FetchRead(h)
         \/ ReportStore(h) \/ ReportFinish(h)
  PROVE  ClaimsOK'
<1>1. handlers[h] \in HandlerRecord /\ LifeInv
  BY DEF ClaimInv, LifeInv, Inv, HandlersOK
<1>2. ASSUME NEW ok, HandlerMoves(h, Answer(handlers[h], ok)),
             ~ ok \/ handlers[h].pc \in ReportPcs
      PROVE  ClaimsOK'
  <2>1. FetchPcs \cap ReportPcs = {}
    BY DEF FetchPcs, ReportPcs
  <2> QED BY <1>1, <1>2, <2>1, AnswerFields, HandlerTakesNoClaim
<1>3. CASE FetchDequeue(h)
  <2>1. PICK r : HandlerRpc(h, Request("DequeueJob", NoJob), r, AfterDequeue(handlers[h], r))
    BY <1>1, <1>3, FetchDequeueRpc
  <2> DEFINE next == [handlers[h] EXCEPT !.pc = "claim", !.job = r.job]
  <2>2. CASE AfterDequeue(handlers[h], r) = next
    <3>1. next.pc = "claim"
      BY <1>1 DEF HandlerRecord
    <3> HIDE DEF next
    <3>2. HandlerMoves(h, next)
      BY <1>3, <2>1, <2>2, <3>1 DEF HandlerMoves, HandlerRpc, FetchDequeue, FetchPcs
    <3> QED BY <3>1, <3>2, HandlerTakesNoClaim
  <2>3. CASE AfterDequeue(handlers[h], r) = Answer(handlers[h], FALSE)
    <3>1. HandlerMoves(h, Answer(handlers[h], FALSE))
      BY <1>1, <1>3, <2>1, <2>3, AnswerFields DEF HandlerMoves, HandlerRpc, FetchDequeue, FetchPcs
    <3> QED BY <1>2, <3>1
  <2> QED BY <2>2, <2>3 DEF AfterDequeue
<1>4. CASE FetchClaim(h)
  <2> DEFINE m == TransitionRequest(handlers[h].job, "QUEUED", "RUNNING")
  <2>1. PICK r : HandlerRpc(h, m, r, AfterClaim(handlers[h], r))
    BY <1>1, <1>4, FetchClaimRpc
  <2>2. handlers[h].pc = "claim" /\ handlers[h].job \in JobIds
    BY <1>1, <1>4, HandlerIsNamed DEF FetchClaim
  <2>3. CASE r.code # "OK"
    <3>1. HandlerMoves(h, Answer(handlers[h], FALSE))
      BY <1>1, <2>1, <2>2, <2>3, AnswerFields DEF HandlerMoves, HandlerRpc, FetchPcs, AfterClaim
    <3> QED BY <1>2, <3>1
  <2>4. CASE r.code = "OK" /\ r.applied
    <3> DEFINE next == [handlers[h] EXCEPT !.pc = "read"]
    <3>1. next.pc = "read" /\ next.job = handlers[h].job
      BY <1>1 DEF HandlerRecord
    <3>2. AfterClaim(handlers[h], r) = next
      BY <2>4 DEF AfterClaim
    <3> HIDE DEF next
    <3>3. HandlerMoves(h, next)
      BY <2>1, <2>2, <3>1, <3>2 DEF HandlerMoves, HandlerRpc, FetchPcs
    <3>4. Status(next.job) = "QUEUED" /\ jobs'[next.job].status = "RUNNING"
      BY <2>1, <2>2, <2>4, <3>1, AppliedClaim DEF HandlerRpc, Status
    <3> QED BY <2>2, <3>1, <3>3, <3>4, HandlerTakesTheClaim DEF FetchPcs
  <2>5. CASE r.code = "OK" /\ ~ r.applied
    <3> DEFINE next == [handlers[h] EXCEPT !.pc = "recheck"]
    <3>1. next.pc = "recheck" /\ next.job = handlers[h].job
      BY <1>1 DEF HandlerRecord
    <3>2. AfterClaim(handlers[h], r) = next
      BY <2>5 DEF AfterClaim
    <3> HIDE DEF next
    <3>3. HandlerMoves(h, next)
      BY <2>1, <2>2, <3>1, <3>2 DEF HandlerMoves, HandlerRpc, FetchPcs
    <3>4. jobs[next.job].status # "QUEUED"
      BY <2>1, <2>2, <2>5, <3>1, AppliedClaim DEF HandlerRpc, Status
    <3>5. next.job \in JobIds /\ next.job \in issued
      BY <1>1, <1>4, <3>1, HandlerIsNamed DEF FetchClaim
    <3>6. jobs'[next.job].status # "QUEUED"
      BY <3>4, <3>5, NeverQueuedAgain DEF Status
    <3> QED BY <3>1, <3>3, <3>6, HandlerTakesNoClaim
  <2> QED BY <2>3, <2>4, <2>5
<1>5. CASE FetchRescue(h)
  <2>1. handlers[h].pc = "recheck" /\ Status(handlers[h].job) # "QUEUED"
    BY <1>5 DEF FetchRescue, ClaimInv, ClaimsOK, RecheckOK
  <2> DEFINE m == Request("GetJobRecord", handlers[h].job)
  <2>2. PICK r : HandlerRpc(h, m, r, AfterRecheck(handlers[h], r))
    BY <1>1, <1>5, <2>1, FetchRecheckRpc
  <2>3. m.rpc = "GetJobRecord" /\ m.job = handlers[h].job
    BY RequestFields
  <2> HIDE DEF m
  <2>4. ~ (r.code = "OK" /\ r.status = "QUEUED")
    <3>1. r.code = "OK" => r = ReplyTo(m)
      BY <2>2 DEF HandlerRpc, Called, RpcError, ErrorReply
    <3> QED BY <2>1, <2>3, <3>1 DEF ReplyTo, GetJobRecordReply, ErrorReply, Status
  <2>5. HandlerMoves(h, Answer(handlers[h], FALSE))
    BY <1>1, <2>1, <2>2, <2>4, AnswerFields DEF HandlerMoves, HandlerRpc, FetchPcs, AfterRecheck
  <2> QED BY <1>2, <2>5
<1>6. CASE FetchRead(h)
  <2>1. PICK r : HandlerRpc(h, Request("GetJobRecord", handlers[h].job), r, AfterRead(handlers[h], r))
    BY <1>1, <1>6, FetchReadRpc
  <2>2. CASE r.code # "OK"
    <3>1. HandlerMoves(h, Answer(handlers[h], FALSE))
      BY <1>1, <1>6, <2>1, <2>2, AnswerFields DEF HandlerMoves, HandlerRpc, FetchRead, FetchPcs, AfterRead
    <3> QED BY <1>2, <3>1
  <2>3. CASE r.code = "OK"
    <3> DEFINE next == Answer([handlers[h] EXCEPT !.spec = r.spec], TRUE)
    <3>1. next.pc = "answer" /\ next.job = handlers[h].job
      BY <1>1 DEF Answer, HandlerRecord
    <3>2. AfterRead(handlers[h], r) = next
      BY <2>3 DEF AfterRead
    <3> HIDE DEF next
    <3>3. HandlerMoves(h, next)
      BY <1>6, <2>1, <3>1, <3>2 DEF HandlerMoves, HandlerRpc, FetchRead, FetchPcs
    <3> QED BY <1>6, <3>1, <3>3, HandlerTakesNoClaim DEF FetchRead
  <2> QED BY <2>2, <2>3
<1>7. CASE ReportStore(h)
  <2>1. PICK m, r : HandlerRpc(h, m, r, AfterStore(handlers[h], r))
    BY <1>1, <1>7, ReportStoreRpc
  <2>2. CASE r.code # "OK"
    <3>1. HandlerMoves(h, Answer(handlers[h], FALSE))
      BY <1>1, <1>7, <2>1, <2>2, AnswerFields DEF HandlerMoves, HandlerRpc, ReportStore, ReportPcs, AfterStore
    <3> QED BY <1>2, <3>1
  <2>3. CASE r.code = "OK"
    <3> DEFINE next == [handlers[h] EXCEPT !.pc = "finish"]
    <3>1. next.pc = "finish"
      BY <1>1 DEF HandlerRecord
    <3>2. AfterStore(handlers[h], r) = next
      BY <2>3 DEF AfterStore
    <3> HIDE DEF next
    <3>3. HandlerMoves(h, next)
      BY <1>7, <2>1, <3>1, <3>2 DEF HandlerMoves, HandlerRpc, ReportStore, ReportPcs
    <3> QED BY <3>1, <3>3, HandlerTakesNoClaim
  <2> QED BY <2>2, <2>3
<1>8. CASE ReportFinish(h)
  <2>1. PICK m, r : HandlerRpc(h, m, r, AfterFinish(handlers[h], r))
    BY <1>1, <1>8, ReportFinishRpc
  <2> DEFINE ok == r.code = "OK" /\ (r.applied \/ r.status \in TerminalStatuses)
  <2>2. AfterFinish(handlers[h], r) = Answer(handlers[h], ok)
    BY Zenon DEF AfterFinish
  <2> HIDE DEF ok
  <2>3. HandlerMoves(h, Answer(handlers[h], ok)) /\ handlers[h].pc \in ReportPcs
    BY <1>1, <1>8, <2>1, <2>2, AnswerFields DEF HandlerMoves, HandlerRpc, ReportFinish, ReportPcs
  <2> QED BY <1>2, <2>3
<1> QED BY <1>3, <1>4, <1>5, <1>6, <1>7, <1>8
(* The workers. *)

\* Steps of worker w at which no claim is taken and no handler moves.
LEMMA WorkerTakesNoClaim ==
  ASSUME ClaimInv, LifecycleStep, NEW w \in Workers, NEW worker \in WorkerRecord,
         UNCHANGED <<handlers, runs>>, workers' = [workers EXCEPT ![w] = worker],
         worker.pc \notin {"fetching", "executing"}, worker.via = NoHandler,
         worker.job \in {workers[w].job, NoJob}
  PROVE  ClaimsOK'
<1>1. workers \in [Workers -> WorkerRecord]
  BY DEF ClaimInv, LifeInv, Inv, WorkersOK
<1>2. ListenOK'
  BY <1>1, NullsAssumption DEF ClaimInv, ClaimsOK, ListenOK
<1>3. RecheckOK'
  BY RecheckStays DEF ClaimInv, ClaimsOK, RecheckOK
<1>4. ASSUME NEW j \in JobIds PROVE ClaimOK(j)'
  <2>1. \A h \in Handlers : HandlerClaims(h, j)' => HandlerClaims(h, j)
    BY <1>1 DEF HandlerClaims
  <2>2. \A v \in Workers : WorkerClaims(v, j)' => WorkerClaims(v, j)
    BY <1>1 DEF WorkerClaims
  <2>3. \A v \in Workers : workers'[v].job = j => workers[v].job = j
    BY <1>1, NullsAssumption
  <2> QED BY <2>1, <2>2, <2>3, ClaimsShrink
<1> QED BY <1>2, <1>3, <1>4 DEF ClaimsOK

\* Worker w's call that starts on handler h takes no claim.
LEMMA OpenTakesNoClaim ==
  ASSUME ClaimInv, LifecycleStep, NEW w \in Workers, NEW h \in Handlers,
         NEW worker \in WorkerRecord, NEW handler \in HandlerRecord,
         worker.job \in {workers[w].job, NoJob}, Open(w, h, worker, handler),
         \/ worker.pc = "fetching" /\ handler.pc = "dequeue"
         \/ worker.pc = "waiting" /\ handler.pc = "store"
  PROVE  ClaimsOK'
<1> DEFINE nextWorker == [worker EXCEPT !.via = h]
           nextHandler == [handler EXCEPT !.worker = w]
<1>1. /\ workers \in [Workers -> WorkerRecord] /\ handlers \in [Handlers -> HandlerRecord]
      /\ handlers[h].pc = "idle"
  BY DEF ClaimInv, LifeInv, Inv, WorkersOK, HandlersOK, Open, IdleHandler
<1>2. nextWorker.pc = worker.pc /\ nextWorker.via = h /\ nextWorker.job = worker.job
  BY DEF WorkerRecord
<1>3. nextHandler.pc = handler.pc
  BY DEF HandlerRecord
<1>4. /\ workers' = [workers EXCEPT ![w] = nextWorker]
      /\ handlers' = [handlers EXCEPT ![h] = nextHandler]
      /\ runs' = runs
  BY DEF Open
<1> HIDE DEF nextWorker, nextHandler
<1>5. \A v \in Workers : workers[v].via # h
  BY <1>1 DEF ClaimInv, ClaimsOK, ListenOK, FetchPcs, ReportPcs
<1>6. ListenOK'
  <2>1. ASSUME NEW v \in Workers, NEW g \in Handlers, workers'[v].via = g
        PROVE  \/ workers'[v].pc = "fetching" /\ handlers'[g].pc \in FetchPcs \cup {"answer"}
               \/ workers'[v].pc = "waiting" /\ handlers'[g].pc \in ReportPcs \cup {"answer"}
    <3>1. CASE v = w
      BY <1>1, <1>2, <1>3, <1>4, <2>1, <3>1 DEF FetchPcs, ReportPcs
    <3>2. CASE v # w
      BY <1>1, <1>4, <1>5, <2>1, <3>2 DEF ClaimInv, ClaimsOK, ListenOK
    <3> QED BY <3>1, <3>2
  <2>2. ASSUME NEW u \in Workers, NEW v \in Workers, workers'[u].via = workers'[v].via,
               workers'[u].via # NoHandler
        PROVE  u = v
    BY <1>1, <1>2, <1>4, <1>5, <2>2 DEF ClaimInv, ClaimsOK, ListenOK
  <2> QED BY <2>1, <2>2 DEF ListenOK
<1>7. RecheckOK'
  <2>1. ASSUME NEW g \in Handlers, g # h, handlers[g].pc = "recheck"
        PROVE  jobs'[handlers'[g].job].status # "QUEUED"
    BY <1>1, <1>4, <2>1, RecheckStays DEF Status
  <2> QED BY <1>1, <1>3, <1>4, <2>1 DEF ClaimInv, ClaimsOK, RecheckOK, Status
<1>8. ASSUME NEW j \in JobIds PROVE ClaimOK(j)'
  <2>1. ASSUME NEW g \in Handlers, HandlerClaims(g, j)'
        PROVE  HandlerClaims(g, j)
    <3>1. g # h
      BY <1>1, <1>3, <1>4, <2>1 DEF HandlerClaims
    <3>2. handlers'[g] = handlers[g]
      BY <1>1, <1>4, <3>1
    <3>3. ASSUME NEW v \in Workers, workers'[v].pc = "fetching", workers'[v].via = g
          PROVE  workers[v].pc = "fetching" /\ workers[v].via = g
      BY <1>1, <1>2, <1>4, <3>1, <3>3
    <3> QED BY <2>1, <3>2, <3>3 DEF HandlerClaims
  <2>2. \A v \in Workers : WorkerClaims(v, j)' => WorkerClaims(v, j)
    BY <1>1, <1>2, <1>4 DEF WorkerClaims
  <2>3. \A v \in Workers : workers'[v].job = j => workers[v].job = j
    BY <1>1, <1>2, <1>4, NullsAssumption
  <2> QED BY <1>4, <2>1, <2>2, <2>3, ClaimsShrink
<1> QED BY <1>6, <1>7, <1>8 DEF ClaimsOK

LEMMA ExecuteUsesTheClaim ==
  ASSUME ClaimInv, LifecycleStep, NEW w \in Workers, Execute(w)
  PROVE  ClaimsOK'
<1> DEFINE next == [workers[w] EXCEPT !.pc = "reporting", !.attempt = 1]
           job == workers[w].job
<1>1. /\ workers \in [Workers -> WorkerRecord] /\ runs \in [JobIds -> Nat]
      /\ job \in JobIds /\ workers[w].via = NoHandler /\ workers[w].pc = "executing"
  BY DEF Execute, ClaimInv, LifeInv, Inv, WorkersOK, GoodWorker
<1>2. /\ workers' = [workers EXCEPT ![w] = next] /\ runs' = [runs EXCEPT ![job] = @ + 1]
      /\ UNCHANGED handlers
  BY <1>1 DEF Execute
<1>3. next.pc = "reporting" /\ next.via = NoHandler /\ next.job = job
  BY <1>1 DEF WorkerRecord
<1> HIDE DEF next
<1>4. ListenOK'
  BY <1>1, <1>2, <1>3, NullsAssumption DEF ClaimInv, ClaimsOK, ListenOK
<1>5. RecheckOK'
  BY <1>2, RecheckStays DEF ClaimInv, ClaimsOK, RecheckOK
<1>6. ASSUME NEW j \in JobIds
      PROVE  /\ \A h \in Handlers : HandlerClaims(h, j)' => HandlerClaims(h, j)
             /\ \A v \in Workers : WorkerClaims(v, j)' => WorkerClaims(v, j) /\ v # w
             /\ \A v \in Workers : workers'[v].job = workers[v].job
  BY <1>1, <1>2, <1>3 DEF HandlerClaims, WorkerClaims
<1>7. ASSUME NEW j \in JobIds, j # job PROVE ClaimOK(j)'
  BY <1>1, <1>2, <1>6, <1>7, ClaimsShrink
<1>8. ASSUME NEW j \in JobIds, j = job PROVE ClaimOK(j)'
  <2>1. WorkerClaims(w, j) /\ ~ Free(j)
    BY <1>1, <1>8 DEF WorkerClaims, Free
  <2>2. runs[j] = 0 /\ ~ Unclaimed(j)
    BY <2>1 DEF ClaimInv, ClaimsOK, ClaimOK
  <2>3. ~ Unclaimed(j)'
    BY <2>2, UnclaimedBefore DEF ClaimInv
  <2>4. runs'[j] = 1
    BY <1>1, <1>2, <1>8, <2>2
  <2>5. (\A h \in Handlers : ~ HandlerClaims(h, j)') /\ (\A v \in Workers : ~ WorkerClaims(v, j)')
    BY <1>6, <2>1 DEF ClaimInv, ClaimsOK, ClaimOK
  <2> QED BY <2>3, <2>4, <2>5 DEF ClaimOK, Free
<1> QED BY <1>4, <1>5, <1>7, <1>8 DEF ClaimsOK
LEMMA RetryReportFields ==
  ASSUME NEW worker \in WorkerRecord
  PROVE  /\ RetryReport(worker).pc \in {"reporting", "idle"}
         /\ RetryReport(worker).via = NoHandler
BY DEF RetryReport, WorkerRecord, IdleWorker

LEMMA AnsweredFields ==
  ASSUME NEW worker \in WorkerRecord, NEW handler, worker.pc \in {"fetching", "waiting"}
  PROVE  /\ Answered(worker, handler).via = NoHandler
         /\ IF worker.pc = "fetching" /\ handler.ok
              THEN /\ Answered(worker, handler).pc = "executing"
                   /\ Answered(worker, handler).job = handler.job
              ELSE /\ Answered(worker, handler).pc \in {"reporting", "idle"}
                   /\ Answered(worker, handler).job \in {worker.job, NoJob}
<1>1. CASE worker.pc = "fetching" /\ handler.ok
  <2> DEFINE next == [IdleWorker EXCEPT !.pc = "executing", !.job = handler.job,
                                        !.spec = handler.spec]
  <2>1. next.pc = "executing" /\ next.job = handler.job /\ next.via = NoHandler
    BY DEF IdleWorker
  <2>2. Answered(worker, handler) = next
    BY <1>1 DEF Answered
  <2> QED BY <1>1, <2>1, <2>2
<1>2. CASE ~ (worker.pc = "fetching" /\ handler.ok)
  <2>1. Answered(worker, handler) \in {IdleWorker, RetryReport(worker)}
    BY <1>2 DEF Answered
  <2>2. IdleWorker.pc = "idle" /\ IdleWorker.via = NoHandler /\ IdleWorker.job = NoJob
    BY DEF IdleWorker
  <2> QED BY <1>2, <2>1, <2>2, RetryReportFields, RetryReportNames
<1> QED BY <1>1, <1>2

\* An answer hands the claim of its handler to the worker that listens.
LEMMA DeliveryHandsOverTheClaim ==
  ASSUME ClaimInv, LifecycleStep, NEW h \in Handlers, DeliverAnswer(h)
  PROVE  ClaimsOK'
<1>1. /\ workers \in [Workers -> WorkerRecord] /\ handlers \in [Handlers -> HandlerRecord]
      /\ handlers[h].pc = "answer"
  BY DEF ClaimInv, LifeInv, Inv, WorkersOK, HandlersOK, DeliverAnswer
<1>2. /\ handlers' = [handlers EXCEPT ![h] = IdleHandler] /\ IdleHandler.pc = "idle"
      /\ \A w \in Workers : workers[w].via # h => workers'[w] = workers[w]
      /\ \A w \in Workers : workers[w].via = h => workers'[w] = Answered(workers[w], handlers[h])
      /\ runs' = runs
  BY DEF DeliverAnswer, IdleHandler
<1>3. ASSUME NEW w \in Workers, workers[w].via = h
      PROVE  /\ workers'[w].via = NoHandler
             /\ IF workers[w].pc = "fetching" /\ handlers[h].ok
                  THEN workers'[w].pc = "executing" /\ workers'[w].job = handlers[h].job
                  ELSE /\ workers'[w].pc \in {"reporting", "idle"}
                       /\ workers'[w].job \in {workers[w].job, NoJob}
  <2>1. workers[w].pc \in {"fetching", "waiting"}
    BY <1>3 DEF ClaimInv, ClaimsOK, ListenOK
  <2>2. workers'[w] = Answered(workers[w], handlers[h]) /\ workers[w] \in WorkerRecord
    BY <1>1, <1>2, <1>3
  <2> QED BY <2>1, <2>2, AnsweredFields
<1>4. ListenOK'
  <2>1. ASSUME NEW v \in Workers, NEW g \in Handlers, workers'[v].via = g
        PROVE  /\ workers'[v] = workers[v] /\ g # h
    BY <1>2, <1>3, <2>1, NullsAssumption
  <2>2. ASSUME NEW u \in Workers, NEW v \in Workers, workers'[u].via = workers'[v].via,
               workers'[u].via # NoHandler
        PROVE  u = v
    <3>1. workers'[u] = workers[u] /\ workers'[v] = workers[v]
      BY <1>2, <1>3, <2>2
    <3> QED BY <2>2, <3>1 DEF ClaimInv, ClaimsOK, ListenOK
  <2>3. \A g \in Handlers : g # h => handlers'[g] = handlers[g]
    BY <1>1, <1>2
  <2> QED BY <2>1, <2>2, <2>3 DEF ListenOK, ClaimInv, ClaimsOK
<1>5. RecheckOK'
  <2>1. ASSUME NEW g \in Handlers, g # h, handlers[g].pc = "recheck"
        PROVE  jobs'[handlers'[g].job].status # "QUEUED"
    BY <1>1, <1>2, <2>1, RecheckStays DEF Status
  <2> QED BY <1>1, <1>2, <2>1 DEF ClaimInv, ClaimsOK, RecheckOK, Status
<1>6. ASSUME NEW j \in JobIds, NEW g \in Handlers, HandlerClaims(g, j)'
      PROVE  HandlerClaims(g, j) /\ g # h
  <2>1. g # h /\ handlers'[g] = handlers[g]
    BY <1>1, <1>2, <1>6 DEF HandlerClaims
  <2>2. ASSUME NEW v \in Workers, workers'[v].via = g
        PROVE  workers'[v] = workers[v]
    BY <1>2, <1>3, <2>2, NullsAssumption
  <2> QED BY <1>6, <2>1, <2>2 DEF HandlerClaims
<1>7. ASSUME NEW j \in JobIds, NEW w \in Workers, WorkerClaims(w, j)'
      PROVE  WorkerClaims(w, j) \/ (workers[w].via = h /\ HandlerClaims(h, j))
  <2>1. CASE workers[w].via # h
    BY <1>2, <1>7, <2>1 DEF WorkerClaims
  <2>2. CASE workers[w].via = h
    BY <1>1, <1>3, <1>7, <2>2 DEF WorkerClaims, HandlerClaims
  <2> QED BY <2>1, <2>2
<1>8. ASSUME NEW j \in JobIds, NEW w \in Workers, workers'[w].job = j
      PROVE  workers[w].job = j \/ HandlerClaims(h, j)
  <2>1. CASE workers[w].via # h
    BY <1>2, <1>8, <2>1
  <2>2. CASE workers[w].via = h
    BY <1>1, <1>3, <1>8, <2>2, NullsAssumption DEF HandlerClaims
  <2> QED BY <2>1, <2>2
<1>9. ASSUME NEW j \in JobIds, ~ HandlerClaims(h, j) PROVE ClaimOK(j)'
  BY <1>2, <1>6, <1>7, <1>8, <1>9, ClaimsShrink
<1>10. ASSUME NEW j \in JobIds, HandlerClaims(h, j) PROVE ClaimOK(j)'
  <2>1. ClaimOK(j) /\ ~ Free(j)
    BY <1>10 DEF ClaimInv, ClaimsOK, Free
  <2>2. runs'[j] = 0 /\ ~ Unclaimed(j)'
    BY <1>2, <2>1, UnclaimedBefore DEF ClaimInv, ClaimOK
  <2>3. \A g \in Handlers : ~ HandlerClaims(g, j)'
    BY <1>6, <1>10, <2>1 DEF ClaimOK
  <2>4. \A w \in Workers : WorkerClaims(w, j)' => workers[w].via = h
    BY <1>7, <1>10, <2>1 DEF ClaimOK
  <2>5. \A v, w \in Workers : workers[v].via = h /\ workers[w].via = h => v = w
    BY NullsAssumption DEF ClaimInv, ClaimsOK, ListenOK
  <2> QED BY <2>2, <2>3, <2>4, <2>5 DEF ClaimOK
<1> QED BY <1>4, <1>5, <1>9, <1>10 DEF ClaimsOK

LEMMA WorkersKeepClaims ==
  ASSUME ClaimInv, LifecycleStep, NEW w \in Workers,
         WorkerStep(w) \/ Expire(w) \/ GiveUp(w) \/ Stop(w)
  PROVE  ClaimsOK'
<1>1. workers \in [Workers -> WorkerRecord] /\ IdleWorker \in WorkerRecord
      /\ StoppedWorker \in WorkerRecord
  BY IdleWorkerIsGood DEF ClaimInv, LifeInv, Inv, WorkersOK
<1>2. /\ IdleWorker.pc = "idle" /\ IdleWorker.via = NoHandler /\ IdleWorker.job = NoJob
      /\ StoppedWorker.pc = "stopped" /\ StoppedWorker.via = NoHandler
      /\ StoppedWorker.job = NoJob
  BY DEF IdleWorker, StoppedWorker
<1>3. CASE Heartbeat(w) \/ Expire(w)
  BY <1>3, ClaimsStay DEF Heartbeat, Expire
<1>4. CASE Execute(w)
  BY <1>4, ExecuteUsesTheClaim
<1>5. ASSUME NEW h \in Handlers, FetchWork(w, h)
      PROVE  ClaimsOK'
  <2> DEFINE worker == [IdleWorker EXCEPT !.pc = "fetching"]
             handler == [IdleHandler EXCEPT !.pc = "dequeue"]
  <2>1. worker \in WorkerRecord /\ worker.job = NoJob /\ worker.pc = "fetching"
    BY <1>1, IdleNames DEF WorkerRecord
  <2>2. handler \in HandlerRecord /\ handler.pc = "dequeue"
    BY DEF IdleHandler, HandlerRecord, AnyJob, AnySpec, FetchPcs
  <2>3. Open(w, h, worker, handler)
    BY <1>5 DEF FetchWork
  <2> HIDE DEF worker, handler
  <2> QED BY <2>1, <2>2, <2>3, OpenTakesNoClaim
<1>6. ASSUME NEW h \in Handlers, ReportWorkOutcome(w, h)
      PROVE  ClaimsOK'
  <2> DEFINE worker == [workers[w] EXCEPT !.pc = "waiting"]
             handler == [IdleHandler EXCEPT !.pc = "store", !.job = workers[w].job,
                                            !.spec = workers[w].spec]
  <2>1. worker \in WorkerRecord /\ worker.job = workers[w].job /\ worker.pc = "waiting"
    BY <1>1 DEF WorkerRecord
  <2>2. handler \in HandlerRecord /\ handler.pc = "store"
    <3>1. IdleHandler \in HandlerRecord
      BY DEF IdleHandler, HandlerRecord, AnyJob, AnySpec
    <3> QED BY <1>1, <3>1 DEF HandlerRecord, WorkerRecord, ReportPcs
  <2>3. Open(w, h, worker, handler)
    BY <1>6 DEF ReportWorkOutcome
  <2> HIDE DEF worker, handler
  <2> QED BY <2>1, <2>2, <2>3, OpenTakesNoClaim
<1>7. CASE GiveUp(w)
  <2>1. workers[w].pc = "fetching" => workers' = [workers EXCEPT ![w] = IdleWorker]
    BY <1>1, <1>7 DEF GiveUp
  <2>2. /\ workers[w].pc # "fetching" => workers' = [workers EXCEPT ![w] = RetryReport(workers[w])]
        /\ workers[w].pc # "fetching" => RetryReport(workers[w]) \in WorkerRecord
    <3>1. workers[w].pc = "waiting" => GoodWorker(RetryReport(workers[w]))
      BY <1>1, RetryReportIsGood DEF ClaimInv, LifeInv, Inv, WorkersOK, GoodWorker
    <3> QED BY <1>1, <1>7, <3>1 DEF GiveUp, GoodWorker
  <2>3. UNCHANGED <<handlers, runs>>
    BY <1>7 DEF GiveUp
  <2>4. CASE workers[w].pc = "fetching"
    BY <1>1, <1>2, <2>1, <2>3, <2>4, WorkerTakesNoClaim
  <2>5. CASE workers[w].pc # "fetching"
    BY <1>1, <2>2, <2>3, <2>5, RetryReportFields, RetryReportNames, WorkerTakesNoClaim
  <2> QED BY <2>4, <2>5
<1>8. CASE Stop(w)
  <2>1. workers' = [workers EXCEPT ![w] = StoppedWorker] /\ UNCHANGED <<handlers, runs>>
    BY <1>8 DEF Stop
  <2> QED BY <1>1, <1>2, <2>1, WorkerTakesNoClaim
<1> QED BY <1>3, <1>4, <1>5, <1>6, <1>7, <1>8 DEF WorkerStep

LEMMA InitHasNoClaims ==
  ASSUME Init
  PROVE  ClaimsOK
<1>1. \A w \in Workers : workers[w].pc = "idle" /\ workers[w].via = NoHandler /\ workers[w].job = NoJob
  BY DEF Init, IdleWorker
<1>2. \A h \in Handlers : handlers[h].pc = "idle"
  BY DEF Init, IdleHandler
<1>3. \A j \in JobIds : runs[j] = 0
  BY DEF Init
<1>4. ListenOK /\ RecheckOK
  BY <1>1, <1>2, NullsAssumption DEF ListenOK, RecheckOK
<1>5. ASSUME NEW j \in JobIds PROVE ClaimOK(j)
  <2>1. (\A h \in Handlers : ~ HandlerClaims(h, j)) /\ (\A w \in Workers : ~ WorkerClaims(w, j))
    BY <1>1, <1>2 DEF HandlerClaims, WorkerClaims
  <2> QED BY <1>1, <1>3, <2>1, NullsAssumption DEF ClaimOK, Free
<1> QED BY <1>4, <1>5 DEF ClaimsOK

LEMMA NextKeepsClaims ==
  ASSUME ClaimInv, [Next]_vars
  PROVE  ClaimsOK'
<1>1. LifecycleStep
  BY NextIsOK DEF ClaimInv, StepOK
<1>2. ASSUME NEW c \in Calls, SubmitJob(c) \/ CancelJob(c) \/ GetJobResult(c) \/ ContinueCall(c)
      PROVE  ClaimsOK'
  <2>1. UNCHANGED <<handlers, workers, runs>>
    BY <1>2 DEF SubmitJob, CancelJob, GetJobResult, ContinueCall, SubmitEnqueue, SubmitCompensate,
                CancelRemove, CancelStore, CancelTransition, CancelFlag, ReadEnvelope, GatewayCall
  <2> QED BY <1>1, <2>1, ClaimsStay
<1>3. ASSUME NEW h \in Handlers, HandlerStep(h)
      PROVE  ClaimsOK'
  BY <1>1, <1>3, CoordinatorKeepsClaims, DeliveryHandsOverTheClaim DEF HandlerStep
<1>4. ASSUME NEW w \in Workers, WorkerStep(w) \/ Expire(w) \/ GiveUp(w) \/ Stop(w)
      PROVE  ClaimsOK'
  BY <1>1, <1>4, WorkersKeepClaims
<1>5. ASSUME NEW f \in Faults, ExecuteLate(f)
      PROVE  ClaimsOK'
  BY <1>1, <1>5, ClaimsStay DEF ExecuteLate
<1>6. CASE UNCHANGED vars
  BY <1>1, <1>6, ClaimsStay DEF vars
<1> QED BY <1>2, <1>3, <1>4, <1>5, <1>6 DEF Next

LEMMA ClaimInvariant == Spec => []ClaimInv
<1>1. Init => ClaimsOK
  BY InitHasNoClaims
<1>2. LifeInv /\ ClaimsOK /\ [Next]_vars => ClaimsOK'
  BY NextKeepsClaims DEF ClaimInv
<1>3. LifeInv /\ ClaimsOK => ClaimInv
  BY DEF ClaimInv
<1> QED BY <1>1, <1>2, <1>3, LifeInvariant, PTL DEF Spec

\* The claim is a compare-and-set that one handler wins, and its job passes
\* through one handler and one worker at a time, who drop it or run it once:
\* retried fetches, lost answers and late requests make no second run.
THEOREM JobsRunAtMostOnce == Spec => []RunsAtMostOnce
<1>1. ClaimInv => RunsAtMostOnce
  BY DEF ClaimInv, ClaimsOK, ClaimOK, RunsAtMostOnce
<1> QED BY <1>1, ClaimInvariant, PTL

\* A job is canceled only out of QUEUED, where nobody has claimed it, and never
\* after a claim: so no worker has run it, runs it or will report on it.
THEOREM CanceledJobsNeverRun == Spec => []CanceledNeverRuns
<1>1. ClaimInv => CanceledNeverRuns
  BY DEF ClaimInv, ClaimsOK, ClaimOK, Unclaimed, CanceledNeverRuns
<1> QED BY <1>1, ClaimInvariant, PTL

\* A claim that fails finds its job out of QUEUED, and it stays out of it: the
\* branch of FetchWork that would enqueue the job again is dead code.
THEOREM TheRescueIsNeverTaken == Spec => []RescueIsDead
<1>1. ClaimInv => RescueIsDead
  BY DEF ClaimInv, ClaimsOK, RecheckOK, RescueIsDead
<1> QED BY <1>1, ClaimInvariant, PTL
=============================================================================
