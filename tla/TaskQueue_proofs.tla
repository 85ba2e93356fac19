-------------------------- MODULE TaskQueue_proofs -------------------------
(***************************************************************************)
(* Proofs about the whole system, for any number of calls, workers,        *)
(* handlers, keys, specs and failures.                                     *)
(*                                                                         *)
(* A terminal record always has its envelope because every request that    *)
(* could make it terminal is sent after the envelope was stored.  Such a   *)
(* request may be in one of three places: about to be sent by a cancel,    *)
(* about to be sent by a report, or lost by its sender and not executed    *)
(* yet.  The inductive invariant says of each place that the envelope is   *)
(* there; envelopes never go away.                                         *)
(***************************************************************************)
EXTENDS TaskQueue, StoreServices_proofs

\* m is a request that a component sends: its arguments are there, and if it
\* could end a job, then env, the stored envelopes, has that job's.
GoodMessage(m, env) ==
  /\ m \in Messages
  /\ m.rpc \in WriteRpcs \ {"DequeueJob"} => m.job \in JobIds
  /\ m.rpc = "CreateJob" => m.spec \in Specs
  /\ m.rpc = "TransitionJobStatus" /\ m.to \in TerminalStatuses => env[m.job] # NoEnvelope

GoodCall(call, env) ==
  /\ call \in CallRecord
  /\ call.pc \notin {"idle", "done"} => call.job \in JobIds
  /\ call.pc = "transition" => env[call.job] # NoEnvelope

GoodHandler(handler, env) ==
  /\ handler \in HandlerRecord
  /\ handler.pc \notin {"idle", "dequeue", "answer"} => handler.job \in JobIds
  /\ handler.pc = "answer" /\ handler.ok => handler.job \in JobIds
  /\ handler.pc = "finish" => env[handler.job] # NoEnvelope

GoodWorker(worker) ==
  /\ worker \in WorkerRecord
  /\ worker.pc \in {"executing", "reporting", "waiting"} => worker.job \in JobIds
  /\ worker.via = NoHandler \/ worker.pc \in {"fetching", "waiting"}

StoresOK == JobTypeOK /\ QueueInv /\ ResultTypeOK /\ TerminalHasEnvelope

LateOK ==
  /\ late \in [Faults -> Messages]
  /\ \A f \in Faults : GoodMessage(late[f], results)

CallsOK ==
  /\ calls \in [Calls -> CallRecord]
  /\ \A c \in Calls : GoodCall(calls[c], results)

HandlersOK ==
  /\ handlers \in [Handlers -> HandlerRecord]
  /\ \A h \in Handlers : GoodHandler(handlers[h], results)

WorkersOK ==
  /\ workers \in [Workers -> WorkerRecord]
  /\ \A w \in Workers : GoodWorker(workers[w])
  /\ live \subseteq Workers
  /\ runs \in [JobIds -> Nat]

\* The inductive invariant.
Inv == StoresOK /\ LateOK /\ CallsOK /\ HandlersOK /\ WorkersOK

\* No envelope that is stored before the step is gone after it.
EnvelopesStay == \A j \in JobIds : results[j] # NoEnvelope => results'[j] # NoEnvelope
-----------------------------------------------------------------------------
(***************************************************************************)
(* The requests are messages.                                              *)
(***************************************************************************)
LEMMA CreateIsGood ==
  ASSUME NEW j \in JobIds, NEW spec \in Specs, NEW key \in AnyKey, NEW env
  PROVE  GoodMessage(CreateRequest(j, spec, key), env)
BY DEF CreateRequest, Message, GoodMessage, Messages, AnyJob, AnySpec, AnyStatus, WriteRpcs

LEMMA DeleteIsGood ==
  ASSUME NEW j \in JobIds, NEW expected \in AnyStatus, NEW env
  PROVE  GoodMessage(DeleteRequest(j, expected), env)
BY DEF DeleteRequest, Message, GoodMessage, Messages, AnyJob, AnySpec, AnyKey, AnyStatus,
       WriteRpcs

LEMMA TransitionIsGood ==
  ASSUME NEW j \in JobIds, NEW from \in AnyStatus, NEW to \in AnyStatus, NEW env,
         to \in TerminalStatuses => env[j] # NoEnvelope
  PROVE  GoodMessage(TransitionRequest(j, from, to), env)
BY DEF TransitionRequest, Message, GoodMessage, Messages, AnyJob, AnySpec, AnyKey, WriteRpcs

LEMMA StoreIsGood ==
  ASSUME NEW j \in JobIds, NEW status \in AnyStatus, NEW spec \in AnySpec, NEW env
  PROVE  GoodMessage(StoreRequest(j, status, spec), env)
BY DEF StoreRequest, Message, GoodMessage, Messages, AnyJob, AnyKey, AnyStatus, WriteRpcs

\* A request with no argument but the job.
LEMMA PlainIsGood ==
  ASSUME NEW rpc \in {"GetJobRecord", "GetResult", "SetCancelRequested", "EnqueueJob",
                      "RemoveJobIfPresent"},
         NEW j \in JobIds, NEW env
  PROVE  GoodMessage(Request(rpc, j), env)
BY DEF Request, Message, GoodMessage, Messages, ReadRpcs, WriteRpcs, AnyJob, AnySpec, AnyKey,
       AnyStatus

LEMMA DequeueIsGood ==
  ASSUME NEW env
  PROVE  GoodMessage(Request("DequeueJob", NoJob), env)
BY DEF Request, Message, GoodMessage, Messages, WriteRpcs, AnyJob, AnySpec, AnyKey, AnyStatus

LEMMA SpentIsGood ==
  ASSUME NEW env
  PROVE  GoodMessage(Spent, env) /\ GoodMessage(NoMessage, env)
BY DEF Spent, NoMessage, Request, Message, GoodMessage, Messages, WriteRpcs, AnyJob, AnySpec,
       AnyKey, AnyStatus
-----------------------------------------------------------------------------
(***************************************************************************)
(* Serving a request.                                                      *)
(***************************************************************************)
\* Only a TransitionJobStatus to a terminal status ends a job.
LEMMA NewlyTerminal ==
  ASSUME JobTypeOK, NEW m, ServeJob(m), NEW j \in JobIds, Terminal(j)'
  PROVE  \/ Terminal(j)
         \/ m.rpc = "TransitionJobStatus" /\ m.job = j /\ m.to \in TerminalStatuses
<1>1. CASE CreateJob(m.spec, m.key, m.job)
  <2>1. NewRecord(m.spec).status = "QUEUED"
    BY DEF NewRecord
  <2> QED BY <1>1, <2>1 DEF CreateJob, Terminal, Status, JobTypeOK, TerminalStatuses
<1>2. CASE DeleteJobIfStatus(m.job, m.from)
  BY <1>2 DEF DeleteJobIfStatus, Terminal, Status, JobTypeOK, TerminalStatuses, NoRecord, UNSPECIFIED
<1>3. CASE /\ m.rpc = "TransitionJobStatus"
           /\ \E now \in Times : TransitionJobStatus(m.job, m.from, m.to, now)
  <2>1. PICK now \in Times : TransitionJobStatus(m.job, m.from, m.to, now)
    BY <1>3
  <2>2. CASE /\ Matches(m.job, m.from, m.to) /\ <<m.from, m.to>> \in AllowedTransitions
             /\ m.job = j
    <3>1. jobs[j] \in JobRecord
      BY <2>2, KnownRecord DEF Matches
    <3>2. jobs'[j] = Transitioned(jobs[j], m.to, now)
      BY <2>1, <2>2 DEF TransitionJobStatus, JobTypeOK
    <3>3. jobs'[j].status = m.to
      BY <3>1, <3>2 DEF Transitioned, JobRecord
    <3> QED BY <1>3, <2>2, <3>3 DEF Terminal, Status
  <2>3. CASE ~ (/\ Matches(m.job, m.from, m.to) /\ <<m.from, m.to>> \in AllowedTransitions
                /\ m.job = j)
    BY <2>1, <2>3 DEF TransitionJobStatus, JobTypeOK, Terminal, Status
  <2> QED BY <2>2, <2>3
<1>4. CASE SetCancelRequested(m.job, TRUE)
  <2>1. jobs'[j].status = jobs[j].status
    <3>1. CASE Known(m.job) /\ m.job = j
      <4>1. jobs[j] \in JobRecord
        BY <3>1, KnownRecord
      <4> QED BY <1>4, <4>1 DEF SetCancelRequested, JobTypeOK, JobRecord
    <3>2. CASE ~ (Known(m.job) /\ m.job = j)
      BY <1>4, <3>2 DEF SetCancelRequested, JobTypeOK
    <3> QED BY <3>1, <3>2
  <2> QED BY <2>1 DEF Terminal, Status
<1> QED BY <1>1, <1>2, <1>3, <1>4 DEF ServeJob

\* Whatever request a service executes, the stores keep their types, a job
\* that is terminal afterwards has its envelope, and no envelope is lost.
LEMMA ServeKeeps ==
  ASSUME StoresOK, NEW m, GoodMessage(m, results), Serve(m)
  PROVE  StoresOK' /\ EnvelopesStay
<1> USE DEF StoresOK
<1>1. CASE ServeJob(m) /\ UNCHANGED <<queue, results>>
  <2>1. JobTypeOK'
    <3>1. m.rpc = "CreateJob" => m.spec \in Specs /\ m.key \in Keys \cup {NoKey} /\ m.job \in JobIds
      BY DEF GoodMessage, Messages, WriteRpcs, AnyKey
    <3>2. CASE m.rpc = "CreateJob" /\ CreateJob(m.spec, m.key, m.job)
      BY <3>1, <3>2, CreateJobType
    <3>3. CASE m.rpc = "DeleteJobIfStatus" /\ DeleteJobIfStatus(m.job, m.from)
      BY <3>3, DeleteJobIfStatusType DEF GoodMessage, WriteRpcs
    <3>4. CASE /\ m.rpc = "TransitionJobStatus"
               /\ \E now \in Times : TransitionJobStatus(m.job, m.from, m.to, now)
      BY <3>4, TransitionJobStatusType DEF GoodMessage, WriteRpcs
    <3>5. CASE m.rpc = "SetCancelRequested" /\ SetCancelRequested(m.job, TRUE)
      BY <3>5, SetCancelRequestedType DEF GoodMessage, WriteRpcs
    <3> QED BY <1>1, <3>2, <3>3, <3>4, <3>5 DEF ServeJob
  <2>2. \A j \in JobIds : Terminal(j)' => HasEnvelope(j)
    BY <1>1, NewlyTerminal DEF GoodMessage, TerminalHasEnvelope, HasEnvelope
  <2> QED BY <1>1, <2>1, <2>2
          DEF QueueInv, QueueTypeOK, NoDuplicates, ResultTypeOK, TerminalHasEnvelope,
              HasEnvelope, EnvelopesStay
<1>2. CASE ServeQueue(m) /\ UNCHANGED <<jobs, dedup, issued, results>>
  <2>1. QueueInv'
    BY <1>2, EnqueueJobKeeps, DequeueJobKeeps, RemoveJobIfPresentKeeps
       DEF ServeQueue, GoodMessage, WriteRpcs
  <2> QED BY <1>2, <2>1
          DEF JobTypeOK, ResultTypeOK, TerminalHasEnvelope, Terminal, Status, HasEnvelope,
              EnvelopesStay
<1>3. CASE /\ m.rpc = "StoreResult"
           /\ StoreResult(m.job, m.to, m.spec \in BigSpecs)
           /\ UNCHANGED <<jobs, dedup, issued, queue>>
  <2>1. m.job \in JobIds
    BY <1>3 DEF GoodMessage, WriteRpcs
  <2>2. ResultTypeOK' /\ \A k \in JobIds : HasEnvelope(k) => results'[k] = results[k]
    BY <1>3, <2>1, StoreResultKeeps
  <2> QED BY <1>3, <2>2
          DEF JobTypeOK, QueueInv, QueueTypeOK, NoDuplicates, TerminalHasEnvelope, Terminal,
              Status, HasEnvelope, EnvelopesStay
<1>4. CASE m.rpc \in ReadRpcs /\ UNCHANGED stores
  BY <1>4 DEF stores, JobTypeOK, QueueInv, QueueTypeOK, NoDuplicates, ResultTypeOK,
              TerminalHasEnvelope, Terminal, Status, HasEnvelope, EnvelopesStay
<1> QED BY <1>1, <1>2, <1>3, <1>4 DEF Serve
-----------------------------------------------------------------------------
(***************************************************************************)
(* The gateway: where a reply takes a call.                                *)
(***************************************************************************)
LEMMA FailIsGood ==
  ASSUME NEW env, NEW call \in CallRecord, NEW code \in Codes
  PROVE  GoodCall(Fail(call, code), env)
BY DEF Fail, GoodCall, CallRecord, CallPcs

LEMMA MappedIsCode ==
  ASSUME NEW code
  PROVE  Mapped(code) \in Codes
BY DEF Mapped, Codes

LEMMA RespondIsGood ==
  ASSUME NEW env, NEW call \in CallRecord, NEW status \in AnyStatus, NEW already \in BOOLEAN
  PROVE  GoodCall(Respond(call, status, already), env)
BY DEF Respond, GoodCall, CallRecord, CallPcs, Codes

LEMMA MovedIsGood ==
  ASSUME NEW env, NEW call \in CallRecord, call.job \in JobIds, NEW pc \in CallPcs,
         pc = "transition" => env[call.job] # NoEnvelope
  PROVE  GoodCall([call EXCEPT !.pc = pc], env)
<1>1. [call EXCEPT !.pc = pc] \in CallRecord
  BY DEF CallRecord
<1>2. [call EXCEPT !.pc = pc].job = call.job /\ [call EXCEPT !.pc = pc].pc = pc
  BY DEF CallRecord
<1> QED BY <1>1, <1>2 DEF GoodCall

\* A reply that carries the status of a job when its code is OK.
HasStatus(r) == r.code = "OK" => r.status \in AnyStatus

LEMMA AfterCreateIsGood ==
  ASSUME NEW env, NEW call \in CallRecord, NEW r, HasStatus(r),
         r.code = "OK" => r.job \in JobIds
  PROVE  GoodCall(AfterCreate(call, r), env)
<1>1. CASE r.code # "OK"
  BY <1>1, FailIsGood, MappedIsCode DEF AfterCreate
<1>2. CASE r.code = "OK" /\ r.status = "QUEUED"
  <2>1. [call EXCEPT !.job = r.job, !.status = r.status, !.pc = "enqueue"] \in CallRecord
    BY <1>2 DEF HasStatus, CallRecord, AnyJob, CallPcs
  <2>2. [call EXCEPT !.job = r.job, !.status = r.status, !.pc = "enqueue"].job = r.job
    BY <1>2 DEF CallRecord
  <2>3. [call EXCEPT !.job = r.job, !.status = r.status, !.pc = "enqueue"].pc = "enqueue"
    BY <1>2 DEF CallRecord
  <2> QED BY <1>2, <2>1, <2>2, <2>3 DEF AfterCreate, GoodCall
<1>3. CASE r.code = "OK" /\ r.status # "QUEUED"
  <2>1. [call EXCEPT !.job = r.job] \in CallRecord
    BY <1>3 DEF CallRecord, AnyJob
  <2> QED BY <1>3, <2>1, RespondIsGood DEF AfterCreate, HasStatus
<1> QED BY <1>1, <1>2, <1>3

LEMMA AfterEnqueueIsGood ==
  ASSUME NEW env, NEW call \in CallRecord, call.job \in JobIds, NEW r
  PROVE  GoodCall(AfterEnqueue(call, r), env)
BY RespondIsGood, MovedIsGood DEF AfterEnqueue, AnyStatus, JobStatus, CallPcs

LEMMA AfterCancelReadIsGood ==
  ASSUME NEW env, NEW call \in CallRecord, call.job \in JobIds, NEW r, HasStatus(r)
  PROVE  GoodCall(AfterCancelRead(call, r), env)
<1>1. CASE r.code # "OK"
  BY <1>1, FailIsGood, MappedIsCode DEF AfterCancelRead
<1>2. CASE r.code = "OK" /\ r.status \in TerminalStatuses
  <2>1. [call EXCEPT !.seen = r.status] \in CallRecord
    BY <1>2 DEF CallRecord, HasStatus
  <2> QED BY <1>2, <2>1, RespondIsGood DEF AfterCancelRead, HasStatus
<1>3. CASE r.code = "OK" /\ r.status \notin TerminalStatuses
  <2> DEFINE pc == IF r.status = "QUEUED" THEN "remove" ELSE "flag"
             next == [call EXCEPT !.seen = r.status, !.pc = pc]
  <2>1. pc \in CallPcs /\ pc # "transition"
    BY DEF CallPcs
  <2>2. AfterCancelRead(call, r) = next
    BY <1>3 DEF AfterCancelRead
  <2> HIDE DEF pc
  <2>3. next \in CallRecord /\ next.job = call.job /\ next.pc = pc
    BY <1>3, <2>1 DEF CallRecord, HasStatus
  <2> QED BY <2>1, <2>2, <2>3 DEF GoodCall
<1> QED BY <1>1, <1>2, <1>3

LEMMA AfterRemoveIsGood ==
  ASSUME NEW env, NEW call \in CallRecord, call.job \in JobIds, NEW r
  PROVE  GoodCall(AfterRemove(call, r), env)
BY FailIsGood, MappedIsCode, MovedIsGood DEF AfterRemove, CallPcs

LEMMA AfterCancelStoreIsGood ==
  ASSUME NEW env, NEW call \in CallRecord, call.job \in JobIds, NEW r,
         r.code = "OK" => env[call.job] # NoEnvelope
  PROVE  GoodCall(AfterCancelStore(call, r), env)
BY FailIsGood, MappedIsCode, MovedIsGood DEF AfterCancelStore, CallPcs, Codes

LEMMA AfterCancelTransitionIsGood ==
  ASSUME NEW env, NEW call \in CallRecord, call.job \in JobIds, NEW r, HasStatus(r)
  PROVE  GoodCall(AfterCancelTransition(call, r), env)
<1>1. CASE r.code # "OK"
  BY <1>1, FailIsGood, MappedIsCode DEF AfterCancelTransition
<1>2. CASE r.code = "OK" /\ r.applied
  BY <1>2, RespondIsGood DEF AfterCancelTransition, AnyStatus, JobStatus, TerminalStatuses
<1>3. CASE r.code = "OK" /\ ~ r.applied /\ r.status \in TerminalStatuses
  BY <1>3, RespondIsGood DEF AfterCancelTransition, HasStatus
<1>4. CASE r.code = "OK" /\ ~ r.applied /\ r.status \notin TerminalStatuses
  BY <1>4, MovedIsGood DEF AfterCancelTransition, CallPcs
<1> QED BY <1>1, <1>2, <1>3, <1>4

LEMMA AfterFlagIsGood ==
  ASSUME NEW env, NEW call \in CallRecord, NEW r, HasStatus(r)
  PROVE  GoodCall(AfterFlag(call, r), env)
<1>1. CASE r.code # "OK"
  BY <1>1, FailIsGood, MappedIsCode DEF AfterFlag
<1>2. CASE r.code = "OK"
  <2> DEFINE already == r.status \in TerminalStatuses
  <2>1. already \in BOOLEAN
    OBVIOUS
  <2>2. AfterFlag(call, r) = Respond(call, r.status, already)
    BY <1>2, Zenon DEF AfterFlag
  <2> HIDE DEF already
  <2> QED BY <1>2, <2>1, <2>2, RespondIsGood DEF HasStatus
<1> QED BY <1>1, <1>2

LEMMA AfterResultReadIsGood ==
  ASSUME NEW env, NEW call \in CallRecord, call.job \in JobIds, NEW r, HasStatus(r)
  PROVE  GoodCall(AfterResultRead(call, r), env)
<1>1. CASE r.code # "OK"
  BY <1>1, FailIsGood, MappedIsCode DEF AfterResultRead
<1>2. CASE r.code = "OK" /\ r.status \notin TerminalStatuses
  BY <1>2, RespondIsGood DEF AfterResultRead, AnyStatus
<1>3. CASE r.code = "OK" /\ r.status \in TerminalStatuses
  <2> DEFINE next == [call EXCEPT !.seen = r.status, !.pc = "result"]
  <2>1. AfterResultRead(call, r) = next
    BY <1>3 DEF AfterResultRead
  <2>2. next \in CallRecord /\ next.job = call.job /\ next.pc = "result"
    BY <1>3 DEF CallRecord, CallPcs, HasStatus
  <2> QED BY <2>1, <2>2 DEF GoodCall
<1> QED BY <1>1, <1>2, <1>3

LEMMA AfterGetResultIsGood ==
  ASSUME NEW env, NEW call \in CallRecord, NEW r, HasStatus(r)
  PROVE  GoodCall(AfterGetResult(call, r), env)
<1>1. CASE r.code # "OK"
  BY <1>1, FailIsGood, MappedIsCode DEF AfterGetResult
<1>2. CASE r.code = "OK" /\ (~ r.found \/ r.status # call.seen)
  BY <1>2, FailIsGood DEF AfterGetResult, Codes
<1>3. CASE r.code = "OK" /\ r.found /\ r.status = call.seen
  BY <1>3, RespondIsGood DEF AfterGetResult, HasStatus
<1> QED BY <1>1, <1>2, <1>3
-----------------------------------------------------------------------------
(***************************************************************************)
(* Parts of the invariant that a step does not touch.                      *)
(***************************************************************************)
LEMMA StoresStay ==
  ASSUME StoresOK, UNCHANGED stores
  PROVE  StoresOK' /\ EnvelopesStay
BY DEF StoresOK, stores, JobTypeOK, QueueInv, QueueTypeOK, NoDuplicates, ResultTypeOK,
       TerminalHasEnvelope, Terminal, Status, HasEnvelope, EnvelopesStay

LEMMA LateStays ==
  ASSUME LateOK, EnvelopesStay, UNCHANGED late
  PROVE  LateOK'
BY DEF LateOK, GoodMessage, WriteRpcs, EnvelopesStay

LEMMA CallsStay ==
  ASSUME CallsOK, EnvelopesStay, UNCHANGED calls
  PROVE  CallsOK'
BY DEF CallsOK, GoodCall, EnvelopesStay

LEMMA HandlersStay ==
  ASSUME HandlersOK, EnvelopesStay, UNCHANGED handlers
  PROVE  HandlersOK'
BY DEF HandlersOK, GoodHandler, EnvelopesStay

LEMMA WorkersStay ==
  ASSUME WorkersOK, UNCHANGED <<workers, live, runs>>
  PROVE  WorkersOK'
BY DEF WorkersOK
-----------------------------------------------------------------------------
(***************************************************************************)
(* One RPC of a handler: request m is executed or lost, and r comes back.  *)
(***************************************************************************)
Called(m, r) ==
  \/ Serve(m) /\ r = ReplyTo(m) /\ UNCHANGED late
  \/ Lose(m) /\ r = RpcError /\ UNCHANGED stores

LEMMA CalledKeeps ==
  ASSUME Inv, NEW m, NEW r, GoodMessage(m, results), Called(m, r)
  PROVE  StoresOK' /\ LateOK' /\ EnvelopesStay
<1>1. CASE Serve(m) /\ UNCHANGED late
  <2>1. StoresOK' /\ EnvelopesStay
    BY <1>1, ServeKeeps DEF Inv
  <2> QED BY <1>1, <2>1, LateStays DEF Inv
<1>2. CASE Lose(m) /\ UNCHANGED stores
  <2>1. StoresOK' /\ EnvelopesStay
    BY <1>2, StoresStay DEF Inv
  <2>2. PICK f \in Faults : late' = [late EXCEPT ![f] = m]
    BY <1>2 DEF Lose
  <2>3. m \in Messages /\ GoodMessage(m, results')
    BY <1>2 DEF stores, GoodMessage
  <2> QED BY <2>1, <2>2, <2>3, <1>2 DEF Inv, LateOK, stores
<1> QED BY <1>1, <1>2 DEF Called

\* The reply to an RPC that returns a status carries one.
LEMMA CalledStatus ==
  ASSUME StoresOK, NEW m, NEW r, GoodMessage(m, results), Called(m, r),
         m.job \in JobIds,
         m.rpc \in {"CreateJob", "GetJobRecord", "TransitionJobStatus",
                    "SetCancelRequested", "StoreResult", "GetResult"}
  PROVE  HasStatus(r)
<1>1. CASE r = RpcError
  BY <1>1 DEF RpcError, ErrorReply, HasStatus
<1>2. CASE r = ReplyTo(m)
  <2>1. \A j \in JobIds : jobs[j].status \in AnyStatus
    BY DEF StoresOK, JobTypeOK, JobRecord, NoRecord, AnyStatus
  <2>2. m.to \in AnyStatus
    BY DEF GoodMessage, Messages
  <2>3. CASE m.rpc = "CreateJob"
    <3>1. CASE ~ Indexed(m.key)
      BY <1>2, <2>3, <3>1 DEF ReplyTo, CreateJobReply, HasStatus, AnyStatus, JobStatus
    <3>2. CASE Indexed(m.key)
      <4>1. EntryOf(m.key).job \in JobIds
        BY <3>2, EntryOfType DEF StoresOK, JobTypeOK, DedupEntry
      <4> QED BY <1>2, <2>1, <2>3, <3>2, <4>1
              DEF ReplyTo, CreateJobReply, ErrorReply, HasStatus
    <3> QED BY <3>1, <3>2
  <2>4. CASE m.rpc = "GetJobRecord"
    BY <1>2, <2>1, <2>4 DEF ReplyTo, GetJobRecordReply, ErrorReply, HasStatus
  <2>5. CASE m.rpc = "TransitionJobStatus"
    BY <1>2, <2>1, <2>2, <2>5
       DEF ReplyTo, TransitionJobStatusReply, ErrorReply, StatusReply, HasStatus
  <2>6. CASE m.rpc = "SetCancelRequested"
    BY <1>2, <2>1, <2>6
       DEF ReplyTo, SetCancelRequestedReply, ErrorReply, StatusReply, HasStatus
  <2>7. CASE m.rpc = "StoreResult"
    <3>1. results[m.job] \in AnyStatus
      BY DEF StoresOK, ResultTypeOK, AnyStatus, JobStatus, NoEnvelope
    <3> QED BY <1>2, <2>2, <2>7, <3>1
            DEF ReplyTo, StoreResultReply, ErrorReply, StatusReply, HasStatus
  <2>8. CASE m.rpc = "GetResult"
    <3>1. results[m.job] \in AnyStatus
      BY DEF StoresOK, ResultTypeOK, AnyStatus, JobStatus, NoEnvelope
    <3> QED BY <1>2, <2>8, <3>1 DEF ReplyTo, GetResultReply, HasStatus
  <2> QED BY <2>3, <2>4, <2>5, <2>6, <2>7, <2>8
<1> QED BY <1>1, <1>2 DEF Called

\* A CreateJob that is answered OK names a job.
LEMMA CalledCreate ==
  ASSUME StoresOK, NEW m, NEW r, m.rpc = "CreateJob", m.job \in JobIds, Called(m, r),
         r.code = "OK"
  PROVE  r.job \in JobIds
<1>1. r = CreateJobReply(m.spec, m.key, m.job)
  BY DEF Called, RpcError, ErrorReply, ReplyTo
<1>2. CASE ~ Indexed(m.key)
  BY <1>1, <1>2 DEF CreateJobReply
<1>3. CASE Indexed(m.key)
  <2>1. EntryOf(m.key).job \in JobIds
    BY <1>3, EntryOfType DEF StoresOK, JobTypeOK, DedupEntry
  <2> QED BY <1>1, <1>3, <2>1 DEF CreateJobReply, ErrorReply
<1> QED BY <1>2, <1>3

\* After a StoreResult that is answered OK the job has an envelope.
LEMMA CalledStore ==
  ASSUME StoresOK, NEW m, NEW r, GoodMessage(m, results), m.rpc = "StoreResult",
         Called(m, r), r.code = "OK"
  PROVE  results'[m.job] # NoEnvelope
<1>1. Serve(m) /\ r = StoreResultReply(m.job, m.to, m.spec \in BigSpecs)
  BY DEF Called, RpcError, ErrorReply, ReplyTo
<1>2. StoreResult(m.job, m.to, m.spec \in BigSpecs)
  BY <1>1 DEF Serve, ServeJob, ServeQueue, ReadRpcs
<1>3. m.job \in JobIds
  BY DEF GoodMessage, WriteRpcs
<1> QED BY <1>1, <1>2, <1>3, AnsweredStoreLeavesEnvelope DEF StoresOK, HasEnvelope

\* A step of call c keeps the invariant.
LEMMA GatewayStep ==
  ASSUME Inv, NEW c \in Calls, NEW m, NEW r, GoodMessage(m, results), Called(m, r),
         NEW call, GoodCall(call, results'), calls' = [calls EXCEPT ![c] = call],
         UNCHANGED <<live, handlers, workers, runs>>
  PROVE  Inv'
<1>1. StoresOK' /\ LateOK' /\ EnvelopesStay
  BY CalledKeeps
<1>2. CallsOK'
  <2>1. calls' \in [Calls -> CallRecord]
    BY DEF Inv, CallsOK, GoodCall
  <2>2. ASSUME NEW d \in Calls PROVE GoodCall(calls[d], results) => GoodCall(calls[d], results')
    BY <1>1 DEF GoodCall, EnvelopesStay
  <2> QED BY <2>1, <2>2 DEF Inv, CallsOK
<1> QED BY <1>1, <1>2, HandlersStay, WorkersStay DEF Inv
-----------------------------------------------------------------------------
(***************************************************************************)
(* Each action of the gateway keeps the invariant.                         *)
(***************************************************************************)
LEMMA SubmitJobKeeps ==
  ASSUME Inv, NEW c \in Calls, SubmitJob(c)
  PROVE  Inv'
<1>1. PICK spec \in Specs, key \in AnyKey :
        LET call == [calls[c] EXCEPT !.op = "submit", !.spec = spec, !.key = key]
        IN  GatewayCall(c, CreateRequest(c, spec, key), LAMBDA r : AfterCreate(call, r))
  BY DEF SubmitJob
<1> DEFINE m == CreateRequest(c, spec, key)
           call == [calls[c] EXCEPT !.op = "submit", !.spec = spec, !.key = key]
<1>2. PICK r : /\ Called(m, r)
               /\ calls' = [calls EXCEPT ![c] = AfterCreate(call, r)]
               /\ UNCHANGED <<live, handlers, workers, runs>>
  BY <1>1 DEF GatewayCall, Called
<1>3. c \in JobIds /\ GoodMessage(m, results) /\ m.rpc = "CreateJob" /\ m.job = c
  BY CreateIsGood DEF Calls, CreateRequest, Message
<1>4. call \in CallRecord
  BY DEF Inv, CallsOK, CallRecord, AnySpec
<1> HIDE DEF m, call
<1>5. HasStatus(r) /\ (r.code = "OK" => r.job \in JobIds)
  BY <1>2, <1>3, CalledStatus, CalledCreate DEF Inv
<1>6. GoodCall(AfterCreate(call, r), results')
  BY <1>4, <1>5, AfterCreateIsGood
<1> QED BY <1>2, <1>3, <1>6, GatewayStep

LEMMA SubmitEnqueueKeeps ==
  ASSUME Inv, NEW c \in Calls, SubmitEnqueue(c)
  PROVE  Inv'
<1> DEFINE m == Request("EnqueueJob", calls[c].job)
<1>1. PICK r : /\ Called(m, r)
               /\ calls' = [calls EXCEPT ![c] = AfterEnqueue(calls[c], r)]
               /\ UNCHANGED <<live, handlers, workers, runs>>
  BY DEF SubmitEnqueue, GatewayCall, Called
<1>2. calls[c] \in CallRecord /\ calls[c].job \in JobIds
  BY DEF SubmitEnqueue, Inv, CallsOK, GoodCall
<1>3. GoodMessage(m, results)
  BY <1>2, PlainIsGood
<1>4. GoodCall(AfterEnqueue(calls[c], r), results')
  BY <1>2, AfterEnqueueIsGood
<1> QED BY <1>1, <1>3, <1>4, GatewayStep

LEMMA SubmitCompensateKeeps ==
  ASSUME Inv, NEW c \in Calls, SubmitCompensate(c)
  PROVE  Inv'
<1> DEFINE m == DeleteRequest(calls[c].job, "QUEUED")
<1>1. PICK r : /\ Called(m, r)
               /\ calls' = [calls EXCEPT ![c] = Fail(calls[c], "UNAVAILABLE")]
               /\ UNCHANGED <<live, handlers, workers, runs>>
  BY DEF SubmitCompensate, GatewayCall, Called
<1>2. calls[c] \in CallRecord /\ calls[c].job \in JobIds
  BY DEF SubmitCompensate, Inv, CallsOK, GoodCall
<1>3. GoodMessage(m, results)
  BY <1>2, DeleteIsGood DEF AnyStatus, JobStatus
<1>4. GoodCall(Fail(calls[c], "UNAVAILABLE"), results')
  BY <1>2, FailIsGood DEF Codes
<1> QED BY <1>1, <1>3, <1>4, GatewayStep

\* A cancel and a read of a result start alike, by reading the record.
LEMMA CancelJobKeeps ==
  ASSUME Inv, NEW c \in Calls, CancelJob(c)
  PROVE  Inv'
<1>1. PICK j \in issued :
        LET call == [calls[c] EXCEPT !.op = "cancel", !.job = j]
        IN  GatewayCall(c, Request("GetJobRecord", j), LAMBDA r : AfterCancelRead(call, r))
  BY DEF CancelJob
<1> DEFINE m == Request("GetJobRecord", j)
           call == [calls[c] EXCEPT !.op = "cancel", !.job = j]
<1>2. PICK r : /\ Called(m, r)
               /\ calls' = [calls EXCEPT ![c] = AfterCancelRead(call, r)]
               /\ UNCHANGED <<live, handlers, workers, runs>>
  BY <1>1 DEF GatewayCall, Called
<1>3. j \in JobIds
  BY DEF Inv, StoresOK, JobTypeOK
<1>4. GoodMessage(m, results) /\ m.rpc = "GetJobRecord" /\ m.job = j
  BY <1>3, PlainIsGood DEF Request, Message
<1>5. call \in CallRecord /\ call.job = j
  BY <1>3 DEF Inv, CallsOK, CallRecord, AnyJob
<1> HIDE DEF m, call
<1>6. HasStatus(r)
  BY <1>2, <1>3, <1>4, CalledStatus DEF Inv
<1>7. GoodCall(AfterCancelRead(call, r), results')
  BY <1>3, <1>5, <1>6, AfterCancelReadIsGood
<1> QED BY <1>2, <1>4, <1>7, GatewayStep

LEMMA GetJobResultKeeps ==
  ASSUME Inv, NEW c \in Calls, GetJobResult(c)
  PROVE  Inv'
<1>1. PICK j \in issued :
        LET call == [calls[c] EXCEPT !.op = "read", !.job = j]
        IN  GatewayCall(c, Request("GetJobRecord", j), LAMBDA r : AfterResultRead(call, r))
  BY DEF GetJobResult
<1> DEFINE m == Request("GetJobRecord", j)
           call == [calls[c] EXCEPT !.op = "read", !.job = j]
<1>2. PICK r : /\ Called(m, r)
               /\ calls' = [calls EXCEPT ![c] = AfterResultRead(call, r)]
               /\ UNCHANGED <<live, handlers, workers, runs>>
  BY <1>1 DEF GatewayCall, Called
<1>3. j \in JobIds
  BY DEF Inv, StoresOK, JobTypeOK
<1>4. GoodMessage(m, results) /\ m.rpc = "GetJobRecord" /\ m.job = j
  BY <1>3, PlainIsGood DEF Request, Message
<1>5. call \in CallRecord /\ call.job = j
  BY <1>3 DEF Inv, CallsOK, CallRecord, AnyJob
<1> HIDE DEF m, call
<1>6. HasStatus(r)
  BY <1>2, <1>3, <1>4, CalledStatus DEF Inv
<1>7. GoodCall(AfterResultRead(call, r), results')
  BY <1>3, <1>5, <1>6, AfterResultReadIsGood
<1> QED BY <1>2, <1>4, <1>7, GatewayStep

LEMMA CancelRemoveKeeps ==
  ASSUME Inv, NEW c \in Calls, CancelRemove(c)
  PROVE  Inv'
<1> DEFINE m == Request("RemoveJobIfPresent", calls[c].job)
<1>1. PICK r : /\ Called(m, r)
               /\ calls' = [calls EXCEPT ![c] = AfterRemove(calls[c], r)]
               /\ UNCHANGED <<live, handlers, workers, runs>>
  BY DEF CancelRemove, GatewayCall, Called
<1>2. calls[c] \in CallRecord /\ calls[c].job \in JobIds
  BY DEF CancelRemove, Inv, CallsOK, GoodCall
<1>3. GoodMessage(m, results)
  BY <1>2, PlainIsGood
<1>4. GoodCall(AfterRemove(calls[c], r), results')
  BY <1>2, AfterRemoveIsGood
<1> QED BY <1>1, <1>3, <1>4, GatewayStep

LEMMA CancelStoreKeeps ==
  ASSUME Inv, NEW c \in Calls, CancelStore(c)
  PROVE  Inv'
<1> DEFINE m == StoreRequest(calls[c].job, "CANCELED", NoSpec)
<1>1. PICK r : /\ Called(m, r)
               /\ calls' = [calls EXCEPT ![c] = AfterCancelStore(calls[c], r)]
               /\ UNCHANGED <<live, handlers, workers, runs>>
  BY DEF CancelStore, GatewayCall, Called
<1>2. calls[c] \in CallRecord /\ calls[c].job \in JobIds
  BY DEF CancelStore, Inv, CallsOK, GoodCall
<1>3. GoodMessage(m, results)
  BY <1>2, StoreIsGood DEF AnyStatus, JobStatus, TerminalStatuses, AnySpec
<1>4. m.rpc = "StoreResult" /\ m.job = calls[c].job
  BY DEF StoreRequest, Message
<1> HIDE DEF m
<1>5. r.code = "OK" => results'[calls[c].job] # NoEnvelope
  BY <1>1, <1>3, <1>4, CalledStore DEF Inv
<1>6. GoodCall(AfterCancelStore(calls[c], r), results')
  BY <1>2, <1>5, AfterCancelStoreIsGood
<1> QED BY <1>1, <1>3, <1>6, GatewayStep

LEMMA CancelTransitionKeeps ==
  ASSUME Inv, NEW c \in Calls, CancelTransition(c)
  PROVE  Inv'
<1> DEFINE m == TransitionRequest(calls[c].job, "QUEUED", "CANCELED")
<1>1. PICK r : /\ Called(m, r)
               /\ calls' = [calls EXCEPT ![c] = AfterCancelTransition(calls[c], r)]
               /\ UNCHANGED <<live, handlers, workers, runs>>
  BY DEF CancelTransition, GatewayCall, Called
<1>2. /\ calls[c] \in CallRecord /\ calls[c].job \in JobIds
      /\ results[calls[c].job] # NoEnvelope
  BY DEF CancelTransition, Inv, CallsOK, GoodCall
<1>3. GoodMessage(m, results)
  BY <1>2, TransitionIsGood DEF AnyStatus, JobStatus, TerminalStatuses
<1>4. m.rpc = "TransitionJobStatus" /\ m.job = calls[c].job
  BY DEF TransitionRequest, Message
<1> HIDE DEF m
<1>5. HasStatus(r)
  BY <1>1, <1>2, <1>3, <1>4, CalledStatus DEF Inv
<1>6. GoodCall(AfterCancelTransition(calls[c], r), results')
  BY <1>2, <1>5, AfterCancelTransitionIsGood
<1> QED BY <1>1, <1>3, <1>6, GatewayStep

LEMMA CancelFlagKeeps ==
  ASSUME Inv, NEW c \in Calls, CancelFlag(c)
  PROVE  Inv'
<1> DEFINE m == Request("SetCancelRequested", calls[c].job)
<1>1. PICK r : /\ Called(m, r)
               /\ calls' = [calls EXCEPT ![c] = AfterFlag(calls[c], r)]
               /\ UNCHANGED <<live, handlers, workers, runs>>
  BY DEF CancelFlag, GatewayCall, Called
<1>2. calls[c] \in CallRecord /\ calls[c].job \in JobIds
  BY DEF CancelFlag, Inv, CallsOK, GoodCall
<1>3. GoodMessage(m, results) /\ m.rpc = "SetCancelRequested" /\ m.job = calls[c].job
  BY <1>2, PlainIsGood DEF Request, Message
<1> HIDE DEF m
<1>4. GoodCall(AfterFlag(calls[c], r), results')
  BY <1>1, <1>2, <1>3, CalledStatus, AfterFlagIsGood DEF Inv
<1> QED BY <1>1, <1>3, <1>4, GatewayStep

LEMMA ReadEnvelopeKeeps ==
  ASSUME Inv, NEW c \in Calls, ReadEnvelope(c)
  PROVE  Inv'
<1> DEFINE m == Request("GetResult", calls[c].job)
<1>1. PICK r : /\ Called(m, r)
               /\ calls' = [calls EXCEPT ![c] = AfterGetResult(calls[c], r)]
               /\ UNCHANGED <<live, handlers, workers, runs>>
  BY DEF ReadEnvelope, GatewayCall, Called
<1>2. calls[c] \in CallRecord /\ calls[c].job \in JobIds
  BY DEF ReadEnvelope, Inv, CallsOK, GoodCall
<1>3. GoodMessage(m, results) /\ m.rpc = "GetResult" /\ m.job = calls[c].job
  BY <1>2, PlainIsGood DEF Request, Message
<1> HIDE DEF m
<1>4. GoodCall(AfterGetResult(calls[c], r), results')
  BY <1>1, <1>2, <1>3, CalledStatus, AfterGetResultIsGood DEF Inv
<1> QED BY <1>1, <1>3, <1>4, GatewayStep
-----------------------------------------------------------------------------
(***************************************************************************)
(* The coordinator: where a reply takes a handler, and its actions.        *)
(***************************************************************************)
LEMMA AnswerIsGood ==
  ASSUME NEW env, NEW handler \in HandlerRecord, NEW ok \in BOOLEAN,
         ok => handler.job \in JobIds
  PROVE  GoodHandler(Answer(handler, ok), env)
BY DEF Answer, GoodHandler, HandlerRecord

LEMMA HandlerMovedIsGood ==
  ASSUME NEW env, NEW handler \in HandlerRecord, handler.job \in JobIds,
         NEW pc \in FetchPcs \cup ReportPcs,
         pc = "finish" => env[handler.job] # NoEnvelope
  PROVE  GoodHandler([handler EXCEPT !.pc = pc], env)
<1>1. [handler EXCEPT !.pc = pc] \in HandlerRecord
  BY DEF HandlerRecord
<1>2. [handler EXCEPT !.pc = pc].job = handler.job /\ [handler EXCEPT !.pc = pc].pc = pc
  BY DEF HandlerRecord
<1> QED BY <1>1, <1>2 DEF GoodHandler, FetchPcs, ReportPcs

\* A step of handler h keeps the invariant.
LEMMA CoordinatorStep ==
  ASSUME Inv, NEW h \in Handlers, NEW m, NEW r, GoodMessage(m, results), Called(m, r),
         NEW handler, GoodHandler(handler, results'),
         handlers' = [handlers EXCEPT ![h] = handler],
         UNCHANGED <<live, workers, calls, runs>>
  PROVE  Inv'
<1>1. StoresOK' /\ LateOK' /\ EnvelopesStay
  BY CalledKeeps
<1>2. HandlersOK'
  <2>1. handlers' \in [Handlers -> HandlerRecord]
    BY DEF Inv, HandlersOK, GoodHandler
  <2>2. ASSUME NEW g \in Handlers
        PROVE  GoodHandler(handlers[g], results) => GoodHandler(handlers[g], results')
    BY <1>1 DEF GoodHandler, EnvelopesStay
  <2> QED BY <2>1, <2>2 DEF Inv, HandlersOK
<1> QED BY <1>1, <1>2, CallsStay, WorkersStay DEF Inv

LEMMA FetchDequeueKeeps ==
  ASSUME Inv, NEW h \in Handlers, FetchDequeue(h)
  PROVE  Inv'
<1> DEFINE m == Request("DequeueJob", NoJob)
<1>1. PICK r : /\ Called(m, r)
               /\ handlers' = [handlers EXCEPT ![h] = AfterDequeue(handlers[h], r)]
               /\ UNCHANGED <<live, workers, calls, runs>>
  BY DEF FetchDequeue, HandlerCall, Called
<1>2. GoodMessage(m, results) /\ m.rpc = "DequeueJob"
  BY DequeueIsGood DEF Request, Message
<1>3. handlers[h] \in HandlerRecord
  BY DEF Inv, HandlersOK
<1> HIDE DEF m
<1>4. GoodHandler(AfterDequeue(handlers[h], r), results')
  <2>1. CASE r.code = "OK" /\ r.found
    <3>1. r = DequeueJobReply
      BY <1>1, <1>2, <2>1 DEF Called, RpcError, ErrorReply, ReplyTo
    <3>2. queue # <<>> /\ r.job = Head(queue)
      BY <2>1, <3>1 DEF DequeueJobReply
    <3>3. r.job \in JobIds
      BY <3>2, HeadTailProperties DEF Inv, StoresOK, QueueInv, QueueTypeOK
    <3> DEFINE next == [handlers[h] EXCEPT !.pc = "claim", !.job = r.job]
    <3>4. next \in HandlerRecord /\ next.pc = "claim" /\ next.job = r.job
      BY <1>3, <3>3 DEF HandlerRecord, FetchPcs, AnyJob
    <3>5. AfterDequeue(handlers[h], r) = next
      BY <2>1 DEF AfterDequeue
    <3> QED BY <3>3, <3>4, <3>5 DEF GoodHandler
  <2>2. CASE ~ (r.code = "OK" /\ r.found)
    BY <1>3, <2>2, AnswerIsGood DEF AfterDequeue
  <2> QED BY <2>1, <2>2
<1> QED BY <1>1, <1>2, <1>4, CoordinatorStep

LEMMA FetchClaimKeeps ==
  ASSUME Inv, NEW h \in Handlers, FetchClaim(h)
  PROVE  Inv'
<1> DEFINE m == TransitionRequest(handlers[h].job, "QUEUED", "RUNNING")
<1>1. PICK r : /\ Called(m, r)
               /\ handlers' = [handlers EXCEPT ![h] = AfterClaim(handlers[h], r)]
               /\ UNCHANGED <<live, workers, calls, runs>>
  BY DEF FetchClaim, HandlerCall, Called
<1>2. handlers[h] \in HandlerRecord /\ handlers[h].job \in JobIds
  BY DEF FetchClaim, Inv, HandlersOK, GoodHandler
<1>3. GoodMessage(m, results)
  BY <1>2, TransitionIsGood DEF AnyStatus, JobStatus, TerminalStatuses
<1>4. GoodHandler(AfterClaim(handlers[h], r), results')
  <2>1. CASE r.code # "OK"
    BY <1>2, <2>1, AnswerIsGood DEF AfterClaim
  <2>2. CASE r.code = "OK"
    BY <1>2, <2>2, HandlerMovedIsGood DEF AfterClaim, FetchPcs
  <2> QED BY <2>1, <2>2
<1> QED BY <1>1, <1>3, <1>4, CoordinatorStep

LEMMA FetchRescueKeeps ==
  ASSUME Inv, NEW h \in Handlers, FetchRescue(h)
  PROVE  Inv'
<1>1. handlers[h] \in HandlerRecord /\ handlers[h].job \in JobIds
  BY DEF FetchRescue, Inv, HandlersOK, GoodHandler
<1>2. CASE handlers[h].pc = "recheck"
  <2> DEFINE m == Request("GetJobRecord", handlers[h].job)
  <2>1. PICK r : /\ Called(m, r)
                 /\ handlers' = [handlers EXCEPT ![h] = AfterRecheck(handlers[h], r)]
                 /\ UNCHANGED <<live, workers, calls, runs>>
    BY <1>2 DEF FetchRescue, HandlerCall, Called
  <2>2. GoodMessage(m, results)
    BY <1>1, PlainIsGood
  <2>3. GoodHandler(AfterRecheck(handlers[h], r), results')
    <3>1. CASE r.code = "OK" /\ r.status = "QUEUED"
      BY <1>1, <3>1, HandlerMovedIsGood DEF AfterRecheck, FetchPcs
    <3>2. CASE ~ (r.code = "OK" /\ r.status = "QUEUED")
      BY <1>1, <3>2, AnswerIsGood DEF AfterRecheck
    <3> QED BY <3>1, <3>2
  <2> QED BY <2>1, <2>2, <2>3, CoordinatorStep
<1>3. CASE handlers[h].pc = "rescue"
  <2> DEFINE m == Request("EnqueueJob", handlers[h].job)
  <2>1. PICK r : /\ Called(m, r)
                 /\ handlers' = [handlers EXCEPT ![h] = Answer(handlers[h], FALSE)]
                 /\ UNCHANGED <<live, workers, calls, runs>>
    BY <1>3 DEF FetchRescue, HandlerCall, Called
  <2>2. GoodMessage(m, results)
    BY <1>1, PlainIsGood
  <2>3. GoodHandler(Answer(handlers[h], FALSE), results')
    BY <1>1, AnswerIsGood
  <2> QED BY <2>1, <2>2, <2>3, CoordinatorStep
<1> QED BY <1>2, <1>3 DEF FetchRescue

LEMMA FetchReadKeeps ==
  ASSUME Inv, NEW h \in Handlers, FetchRead(h)
  PROVE  Inv'
<1> DEFINE m == Request("GetJobRecord", handlers[h].job)
<1>1. PICK r : /\ Called(m, r)
               /\ handlers' = [handlers EXCEPT ![h] = AfterRead(handlers[h], r)]
               /\ UNCHANGED <<live, workers, calls, runs>>
  BY DEF FetchRead, HandlerCall, Called
<1>2. handlers[h] \in HandlerRecord /\ handlers[h].job \in JobIds
  BY DEF FetchRead, Inv, HandlersOK, GoodHandler
<1>3. GoodMessage(m, results) /\ m.rpc = "GetJobRecord" /\ m.job = handlers[h].job
  BY <1>2, PlainIsGood DEF Request, Message
<1> HIDE DEF m
<1>4. GoodHandler(AfterRead(handlers[h], r), results')
  <2>1. CASE r.code = "OK"
    <3>1. r = GetJobRecordReply(handlers[h].job)
      BY <1>1, <1>3, <2>1 DEF Called, RpcError, ErrorReply, ReplyTo
    <3>2. Known(handlers[h].job) /\ r.spec = jobs[handlers[h].job].spec
      BY <2>1, <3>1 DEF GetJobRecordReply, ErrorReply
    <3>3. r.spec \in Specs
      BY <1>2, <3>2, KnownRecord DEF Inv, StoresOK, JobRecord
    <3> DEFINE next == [handlers[h] EXCEPT !.spec = r.spec]
    <3>4. next \in HandlerRecord /\ next.job = handlers[h].job
      BY <1>2, <3>3 DEF HandlerRecord, AnySpec
    <3> QED BY <1>2, <2>1, <3>4, AnswerIsGood DEF AfterRead
  <2>2. CASE r.code # "OK"
    BY <1>2, <2>2, AnswerIsGood DEF AfterRead
  <2> QED BY <2>1, <2>2
<1> QED BY <1>1, <1>3, <1>4, CoordinatorStep

LEMMA ReportStoreKeeps ==
  ASSUME Inv, NEW h \in Handlers, ReportStore(h)
  PROVE  Inv'
<1> DEFINE m == StoreRequest(handlers[h].job, Outcome(handlers[h].spec), handlers[h].spec)
<1>1. PICK r : /\ Called(m, r)
               /\ handlers' = [handlers EXCEPT ![h] = AfterStore(handlers[h], r)]
               /\ UNCHANGED <<live, workers, calls, runs>>
  BY DEF ReportStore, HandlerCall, Called
<1>2. handlers[h] \in HandlerRecord /\ handlers[h].job \in JobIds
  BY DEF ReportStore, Inv, HandlersOK, GoodHandler
<1>3. GoodMessage(m, results)
  BY <1>2, StoreIsGood DEF HandlerRecord, Outcome, AnyStatus, JobStatus, TerminalStatuses
<1>4. m.rpc = "StoreResult" /\ m.job = handlers[h].job
  BY DEF StoreRequest, Message
<1> HIDE DEF m
<1>5. GoodHandler(AfterStore(handlers[h], r), results')
  <2>1. CASE r.code = "OK"
    <3>1. results'[handlers[h].job] # NoEnvelope
      BY <1>1, <1>3, <1>4, <2>1, CalledStore DEF Inv
    <3> QED BY <1>2, <2>1, <3>1, HandlerMovedIsGood DEF AfterStore, ReportPcs
  <2>2. CASE r.code # "OK"
    BY <1>2, <2>2, AnswerIsGood DEF AfterStore
  <2> QED BY <2>1, <2>2
<1> QED BY <1>1, <1>3, <1>5, CoordinatorStep

LEMMA ReportFinishKeeps ==
  ASSUME Inv, NEW h \in Handlers, ReportFinish(h)
  PROVE  Inv'
<1> DEFINE m == TransitionRequest(handlers[h].job, "RUNNING", Outcome(handlers[h].spec))
<1>1. PICK r : /\ Called(m, r)
               /\ handlers' = [handlers EXCEPT ![h] = AfterFinish(handlers[h], r)]
               /\ UNCHANGED <<live, workers, calls, runs>>
  BY DEF ReportFinish, HandlerCall, Called
<1>2. /\ handlers[h] \in HandlerRecord /\ handlers[h].job \in JobIds
      /\ results[handlers[h].job] # NoEnvelope
  BY DEF ReportFinish, Inv, HandlersOK, GoodHandler
<1>3. GoodMessage(m, results)
  BY <1>2, TransitionIsGood DEF Outcome, AnyStatus, JobStatus, TerminalStatuses
<1>4. GoodHandler(AfterFinish(handlers[h], r), results')
  <2> DEFINE ok == r.code = "OK" /\ (r.applied \/ r.status \in TerminalStatuses)
  <2>1. ok \in BOOLEAN
    OBVIOUS
  <2>2. AfterFinish(handlers[h], r) = Answer(handlers[h], ok)
    BY Zenon DEF AfterFinish
  <2> HIDE DEF ok
  <2> QED BY <1>2, <2>1, <2>2, AnswerIsGood
<1> QED BY <1>1, <1>3, <1>4, CoordinatorStep
-----------------------------------------------------------------------------
(***************************************************************************)
(* The workers, the failures and the requests that are executed late.      *)
(***************************************************************************)
LEMMA ExecuteLateKeeps ==
  ASSUME Inv, NEW f \in Faults, ExecuteLate(f)
  PROVE  Inv'
<1>1. GoodMessage(late[f], results)
  BY DEF Inv, LateOK
<1>2. StoresOK' /\ EnvelopesStay
  BY <1>1, ServeKeeps DEF Inv, ExecuteLate
<1>3. LateOK'
  <2>1. late' = [late EXCEPT ![f] = Spent]
    BY DEF ExecuteLate
  <2>2. Spent \in Messages /\ GoodMessage(Spent, results')
    BY SpentIsGood DEF GoodMessage
  <2>3. ASSUME NEW g \in Faults PROVE GoodMessage(late[g], results')
    BY <1>2 DEF Inv, LateOK, GoodMessage, WriteRpcs, EnvelopesStay
  <2> QED BY <2>1, <2>2, <2>3 DEF Inv, LateOK
<1> QED BY <1>2, <1>3, CallsStay, HandlersStay, WorkersStay DEF Inv, ExecuteLate

\* What a step of a worker leaves alone.
LEMMA WorkerStepKeeps ==
  ASSUME Inv, WorkerUnchanged, LateOK', HandlersOK', WorkersOK'
  PROVE  Inv'
<1>1. StoresOK' /\ EnvelopesStay
  BY StoresStay DEF Inv, WorkerUnchanged, stores
<1> QED BY <1>1, CallsStay DEF Inv, WorkerUnchanged

LEMMA NoEnvelopeIsLost ==
  ASSUME WorkerUnchanged
  PROVE  EnvelopesStay
BY DEF WorkerUnchanged, EnvelopesStay

LEMMA HeartbeatKeeps ==
  ASSUME Inv, NEW w \in Workers, Heartbeat(w)
  PROVE  Inv'
<1>1. EnvelopesStay
  BY NoEnvelopeIsLost DEF Heartbeat
<1>2. WorkersOK'
  BY DEF Heartbeat, Inv, WorkersOK
<1> QED BY <1>1, <1>2, LateStays, HandlersStay, WorkerStepKeeps DEF Heartbeat, Inv

\* A call of worker w that starts on handler h, where the records the two get
\* are good.
LEMMA OpenKeeps ==
  ASSUME Inv, NEW w \in Workers, NEW h \in Handlers,
         NEW worker \in WorkerRecord, NEW handler \in HandlerRecord,
         worker.pc \in {"fetching", "waiting"}, worker.pc = "waiting" => worker.job \in JobIds,
         handler.pc \in {"dequeue", "store"}, handler.pc = "store" => handler.job \in JobIds,
         Open(w, h, worker, handler)
  PROVE  Inv'
<1>1. EnvelopesStay
  BY NoEnvelopeIsLost DEF Open
<1>2. HandlersOK'
  <2> DEFINE next == [handler EXCEPT !.worker = w]
  <2>1. next \in HandlerRecord /\ next.pc = handler.pc /\ next.job = handler.job
    BY DEF HandlerRecord
  <2>2. GoodHandler(next, results')
    BY <2>1 DEF GoodHandler
  <2>3. handlers' = [handlers EXCEPT ![h] = next] /\ results' = results
    BY DEF Open, WorkerUnchanged
  <2> HIDE DEF next
  <2> QED BY <2>1, <2>2, <2>3 DEF Inv, HandlersOK
<1>3. WorkersOK'
  <2> DEFINE next == [worker EXCEPT !.via = h]
  <2>1. next \in WorkerRecord /\ next.pc = worker.pc /\ next.job = worker.job
    BY DEF WorkerRecord
  <2>2. GoodWorker(next)
    BY <2>1 DEF GoodWorker
  <2>3. workers' = [workers EXCEPT ![w] = next] /\ live' = live /\ runs' = runs
    BY DEF Open
  <2> HIDE DEF next
  <2> QED BY <2>1, <2>2, <2>3 DEF Inv, WorkersOK
<1> QED BY <1>1, <1>2, <1>3, LateStays, WorkerStepKeeps DEF Open, Inv

LEMMA IdleWorkerIsGood ==
  /\ IdleWorker \in WorkerRecord /\ GoodWorker(IdleWorker)
  /\ StoppedWorker \in WorkerRecord /\ GoodWorker(StoppedWorker)
<1>1. IdleWorker \in WorkerRecord
  BY AttemptsAssumption DEF IdleWorker, WorkerRecord, AnyJob, AnySpec
<1>2. StoppedWorker \in WorkerRecord /\ StoppedWorker.pc = "stopped"
      /\ StoppedWorker.via = NoHandler
  BY <1>1 DEF StoppedWorker, WorkerRecord, IdleWorker
<1>3. IdleWorker.via = NoHandler /\ IdleWorker.pc = "idle"
  BY DEF IdleWorker
<1> QED BY <1>1, <1>2, <1>3 DEF GoodWorker

LEMMA FetchWorkKeeps ==
  ASSUME Inv, NEW w \in Workers, NEW h \in Handlers, FetchWork(w, h)
  PROVE  Inv'
<1> DEFINE worker == [IdleWorker EXCEPT !.pc = "fetching"]
           handler == [IdleHandler EXCEPT !.pc = "dequeue"]
<1>1. worker \in WorkerRecord /\ worker.pc = "fetching"
  BY IdleWorkerIsGood DEF WorkerRecord
<1>2. handler \in HandlerRecord /\ handler.pc = "dequeue"
  <2>1. IdleHandler \in HandlerRecord
    BY DEF IdleHandler, HandlerRecord, AnyJob, AnySpec
  <2> QED BY <2>1 DEF HandlerRecord, FetchPcs
<1>3. Open(w, h, worker, handler)
  BY DEF FetchWork
<1> HIDE DEF worker, handler
<1> QED BY <1>1, <1>2, <1>3, OpenKeeps

LEMMA ReportWorkOutcomeKeeps ==
  ASSUME Inv, NEW w \in Workers, NEW h \in Handlers, ReportWorkOutcome(w, h)
  PROVE  Inv'
<1> DEFINE worker == [workers[w] EXCEPT !.pc = "waiting"]
           handler == [IdleHandler EXCEPT !.pc = "store", !.job = workers[w].job,
                                          !.spec = workers[w].spec]
<1>1. workers[w] \in WorkerRecord /\ workers[w].job \in JobIds
  BY DEF ReportWorkOutcome, Inv, WorkersOK, GoodWorker
<1>2. worker \in WorkerRecord /\ worker.pc = "waiting" /\ worker.job \in JobIds
  BY <1>1 DEF WorkerRecord
<1>3. handler \in HandlerRecord /\ handler.pc = "store" /\ handler.job \in JobIds
  <2>1. IdleHandler \in HandlerRecord
    BY DEF IdleHandler, HandlerRecord, AnyJob, AnySpec
  <2> QED BY <1>1, <2>1 DEF HandlerRecord, WorkerRecord, ReportPcs, AnyJob
<1>4. Open(w, h, worker, handler)
  BY DEF ReportWorkOutcome
<1> HIDE DEF worker, handler
<1> QED BY <1>2, <1>3, <1>4, OpenKeeps

LEMMA ExecuteKeeps ==
  ASSUME Inv, NEW w \in Workers, Execute(w)
  PROVE  Inv'
<1>1. EnvelopesStay
  BY NoEnvelopeIsLost DEF Execute
<1>2. /\ workers[w] \in WorkerRecord /\ workers[w].job \in JobIds
      /\ workers[w].via = NoHandler
  BY DEF Execute, Inv, WorkersOK, GoodWorker
<1> DEFINE next == [workers[w] EXCEPT !.pc = "reporting", !.attempt = 1]
<1>3. workers' = [workers EXCEPT ![w] = next] /\ live' = live
  BY <1>2 DEF Execute, Inv, WorkersOK
<1>4. /\ next \in WorkerRecord /\ next.job = workers[w].job
      /\ next.pc = "reporting" /\ next.via = NoHandler
  <2>1. 1 \in 0..MaxAttempts
    BY AttemptsAssumption
  <2> QED BY <1>2, <2>1 DEF WorkerRecord
<1>5. GoodWorker(next)
  BY <1>2, <1>4 DEF GoodWorker
<1>6. runs' \in [JobIds -> Nat]
  BY <1>2 DEF Execute, Inv, WorkersOK
<1> HIDE DEF next
<1>7. WorkersOK'
  BY <1>3, <1>4, <1>5, <1>6 DEF Inv, WorkersOK
<1> QED BY <1>1, <1>7, LateStays, HandlersStay, WorkerStepKeeps DEF Execute, Inv

\* A report that is tried again, or dropped, leaves a good worker.
LEMMA RetryReportIsGood ==
  ASSUME NEW worker \in WorkerRecord, worker.job \in JobIds
  PROVE  GoodWorker(RetryReport(worker))
<1>1. CASE worker.attempt < MaxAttempts
  <2> DEFINE next == [worker EXCEPT !.pc = "reporting", !.via = NoHandler, !.attempt = @ + 1]
  <2>1. worker.attempt + 1 \in 0..MaxAttempts
    BY <1>1, AttemptsAssumption DEF WorkerRecord
  <2>2. /\ next \in WorkerRecord /\ next.pc = "reporting"
        /\ next.job = worker.job /\ next.via = NoHandler
    BY <2>1 DEF WorkerRecord
  <2>3. RetryReport(worker) = next
    BY <1>1 DEF RetryReport
  <2> QED BY <2>2, <2>3 DEF GoodWorker
<1>2. CASE ~ (worker.attempt < MaxAttempts)
  BY <1>2, IdleWorkerIsGood DEF RetryReport
<1> QED BY <1>1, <1>2

LEMMA AnsweredIsGood ==
  ASSUME NEW env, NEW worker, GoodWorker(worker), worker.via # NoHandler,
         NEW handler, GoodHandler(handler, env), handler.pc = "answer"
  PROVE  GoodWorker(Answered(worker, handler))
<1>1. CASE worker.pc = "fetching" /\ handler.ok
  <2> DEFINE next == [IdleWorker EXCEPT !.pc = "executing", !.job = handler.job,
                                        !.spec = handler.spec]
  <2>1. handler \in HandlerRecord /\ handler.job \in JobIds
    BY <1>1 DEF GoodHandler
  <2>2. IdleWorker \in WorkerRecord /\ IdleWorker.via = NoHandler
    BY IdleWorkerIsGood DEF IdleWorker
  <2>3. /\ next \in WorkerRecord /\ next.pc = "executing"
        /\ next.job = handler.job /\ next.via = NoHandler
    BY <2>1, <2>2 DEF WorkerRecord, HandlerRecord, AnyJob
  <2>4. Answered(worker, handler) = next
    BY <1>1 DEF Answered
  <2> QED BY <2>1, <2>3, <2>4 DEF GoodWorker
<1>2. CASE worker.pc # "fetching" /\ ~ handler.ok
  <2>1. worker \in WorkerRecord /\ worker.job \in JobIds
    BY <1>2 DEF GoodWorker
  <2> QED BY <1>2, <2>1, RetryReportIsGood DEF Answered
<1>3. CASE worker.pc = "fetching" /\ ~ handler.ok
  BY <1>3, IdleWorkerIsGood DEF Answered
<1>4. CASE worker.pc # "fetching" /\ handler.ok
  BY <1>4, IdleWorkerIsGood DEF Answered
<1> QED BY <1>1, <1>2, <1>3, <1>4

LEMMA DeliverAnswerKeeps ==
  ASSUME Inv, NEW h \in Handlers, DeliverAnswer(h)
  PROVE  Inv'
<1>1. EnvelopesStay
  BY NoEnvelopeIsLost DEF DeliverAnswer
<1>2. HandlersOK'
  <2>1. IdleHandler \in HandlerRecord /\ GoodHandler(IdleHandler, results')
    BY DEF IdleHandler, HandlerRecord, GoodHandler, AnyJob, AnySpec
  <2>2. handlers' = [handlers EXCEPT ![h] = IdleHandler] /\ results' = results
    BY DEF DeliverAnswer, WorkerUnchanged
  <2> QED BY <2>1, <2>2 DEF Inv, HandlersOK
<1>3. WorkersOK'
  <2>1. ASSUME NEW w \in Workers PROVE GoodWorker(workers'[w])
    <3>1. GoodWorker(workers[w])
      BY DEF Inv, WorkersOK
    <3>2. CASE workers[w].via = h
      <4>1. workers[w].via # NoHandler
        BY <3>2, NullsAssumption
      <4>2. GoodHandler(handlers[h], results) /\ handlers[h].pc = "answer"
        BY DEF Inv, HandlersOK, DeliverAnswer
      <4>3. workers'[w] = Answered(workers[w], handlers[h])
        BY <3>2 DEF DeliverAnswer
      <4> QED BY <3>1, <4>1, <4>2, <4>3, AnsweredIsGood
    <3>3. CASE workers[w].via # h
      BY <3>1, <3>3 DEF DeliverAnswer
    <3> QED BY <3>2, <3>3
  <2>2. workers' \in [Workers -> WorkerRecord]
    BY <2>1 DEF DeliverAnswer, GoodWorker
  <2> QED BY <2>1, <2>2 DEF DeliverAnswer, Inv, WorkersOK
<1> QED BY <1>1, <1>2, <1>3, LateStays, WorkerStepKeeps DEF DeliverAnswer, Inv

\* A ticket that is used up keeps the requests that were lost.
LEMMA UseFaultKeeps ==
  ASSUME Inv, UseFault, UNCHANGED results
  PROVE  LateOK'
<1>1. PICK f \in Faults : late' = [late EXCEPT ![f] = Spent]
  BY DEF UseFault, Lose
<1>2. Spent \in Messages /\ GoodMessage(Spent, results)
  BY SpentIsGood DEF GoodMessage
<1> QED BY <1>1, <1>2 DEF Inv, LateOK

\* A failure of worker w that leaves it in a good state.
LEMMA WorkerFailureKeeps ==
  ASSUME Inv, NEW w \in Workers, NEW worker \in WorkerRecord, GoodWorker(worker),
         workers' = [workers EXCEPT ![w] = worker],
         UseFault, WorkerUnchanged, UNCHANGED <<live, handlers, runs>>
  PROVE  Inv'
<1>1. EnvelopesStay /\ UNCHANGED results
  BY NoEnvelopeIsLost DEF WorkerUnchanged
<1>2. WorkersOK'
  BY DEF Inv, WorkersOK
<1> QED BY <1>1, <1>2, UseFaultKeeps, HandlersStay, WorkerStepKeeps DEF Inv

LEMMA ExpireKeeps ==
  ASSUME Inv, NEW w \in Workers, Expire(w)
  PROVE  Inv'
<1>1. EnvelopesStay /\ UNCHANGED results
  BY NoEnvelopeIsLost DEF Expire, WorkerUnchanged
<1>2. WorkersOK'
  BY DEF Expire, Inv, WorkersOK
<1> QED BY <1>1, <1>2, UseFaultKeeps, HandlersStay, WorkerStepKeeps DEF Expire, Inv

LEMMA GiveUpKeeps ==
  ASSUME Inv, NEW w \in Workers, GiveUp(w)
  PROVE  Inv'
<1>1. workers[w] \in WorkerRecord /\ GoodWorker(workers[w])
  BY DEF Inv, WorkersOK
<1>2. CASE workers[w].pc = "fetching"
  <2>1. workers' = [workers EXCEPT ![w] = IdleWorker]
    BY <1>2 DEF GiveUp, Inv, WorkersOK
  <2> QED BY <2>1, IdleWorkerIsGood, WorkerFailureKeeps DEF GiveUp
<1>3. CASE workers[w].pc = "waiting"
  <2>1. workers' = [workers EXCEPT ![w] = RetryReport(workers[w])]
    BY <1>3 DEF GiveUp, Inv, WorkersOK
  <2>2. GoodWorker(RetryReport(workers[w]))
    BY <1>1, <1>3, RetryReportIsGood DEF GoodWorker
  <2>3. RetryReport(workers[w]) \in WorkerRecord
    BY <2>2 DEF GoodWorker
  <2> QED BY <2>1, <2>2, <2>3, WorkerFailureKeeps DEF GiveUp
<1> QED BY <1>2, <1>3 DEF GiveUp

LEMMA StopKeeps ==
  ASSUME Inv, NEW w \in Workers, Stop(w)
  PROVE  Inv'
BY IdleWorkerIsGood, WorkerFailureKeeps DEF Stop
-----------------------------------------------------------------------------
(***************************************************************************)
(* The theorems.                                                           *)
(***************************************************************************)
LEMMA InitEstablishes ==
  ASSUME Init
  PROVE  Inv
<1>1. StoresOK
  <2>1. JobTypeOK
    BY EmptySeq DEF Init, JobInit, JobTypeOK
  <2>2. QueueInv
    BY EmptySeq DEF Init, QueueInit, QueueInv, QueueTypeOK, NoDuplicates
  <2>3. ResultTypeOK
    BY DEF Init, ResultInit, ResultTypeOK
  <2>4. TerminalHasEnvelope
    BY DEF Init, JobInit, NoRecord, UNSPECIFIED, TerminalHasEnvelope, Terminal, Status,
           TerminalStatuses
  <2> QED BY <2>1, <2>2, <2>3, <2>4 DEF StoresOK
<1>2. LateOK
  BY SpentIsGood DEF Init, LateOK, GoodMessage
<1>3. CallsOK
  <2>1. IdleCall \in CallRecord /\ IdleCall.pc = "idle"
    BY DEF IdleCall, CallRecord, CallPcs, Codes, AnyJob, AnySpec, AnyKey, AnyStatus
  <2> QED BY <2>1 DEF Init, CallsOK, GoodCall
<1>4. HandlersOK
  <2>1. IdleHandler \in HandlerRecord /\ GoodHandler(IdleHandler, results)
    BY DEF IdleHandler, HandlerRecord, GoodHandler, AnyJob, AnySpec
  <2> QED BY <2>1 DEF Init, HandlersOK
<1>5. WorkersOK
  BY IdleWorkerIsGood DEF Init, WorkersOK
<1> QED BY <1>1, <1>2, <1>3, <1>4, <1>5 DEF Inv

LEMMA NextKeeps ==
  ASSUME Inv, [Next]_vars
  PROVE  Inv'
<1>1. ASSUME NEW c \in Calls, SubmitJob(c) \/ CancelJob(c) \/ GetJobResult(c)
      PROVE  Inv'
  BY <1>1, SubmitJobKeeps, CancelJobKeeps, GetJobResultKeeps
<1>2. ASSUME NEW c \in Calls, ContinueCall(c)
      PROVE  Inv'
  BY <1>2, SubmitEnqueueKeeps, SubmitCompensateKeeps, CancelRemoveKeeps, CancelStoreKeeps,
     CancelTransitionKeeps, CancelFlagKeeps, ReadEnvelopeKeeps DEF ContinueCall
<1>3. ASSUME NEW h \in Handlers, HandlerStep(h)
      PROVE  Inv'
  BY <1>3, FetchDequeueKeeps, FetchClaimKeeps, FetchRescueKeeps, FetchReadKeeps,
     ReportStoreKeeps, ReportFinishKeeps, DeliverAnswerKeeps DEF HandlerStep
<1>4. ASSUME NEW w \in Workers, WorkerStep(w)
      PROVE  Inv'
  BY <1>4, HeartbeatKeeps, ExecuteKeeps, FetchWorkKeeps, ReportWorkOutcomeKeeps
     DEF WorkerStep
<1>5. ASSUME NEW w \in Workers, Expire(w) \/ GiveUp(w) \/ Stop(w)
      PROVE  Inv'
  BY <1>5, ExpireKeeps, GiveUpKeeps, StopKeeps
<1>6. ASSUME NEW f \in Faults, ExecuteLate(f)
      PROVE  Inv'
  BY <1>6, ExecuteLateKeeps
<1>7. CASE UNCHANGED vars
  <2>1. StoresOK' /\ EnvelopesStay
    BY <1>7, StoresStay DEF vars, stores, Inv
  <2> QED BY <1>7, <2>1, LateStays, CallsStay, HandlersStay, WorkersStay DEF vars, Inv
<1> QED BY <1>1, <1>2, <1>3, <1>4, <1>5, <1>6, <1>7 DEF Next

LEMMA Invariant == Spec => []Inv
<1>1. Init => Inv
  BY InitEstablishes
<1>2. Inv /\ [Next]_vars => Inv'
  BY NextKeeps
<1> QED BY <1>1, <1>2, PTL DEF Spec

\* Every component keeps its state within its type: no reply, lost request or
\* late request takes a handler, a worker or a store outside of it.
THEOREM TypeCorrect == Spec => []TypeOK
<1>1. Inv => TypeOK
  BY DEF Inv, StoresOK, QueueInv, LateOK, CallsOK, HandlersOK, WorkersOK, TypeOK
<1> QED BY <1>1, Invariant, PTL

\* Whatever fails, a job whose record is terminal has an envelope.
THEOREM TerminalJobsHaveEnvelopes == Spec => []TerminalHasEnvelope
<1>1. Inv => TerminalHasEnvelope
  BY DEF Inv, StoresOK
<1> QED BY <1>1, Invariant, PTL

\* Whatever is retried or rolled back, no job is in the queue twice.
THEOREM QueueHasNoDuplicates == Spec => []NoDuplicates
<1>1. Inv => NoDuplicates
  BY DEF Inv, StoresOK, QueueInv
<1> QED BY <1>1, Invariant, PTL
=============================================================================
