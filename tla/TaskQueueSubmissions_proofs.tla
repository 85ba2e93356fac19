-------------------- MODULE TaskQueueSubmissions_proofs --------------------
(***************************************************************************)
(* What becomes of a submission, for any number of calls, workers,         *)
(* handlers, specs and failures: the job is not dropped between the Job    *)
(* and the Queue service, repeated submissions get one job, an accepted    *)
(* job keeps its record, and a job that ends has the envelope of its end.  *)
(***************************************************************************)
EXTENDS TaskQueueJobs_proofs, FiniteSetTheorems

(***************************************************************************)
(* What a service does with a request.                                     *)
(***************************************************************************)
QueueRpcs == {"EnqueueJob", "DequeueJob", "RemoveJobIfPresent"}

LEMMA ServedRpc ==
  ASSUME NEW m, Serve(m)
  PROVE  /\ m.rpc = "CreateJob" => CreateJob(m.spec, m.key, m.job) /\ UNCHANGED <<queue, results>>
         /\ m.rpc = "DeleteJobIfStatus" => DeleteJobIfStatus(m.job, m.from)
         /\ m.rpc = "TransitionJobStatus"
              => \E now \in Times : TransitionJobStatus(m.job, m.from, m.to, now)
         /\ m.rpc = "SetCancelRequested" => SetCancelRequested(m.job, TRUE)
         /\ m.rpc = "EnqueueJob" => EnqueueJob(m.job)
         /\ m.rpc = "DequeueJob" => DequeueJob
         /\ m.rpc = "RemoveJobIfPresent" => RemoveJobIfPresent(m.job)
         /\ m.rpc = "StoreResult" => StoreResult(m.job, m.to, m.spec \in BigSpecs)
         /\ m.rpc \in ReadRpcs => UNCHANGED stores
         /\ m.rpc \notin QueueRpcs => UNCHANGED queue
         /\ m.rpc # "StoreResult" => UNCHANGED results
         /\ m.rpc # "CreateJob" => UNCHANGED <<dedup, issued>>
         /\ m.rpc \in QueueRpcs \cup {"StoreResult"} => UNCHANGED jobs
<1>1. CASE ServeJob(m) /\ UNCHANGED <<queue, results>>
  BY <1>1 DEF ServeJob, ReadRpcs, QueueRpcs, DeleteJobIfStatus, TransitionJobStatus,
              SetCancelRequested
<1>2. CASE ServeQueue(m) /\ UNCHANGED <<jobs, dedup, issued, results>>
  BY <1>2 DEF ServeQueue, ReadRpcs, QueueRpcs
<1>3. CASE /\ m.rpc = "StoreResult"
           /\ StoreResult(m.job, m.to, m.spec \in BigSpecs)
           /\ UNCHANGED <<jobs, dedup, issued, queue>>
  BY <1>3, Zenon DEF ReadRpcs, QueueRpcs
<1>4. CASE m.rpc \in ReadRpcs /\ UNCHANGED stores
  BY <1>4 DEF ReadRpcs, QueueRpcs, stores
<1> QED BY <1>1, <1>2, <1>3, <1>4 DEF Serve

LEMMA EnqueueEffect ==
  ASSUME QueueTypeOK, NEW j \in JobIds, EnqueueJob(j)
  PROVE  Queued(j)' /\ \A k : Queued(k)' <=> Queued(k) \/ k = j
<1>1. CASE Queued(j)
  BY <1>1 DEF EnqueueJob, Queued
<1>2. CASE ~ Queued(j)
  <2>1. queue' = Append(queue, j)
    BY <1>2 DEF EnqueueJob
  <2>2. PICK len \in Nat : len = Len(queue)
    BY LenProperties DEF QueueTypeOK
  <2>3. /\ Len(queue') = len + 1
        /\ \A i \in 1..len : queue'[i] = queue[i]
        /\ queue'[len + 1] = j
    BY <2>1, <2>2, AppendProperties DEF QueueTypeOK
  <2>4. \A k : (\E i \in 1..(len + 1) : queue'[i] = k) <=> (\E i \in 1..len : queue[i] = k) \/ k = j
    BY <2>3
  <2> QED BY <2>2, <2>3, <2>4 DEF Queued, Contains
<1> QED BY <1>1, <1>2

LEMMA DequeueEffect ==
  ASSUME QueueInv, DequeueJob
  PROVE  /\ queue = <<>> => UNCHANGED queue
         /\ queue # <<>> => \A k : Queued(k)' <=> Queued(k) /\ k # Head(queue)
<1>1. CASE queue = <<>>
  BY <1>1 DEF DequeueJob
<1>2. CASE queue # <<>>
  <2>1. queue' = Tail(queue)
    BY <1>2 DEF DequeueJob
  <2>2. PICK len \in Nat : len = Len(queue) /\ len > 0
    BY <1>2, LenProperties, EmptySeq DEF QueueInv, QueueTypeOK
  <2>3. /\ Len(queue') = len - 1
        /\ \A i \in 1..(len - 1) : queue'[i] = queue[i + 1]
        /\ Head(queue) = queue[1]
    BY <1>2, <2>1, <2>2, HeadTailProperties DEF QueueInv, QueueTypeOK
  <2>4. \A i, n \in 1..len : queue[i] = queue[n] => i = n
    BY <2>2, LenProperties DEF QueueInv, QueueTypeOK, NoDuplicates
  <2>5. ASSUME NEW k
        PROVE  (\E i \in 1..(len - 1) : queue'[i] = k)
                 <=> (\E i \in 1..len : queue[i] = k) /\ k # queue[1]
    <3>1. ASSUME NEW i \in 1..(len - 1), queue'[i] = k
          PROVE  (\E n \in 1..len : queue[n] = k) /\ k # queue[1]
      <4>1. i + 1 \in 1..len /\ i + 1 # 1 /\ 1 \in 1..len
        BY <2>2
      <4> QED BY <2>3, <2>4, <3>1, <4>1
    <3>2. ASSUME NEW i \in 1..len, queue[i] = k, k # queue[1]
          PROVE  \E n \in 1..(len - 1) : queue'[n] = k
      <4>1. i - 1 \in 1..(len - 1) /\ (i - 1) + 1 = i
        BY <2>2, <3>2
      <4> QED BY <2>3, <3>2, <4>1
    <3> QED BY <3>1, <3>2
  <2> QED BY <1>2, <2>2, <2>3, <2>5 DEF Queued, Contains
<1> QED BY <1>1, <1>2

LEMMA RemoveEffect ==
  ASSUME QueueInv, NEW j, RemoveJobIfPresent(j)
  PROVE  \A k : Queued(k)' <=> Queued(k) /\ k # j
<1>1. CASE ~ Queued(j)
  BY <1>1 DEF RemoveJobIfPresent, Queued
<1>2. CASE Queued(j)
  <2>1. PICK len \in Nat : len = Len(queue)
    BY LenProperties DEF QueueInv, QueueTypeOK
  <2>2. DOMAIN queue = 1..len
    BY <2>1, LenProperties DEF QueueInv, QueueTypeOK
  <2>3. PICK n \in 1..len : queue[n] = j /\ queue' = RemoveAt(queue, n)
    BY <1>2, <2>2 DEF RemoveJobIfPresent
  <2>4. /\ Len(queue') = len - 1
        /\ \A i \in 1..(len - 1) : queue'[i] = IF i < n THEN queue[i] ELSE queue[i + 1]
    BY <2>1, <2>3, RemoveAtProperties DEF QueueInv, QueueTypeOK
  <2>5. \A i \in 1..len : queue[i] = j => i = n
    BY <2>2, <2>3 DEF QueueInv, NoDuplicates
  <2>6. ASSUME NEW k
        PROVE  (\E i \in 1..(len - 1) : queue'[i] = k)
                 <=> (\E i \in 1..len : queue[i] = k) /\ k # j
    <3>1. ASSUME NEW i \in 1..(len - 1), queue'[i] = k
          PROVE  (\E p \in 1..len : queue[p] = k) /\ k # j
      <4>1. i \in 1..len /\ i + 1 \in 1..len /\ (i < n => i # n) /\ (~ i < n => i + 1 # n)
        BY <2>1
      <4> QED BY <2>4, <2>5, <3>1, <4>1
    <3>2. ASSUME NEW i \in 1..len, queue[i] = k, k # j
          PROVE  \E p \in 1..(len - 1) : queue'[p] = k
      <4>1. i # n
        BY <2>3, <3>2
      <4>2. CASE i < n
        <5>1. i \in 1..(len - 1)
          BY <4>2
        <5> QED BY <2>4, <3>2, <4>2, <5>1
      <4>3. CASE i > n
        <5>1. i - 1 \in 1..(len - 1) /\ ~ (i - 1 < n) /\ (i - 1) + 1 = i
          BY <4>3
        <5> QED BY <2>4, <3>2, <5>1
      <4> QED BY <4>1, <4>2, <4>3
    <3> QED BY <3>1, <3>2
  <2> QED BY <1>2, <2>1, <2>4, <2>6 DEF Queued, Contains
<1> QED BY <1>1, <1>2
-----------------------------------------------------------------------------
(***************************************************************************)
(* No queued job is dropped while nothing has failed.                      *)
(***************************************************************************)
Fine == \A f \in Faults : Available(f)

\* The points at which a call has its job in hand.
HandPcs == {"enqueue", "compensate", "store", "transition"}

\* Nothing has failed after the step: then its request was served.
LEMMA FineIsServed ==
  ASSUME LifeInv, NEW m, NEW r, Called(m, r), m.rpc # "none", Fine'
  PROVE  Serve(m) /\ r = ReplyTo(m) /\ Fine
<1>1. ASSUME Lose(m) PROVE FALSE
  <2>1. PICK f \in Faults : late' = [late EXCEPT ![f] = m]
    BY <1>1 DEF Lose
  <2>2. late'[f].rpc = m.rpc
    BY <2>1 DEF LifeInv, Inv, LateOK
  <2> QED BY <2>2 DEF Fine, Available
<1> QED BY <1>1 DEF Called, Fine, Available

\* A step that issues no id makes no job QUEUED.
LEMMA QueuedBefore ==
  ASSUME LifecycleStep, DedupInv', UNCHANGED issued, NEW j \in JobIds, Status(j)' = "QUEUED"
  PROVE  Status(j) = "QUEUED"
<1>1. Known(j)'
  BY DEF Known, Status, UNSPECIFIED
<1>2. j \in issued
  BY <1>1 DEF DedupInv, JobInv
<1> QED BY <1>2, NeverQueuedAgain

\* A call's request is served: what is queued stays queued or gets in the
\* call's hands, and what the call had in hand it keeps, or it is queued, or
\* its job is no longer QUEUED.
LEMMA CallTracks ==
  ASSUME LifeInv, StepOK, NoQueuedJobIsDropped, NEW c \in Calls, NEW m, NEW r, NEW call,
         CallStep(c, m, r, call), Fine, UNCHANGED issued,
         \A j \in JobIds : Queued(j) => Queued(j)' \/ (call.job = j /\ call.pc \in HandPcs),
         \A j \in JobIds : calls[c].job = j /\ calls[c].pc \in HandPcs =>
           Status(j)' # "QUEUED" \/ Queued(j)' \/ (call.job = j /\ call.pc \in HandPcs)
  PROVE  NoQueuedJobIsDropped'
<1> SUFFICES ASSUME NEW j \in JobIds, Status(j)' = "QUEUED"
             PROVE  Queued(j)' \/ InHand(j)'
  BY DEF NoQueuedJobIsDropped, Status
<1>1. calls' = [calls EXCEPT ![c] = call] /\ UNCHANGED handlers /\ calls \in [Calls -> CallRecord]
  BY DEF CallStep, LifeInv, Inv, CallsOK
<1>2. Queued(j) \/ InHand(j)
  BY QueuedBefore DEF StepOK, NoQueuedJobIsDropped, Fine
<1>3. call.job = j /\ call.pc \in HandPcs => InHand(j)'
  BY <1>1 DEF InHand, HandPcs
<1>4. CASE Queued(j)
  BY <1>3, <1>4
<1>5. ASSUME NEW d \in Calls, calls[d].job = j, calls[d].pc \in HandPcs
      PROVE  Queued(j)' \/ InHand(j)'
  <2>1. CASE d = c
    BY <1>3, <1>5, <2>1
  <2>2. CASE d # c
    BY <1>1, <1>5, <2>2 DEF InHand, HandPcs
  <2> QED BY <2>1, <2>2
<1>6. ASSUME NEW h \in Handlers, handlers[h].job = j, handlers[h].pc = "claim"
      PROVE  InHand(j)'
  BY <1>1, <1>6 DEF InHand
<1> QED BY <1>2, <1>4, <1>5, <1>6 DEF InHand, HandPcs

\* The like for a handler, which has in hand the job that it claims.
LEMMA HandlerTracks ==
  ASSUME LifeInv, StepOK, NoQueuedJobIsDropped, NEW h \in Handlers, NEW m, NEW r, NEW handler,
         HandlerRpc(h, m, r, handler), Fine, UNCHANGED issued,
         \A j \in JobIds : Queued(j) => Queued(j)' \/ (handler.job = j /\ handler.pc = "claim"),
         \A j \in JobIds : handlers[h].job = j /\ handlers[h].pc = "claim" => Status(j)' # "QUEUED"
  PROVE  NoQueuedJobIsDropped'
<1> SUFFICES ASSUME NEW j \in JobIds, Status(j)' = "QUEUED"
             PROVE  Queued(j)' \/ InHand(j)'
  BY DEF NoQueuedJobIsDropped, Status
<1>1. /\ handlers' = [handlers EXCEPT ![h] = handler] /\ UNCHANGED calls
      /\ handlers \in [Handlers -> HandlerRecord]
  BY DEF HandlerRpc, LifeInv, Inv, HandlersOK
<1>2. Queued(j) \/ InHand(j)
  BY QueuedBefore DEF StepOK, NoQueuedJobIsDropped, Fine
<1>3. handler.job = j /\ handler.pc = "claim" => InHand(j)'
  BY <1>1 DEF InHand
<1>4. CASE Queued(j)
  BY <1>3, <1>4
<1>5. ASSUME NEW g \in Handlers, handlers[g].job = j, handlers[g].pc = "claim"
      PROVE  InHand(j)'
  <2>1. g # h
    BY <1>5
  <2> QED BY <1>1, <1>5, <2>1 DEF InHand
<1>6. ASSUME NEW d \in Calls, calls[d].job = j, calls[d].pc \in HandPcs
      PROVE  InHand(j)'
  BY <1>1, <1>6 DEF InHand, HandPcs
<1> QED BY <1>2, <1>4, <1>5, <1>6 DEF InHand, HandPcs

\* A transition out of QUEUED that is served leaves no QUEUED job.
LEMMA TransitionLeavesQueued ==
  ASSUME LifeInv, NEW j \in JobIds, NEW to \in {"RUNNING", "CANCELED"},
         Serve(TransitionRequest(j, "QUEUED", to))
  PROVE  jobs'[j].status # "QUEUED"
<1> DEFINE m == TransitionRequest(j, "QUEUED", to)
<1>1. m.rpc = "TransitionJobStatus" /\ m.job = j /\ m.from = "QUEUED" /\ m.to = to
  BY DEF TransitionRequest, Message
<1> HIDE DEF m
<1>2. PICK now \in Times : TransitionJobStatus(j, "QUEUED", to, now)
  BY <1>1, ServedRpc DEF m
<1>3. <<"QUEUED", to>> \in AllowedTransitions
  BY DEF AllowedTransitions
<1>4. CASE jobs[j].status = "QUEUED"
  <2>1. Matches(j, "QUEUED", to) /\ jobs[j] \in JobRecord /\ to \in JobStatus
    BY <1>4, KnownRecord
       DEF Matches, UNSPECIFIED, Known, JobStatus, TerminalStatuses, LifeInv, Inv, StoresOK
  <2>2. jobs'[j] = Transitioned(jobs[j], to, now)
    BY <1>2, <1>3, <2>1 DEF TransitionJobStatus, LifeInv, Inv, StoresOK, JobTypeOK
  <2>3. Transitioned(jobs[j], to, now).status = to
    BY <2>1, TransitionedFields
  <2> QED BY <2>2, <2>3
<1>5. CASE jobs[j].status # "QUEUED"
  BY <1>2, <1>5 DEF TransitionJobStatus, Matches
<1> QED BY <1>4, <1>5

LEMMA DeleteLeavesQueued ==
  ASSUME LifeInv, NEW j \in JobIds, Serve(DeleteRequest(j, "QUEUED"))
  PROVE  jobs'[j].status # "QUEUED"
<1>1. DeleteJobIfStatus(j, "QUEUED")
  <2> DEFINE m == DeleteRequest(j, "QUEUED")
  <2>1. m.rpc = "DeleteJobIfStatus" /\ m.job = j /\ m.from = "QUEUED"
    BY DEF DeleteRequest, Message
  <2> HIDE DEF m
  <2> QED BY <2>1, ServedRpc DEF m
<1>2. Known(j) /\ jobs[j].status = "QUEUED" => jobs'[j] = NoRecord
  BY <1>1 DEF DeleteJobIfStatus, LifeInv, Inv, StoresOK, JobTypeOK
<1> QED BY <1>1, <1>2 DEF DeleteJobIfStatus, NoRecord, UNSPECIFIED, Known
\* What a created job's call gets: the job, if it is QUEUED, is the call's to
\* enqueue.
LEMMA SubmitJobTracks ==
  ASSUME LifeInv, StepOK, NoQueuedJobIsDropped, NEW c \in Calls, SubmitJob(c), Fine'
  PROVE  NoQueuedJobIsDropped'
<1>1. PICK spec \in Specs, key \in AnyKey : \E r :
        CallStep(c, CreateRequest(c, spec, key), r, AfterCreate(Submitted(c, spec, key), r))
  BY SubmitJobRpc
<1> DEFINE m == CreateRequest(c, spec, key)
           call == Submitted(c, spec, key)
<1>2. PICK r : CallStep(c, m, r, AfterCreate(call, r))
  BY <1>1
<1>3. m.rpc = "CreateJob" /\ m.spec = spec /\ m.key = key /\ m.job = c
  BY DEF CreateRequest, Message
<1>4. call \in CallRecord /\ calls[c].pc = "idle" /\ calls \in [Calls -> CallRecord]
  BY DEF SubmitJob, Submitted, CallRecord, AnySpec, LifeInv, Inv, CallsOK
<1> HIDE DEF m, call
<1>5. Serve(m) /\ r = ReplyTo(m) /\ Fine
  BY <1>2, <1>3, FineIsServed DEF CallStep
<1>6. CreateJob(spec, key, c) /\ UNCHANGED <<queue, handlers>> /\ r = CreateJobReply(spec, key, c)
  <2>1. r = CreateJobReply(spec, key, c)
    BY <1>3, <1>5 DEF ReplyTo
  <2> QED BY <1>2, <1>3, <1>5, <2>1, ServedRpc DEF CallStep
<1>7. \A j : InHand(j) => InHand(j)'
  <2>1. calls' = [calls EXCEPT ![c] = AfterCreate(call, r)]
    BY <1>2 DEF CallStep
  <2> QED BY <1>4, <1>6, <2>1 DEF InHand
<1>8. \A j : Queued(j) => Queued(j)'
  BY <1>6 DEF Queued
<1> SUFFICES ASSUME NEW j \in JobIds, Status(j)' = "QUEUED"
             PROVE  Queued(j)' \/ InHand(j)'
  BY DEF NoQueuedJobIsDropped, Status
<1>9. CASE Status(j) = "QUEUED"
  BY <1>5, <1>7, <1>8, <1>9 DEF NoQueuedJobIsDropped, Fine
<1>10. CASE Status(j) # "QUEUED"
  <2>1. ~ UNCHANGED issued
    BY <1>10, QueuedBefore DEF StepOK
  <2>2. ~ Indexed(key) /\ jobs' = [jobs EXCEPT ![c] = NewRecord(spec)]
    BY <1>6, <2>1 DEF CreateJob
  <2>3. j = c
    BY <1>10, <2>2 DEF Status, LifeInv, Inv, StoresOK, JobTypeOK
  <2>4. r.code = "OK" /\ r.status = "QUEUED" /\ r.job = c
    BY <1>6, <2>2 DEF CreateJobReply
  <2> DEFINE next == [call EXCEPT !.job = r.job, !.status = r.status, !.pc = "enqueue"]
  <2>5. AfterCreate(call, r) = next
    BY <2>4 DEF AfterCreate
  <2>6. next.job = c /\ next.pc = "enqueue"
    BY <1>4, <2>4 DEF CallRecord
  <2> HIDE DEF next
  <2>7. calls'[c] = next
    BY <1>2, <1>4, <2>5 DEF CallStep
  <2> QED BY <2>3, <2>6, <2>7 DEF InHand, Calls
<1> QED BY <1>9, <1>10

\* The gateway's calls, from their second request on.
LEMMA MovedFields ==
  ASSUME NEW call \in CallRecord, NEW pc, NEW code, NEW status, NEW already
  PROVE  /\ [call EXCEPT !.pc = pc].pc = pc
         /\ [call EXCEPT !.pc = pc].job = call.job
         /\ Fail(call, code).pc = "done"
         /\ Respond(call, status, already).pc = "done"
BY DEF CallRecord, Fail, Respond

LEMMA SubmitEnqueueTracks ==
  ASSUME LifeInv, StepOK, NoQueuedJobIsDropped, NEW c \in Calls, SubmitEnqueue(c), Fine'
  PROVE  NoQueuedJobIsDropped'
<1> DEFINE m == Request("EnqueueJob", calls[c].job)
<1>1. PICK r : CallStep(c, m, r, AfterEnqueue(calls[c], r))
  BY SubmitEnqueueRpc
<1>2. m.rpc = "EnqueueJob" /\ m.job = calls[c].job /\ m.job \in JobIds
  BY RequestFields, CallIsNamed DEF SubmitEnqueue
<1> HIDE DEF m
<1>3. Serve(m) /\ Fine
  BY <1>1, <1>2, FineIsServed DEF CallStep
<1>4. EnqueueJob(m.job) /\ UNCHANGED issued
  BY <1>2, <1>3, ServedRpc
<1>5. \A k : Queued(k) \/ k = calls[c].job => Queued(k)'
  <2>1. PICK j \in JobIds : j = calls[c].job
    BY <1>2
  <2>2. \A k : Queued(k)' <=> Queued(k) \/ k = j
    BY <1>2, <1>4, <2>1, EnqueueEffect DEF LifeInv, Inv, StoresOK, QueueInv
  <2> QED BY <2>1, <2>2
<1> QED BY <1>1, <1>3, <1>4, <1>5, CallTracks

LEMMA SubmitCompensateTracks ==
  ASSUME LifeInv, StepOK, NoQueuedJobIsDropped, NEW c \in Calls, SubmitCompensate(c), Fine'
  PROVE  NoQueuedJobIsDropped'
<1> DEFINE m == DeleteRequest(calls[c].job, "QUEUED")
<1>1. PICK r : CallStep(c, m, r, Fail(calls[c], "UNAVAILABLE"))
  BY SubmitCompensateRpc
<1>2. m.rpc = "DeleteJobIfStatus" /\ calls[c].job \in JobIds
  BY CallIsNamed DEF SubmitCompensate, DeleteRequest, Message
<1>3. Serve(m) /\ Fine
  BY <1>1, <1>2, FineIsServed DEF CallStep
<1>4. jobs'[calls[c].job].status # "QUEUED"
  BY <1>2, <1>3, DeleteLeavesQueued
<1>5. UNCHANGED <<queue, issued>>
  BY <1>2, <1>3, ServedRpc DEF QueueRpcs
<1>6. \A j : Queued(j) => Queued(j)'
  BY <1>5 DEF Queued
<1> HIDE DEF m
<1> QED BY <1>1, <1>3, <1>4, <1>5, <1>6, CallTracks DEF Status

LEMMA CancelRemoveTracks ==
  ASSUME LifeInv, StepOK, NoQueuedJobIsDropped, NEW c \in Calls, CancelRemove(c), Fine'
  PROVE  NoQueuedJobIsDropped'
<1> DEFINE m == Request("RemoveJobIfPresent", calls[c].job)
<1>1. PICK r : CallStep(c, m, r, AfterRemove(calls[c], r))
  BY CancelRemoveRpc
<1>2. /\ m.rpc = "RemoveJobIfPresent" /\ m.job = calls[c].job
      /\ calls[c] \in CallRecord /\ calls[c].pc = "remove"
  BY RequestFields, CallIsNamed DEF CancelRemove
<1> HIDE DEF m
<1>3. Serve(m) /\ r = ReplyTo(m) /\ Fine
  BY <1>1, <1>2, FineIsServed DEF CallStep
<1>4. RemoveJobIfPresent(calls[c].job) /\ UNCHANGED issued
  BY <1>2, <1>3, ServedRpc
<1>5. \A k : Queued(k) /\ k # calls[c].job => Queued(k)'
  BY <1>4, RemoveEffect DEF LifeInv, Inv, StoresOK
<1>6. r.code = "OK" /\ r.removed = Queued(calls[c].job)
  BY <1>2, <1>3 DEF ReplyTo, RemoveJobIfPresentReply
<1>7. Queued(calls[c].job) => AfterRemove(calls[c], r).job = calls[c].job
                              /\ AfterRemove(calls[c], r).pc = "store"
  BY <1>2, <1>6, MovedFields DEF AfterRemove
<1> QED BY <1>1, <1>2, <1>3, <1>4, <1>5, <1>7, CallTracks DEF HandPcs

LEMMA CancelStoreTracks ==
  ASSUME LifeInv, StepOK, NoQueuedJobIsDropped, NEW c \in Calls, CancelStore(c), Fine'
  PROVE  NoQueuedJobIsDropped'
<1> DEFINE m == StoreRequest(calls[c].job, "CANCELED", NoSpec)
<1>1. PICK r : CallStep(c, m, r, AfterCancelStore(calls[c], r))
  BY CancelStoreRpc
<1>2. /\ m.rpc = "StoreResult" /\ m.job = calls[c].job /\ m.to = "CANCELED" /\ m.spec = NoSpec
      /\ calls[c] \in CallRecord /\ calls[c].job \in JobIds
  BY CallIsNamed DEF CancelStore, StoreRequest, Message
<1> HIDE DEF m
<1>3. Serve(m) /\ r = ReplyTo(m) /\ Fine
  BY <1>1, <1>2, FineIsServed DEF CallStep
<1>4. UNCHANGED <<queue, issued>>
  BY <1>2, <1>3, ServedRpc DEF QueueRpcs
<1>5. NoSpec \notin BigSpecs
  BY SpecsAssumption, NullsAssumption
<1>6. r = StoreResultReply(calls[c].job, "CANCELED", FALSE)
  <2>1. r = StoreResultReply(calls[c].job, "CANCELED", m.spec \in BigSpecs)
    BY <1>2, <1>3 DEF ReplyTo
  <2>2. (m.spec \in BigSpecs) = FALSE
    BY <1>2, <1>5
  <2> QED BY <2>1, <2>2, Zenon
<1>7. r.code = "OK" /\ r.status \in TerminalStatuses
  BY <1>2, <1>6 DEF StoreResultReply, Acceptable, StatusReply, TerminalStatuses, HasEnvelope,
                    LifeInv, Inv, StoresOK, ResultTypeOK
<1>8. AfterCancelStore(calls[c], r).pc = "transition" /\ AfterCancelStore(calls[c], r).job = calls[c].job
  BY <1>2, <1>7, MovedFields DEF AfterCancelStore
<1>9. \A j : Queued(j) => Queued(j)'
  BY <1>4 DEF Queued
<1> QED BY <1>1, <1>3, <1>4, <1>8, <1>9, CallTracks DEF HandPcs

LEMMA CancelTransitionTracks ==
  ASSUME LifeInv, StepOK, NoQueuedJobIsDropped, NEW c \in Calls, CancelTransition(c), Fine'
  PROVE  NoQueuedJobIsDropped'
<1> DEFINE m == TransitionRequest(calls[c].job, "QUEUED", "CANCELED")
<1>1. PICK r : CallStep(c, m, r, AfterCancelTransition(calls[c], r))
  BY CancelTransitionRpc
<1>2. m.rpc = "TransitionJobStatus" /\ calls[c].job \in JobIds
  BY CallIsNamed DEF CancelTransition, TransitionRequest, Message
<1>3. Serve(m) /\ Fine
  BY <1>1, <1>2, FineIsServed DEF CallStep
<1>4. jobs'[calls[c].job].status # "QUEUED"
  BY <1>2, <1>3, TransitionLeavesQueued
<1>5. UNCHANGED <<queue, issued>>
  BY <1>2, <1>3, ServedRpc DEF QueueRpcs
<1>6. \A j : Queued(j) => Queued(j)'
  BY <1>5 DEF Queued
<1> HIDE DEF m
<1> QED BY <1>1, <1>3, <1>4, <1>5, <1>6, CallTracks DEF Status
\* The requests that leave the queue alone, of calls that have no job in hand.
LEMMA PlainCallTracks ==
  ASSUME LifeInv, StepOK, NoQueuedJobIsDropped, NEW c \in Calls, NEW rpc, NEW j, NEW r, NEW call,
         rpc \in ReadRpcs \cup {"SetCancelRequested"}, CallStep(c, Request(rpc, j), r, call),
         calls[c].pc \notin HandPcs, Fine'
  PROVE  NoQueuedJobIsDropped'
<1> DEFINE m == Request(rpc, j)
<1>1. m.rpc = rpc /\ rpc \notin QueueRpcs \cup {"none", "CreateJob"}
  BY RequestFields DEF ReadRpcs, QueueRpcs
<1> HIDE DEF m
<1>2. CallStep(c, m, r, call)
  BY DEF m
<1>3. Serve(m) /\ Fine
  BY <1>1, <1>2, FineIsServed DEF CallStep
<1>4. UNCHANGED <<queue, issued>>
  BY <1>1, <1>3, ServedRpc
<1>5. \A k : Queued(k) => Queued(k)'
  BY <1>4 DEF Queued
<1> QED BY <1>2, <1>3, <1>4, <1>5, CallTracks

LEMMA GatewayTracks ==
  ASSUME LifeInv, StepOK, NoQueuedJobIsDropped, NEW c \in Calls, Fine',
         SubmitJob(c) \/ CancelJob(c) \/ GetJobResult(c) \/ ContinueCall(c)
  PROVE  NoQueuedJobIsDropped'
<1> USE DEF HandPcs, ReadRpcs
<1>1. CASE CancelJob(c)
  BY <1>1, CancelJobRpc, PlainCallTracks DEF CancelJob
<1>2. CASE GetJobResult(c)
  BY <1>2, GetJobResultRpc, PlainCallTracks DEF GetJobResult
<1>3. CASE CancelFlag(c)
  BY <1>3, CancelFlagRpc, PlainCallTracks DEF CancelFlag
<1>4. CASE ReadEnvelope(c)
  BY <1>4, ReadEnvelopeRpc, PlainCallTracks DEF ReadEnvelope
<1> QED BY <1>1, <1>2, <1>3, <1>4, SubmitJobTracks, SubmitEnqueueTracks, SubmitCompensateTracks,
           CancelRemoveTracks, CancelStoreTracks, CancelTransitionTracks DEF ContinueCall
(* The coordinator. *)

LEMMA FetchDequeueTracks ==
  ASSUME LifeInv, StepOK, NoQueuedJobIsDropped, NEW h \in Handlers, FetchDequeue(h), Fine'
  PROVE  NoQueuedJobIsDropped'
<1> DEFINE m == Request("DequeueJob", NoJob)
           next == [handlers[h] EXCEPT !.pc = "claim", !.job = Head(queue)]
<1>1. PICK r : HandlerRpc(h, m, r, AfterDequeue(handlers[h], r))
  BY FetchDequeueRpc
<1>2. m.rpc = "DequeueJob"
  BY RequestFields
<1>3. next.pc = "claim" /\ next.job = Head(queue)
  BY DEF LifeInv, Inv, HandlersOK, HandlerRecord
<1> HIDE DEF m
<1>4. Serve(m) /\ r = ReplyTo(m) /\ Fine
  BY <1>1, <1>2, FineIsServed DEF HandlerRpc
<1>5. DequeueJob /\ UNCHANGED issued
  BY <1>2, <1>4, ServedRpc
<1>6. r = DequeueJobReply
  BY <1>2, <1>4 DEF ReplyTo
<1>7. queue # <<>> => AfterDequeue(handlers[h], r) = next
  BY <1>6 DEF DequeueJobReply, AfterDequeue
<1> HIDE DEF next
<1>8. \A k : Queued(k) => Queued(k)' \/ (queue # <<>> /\ k = Head(queue))
  <2>1. CASE queue = <<>>
    BY <1>5, <2>1, DequeueEffect DEF Queued, LifeInv, Inv, StoresOK
  <2>2. CASE queue # <<>>
    BY <1>5, <2>2, DequeueEffect DEF LifeInv, Inv, StoresOK
  <2> QED BY <2>1, <2>2
<1>9. handlers[h].pc # "claim"
  BY DEF FetchDequeue
<1> QED BY <1>1, <1>3, <1>4, <1>5, <1>7, <1>8, <1>9, HandlerTracks

LEMMA FetchClaimTracks ==
  ASSUME LifeInv, StepOK, NoQueuedJobIsDropped, NEW h \in Handlers, FetchClaim(h), Fine'
  PROVE  NoQueuedJobIsDropped'
<1> DEFINE m == TransitionRequest(handlers[h].job, "QUEUED", "RUNNING")
<1>1. PICK r : HandlerRpc(h, m, r, AfterClaim(handlers[h], r))
  BY FetchClaimRpc
<1>2. m.rpc = "TransitionJobStatus" /\ handlers[h].job \in JobIds
  BY HandlerIsNamed DEF FetchClaim, TransitionRequest, Message
<1>3. Serve(m) /\ Fine
  BY <1>1, <1>2, FineIsServed DEF HandlerRpc
<1>4. jobs'[handlers[h].job].status # "QUEUED"
  BY <1>2, <1>3, TransitionLeavesQueued
<1>5. UNCHANGED <<queue, issued>>
  BY <1>2, <1>3, ServedRpc DEF QueueRpcs
<1>6. \A j : Queued(j) => Queued(j)'
  BY <1>5 DEF Queued
<1> HIDE DEF m
<1> QED BY <1>1, <1>3, <1>4, <1>5, <1>6, HandlerTracks DEF Status

\* The requests of a handler that take no job out of the queue.
LEMMA PlainHandlerTracks ==
  ASSUME LifeInv, StepOK, NoQueuedJobIsDropped, NEW h \in Handlers, NEW m, NEW r, NEW handler,
         HandlerRpc(h, m, r, handler), handlers[h].pc # "claim", Fine',
         m.rpc \in ReadRpcs \cup {"TransitionJobStatus", "StoreResult", "EnqueueJob"}
  PROVE  NoQueuedJobIsDropped'
<1>1. Serve(m) /\ Fine
  BY FineIsServed DEF HandlerRpc, ReadRpcs
<1>2. UNCHANGED issued
  BY <1>1, ServedRpc DEF ReadRpcs
<1>3. \A k : Queued(k) => Queued(k)'
  <2>1. CASE m.rpc = "EnqueueJob"
    <3>1. EnqueueJob(m.job) /\ m.job \in JobIds
      BY <1>1, <2>1, ServedRpc DEF HandlerRpc, Sent, GoodMessage, WriteRpcs
    <3> QED BY <3>1, EnqueueEffect DEF LifeInv, Inv, StoresOK, QueueInv
  <2>2. CASE m.rpc # "EnqueueJob"
    BY <1>1, <2>2, ServedRpc DEF QueueRpcs, ReadRpcs, Queued
  <2> QED BY <2>1, <2>2
<1> QED BY <1>1, <1>2, <1>3, HandlerTracks

LEMMA CoordinatorTracks ==
  ASSUME LifeInv, StepOK, NoQueuedJobIsDropped, NEW h \in Handlers, Fine',
         \/ FetchDequeue(h) \/ FetchClaim(h) \/ FetchRescue(h) \/ FetchRead(h)
         \/ ReportStore(h) \/ ReportFinish(h)
  PROVE  NoQueuedJobIsDropped'
<1> USE DEF ReadRpcs
<1>1. CASE FetchRescue(h) /\ handlers[h].pc = "recheck"
  <2>1. \E m, r, handler : m.rpc = "GetJobRecord" /\ HandlerRpc(h, m, r, handler)
    BY <1>1, FetchRecheckRpc, RequestFields
  <2> QED BY <1>1, <2>1, PlainHandlerTracks
<1>2. CASE FetchRescue(h) /\ handlers[h].pc = "rescue"
  <2>1. Request("EnqueueJob", handlers[h].job).rpc = "EnqueueJob"
    BY RequestFields
  <2>2. \E m, r, handler : m.rpc = "EnqueueJob" /\ HandlerRpc(h, m, r, handler)
    BY <1>2, <2>1, FetchRescueRpc
  <2> QED BY <1>2, <2>2, PlainHandlerTracks
<1>3. CASE FetchRead(h)
  <2>1. \E m, r, handler : m.rpc = "GetJobRecord" /\ HandlerRpc(h, m, r, handler)
    BY <1>3, FetchReadRpc, RequestFields
  <2> QED BY <1>3, <2>1, PlainHandlerTracks DEF FetchRead
<1>4. CASE ReportStore(h)
  <2>1. \A j, s, spec : StoreRequest(j, s, spec).rpc = "StoreResult"
    BY DEF StoreRequest, Message
  <2>2. \E m, r, handler : m.rpc = "StoreResult" /\ HandlerRpc(h, m, r, handler)
    BY <1>4, <2>1, ReportStoreRpc
  <2> QED BY <1>4, <2>2, PlainHandlerTracks DEF ReportStore
<1>5. CASE ReportFinish(h)
  <2>1. \A j, from, to : TransitionRequest(j, from, to).rpc = "TransitionJobStatus"
    BY DEF TransitionRequest, Message
  <2>2. \E m, r, handler : m.rpc = "TransitionJobStatus" /\ HandlerRpc(h, m, r, handler)
    BY <1>5, <2>1, ReportFinishRpc
  <2> QED BY <1>5, <2>2, PlainHandlerTracks DEF ReportFinish
<1> QED BY <1>1, <1>2, <1>3, <1>4, <1>5, FetchDequeueTracks, FetchClaimTracks DEF FetchRescue
(* The workers, and the theorem. *)

\* The handlers and the workers may move, but no claim is dropped.
LEMMA StoresTrack ==
  ASSUME LifeInv, StepOK, NoQueuedJobIsDropped, UNCHANGED <<jobs, queue, calls>>, Fine,
         \A h \in Handlers : handlers[h].pc = "claim" => handlers'[h] = handlers[h]
  PROVE  NoQueuedJobIsDropped'
<1> SUFFICES ASSUME NEW j \in JobIds, Status(j)' = "QUEUED"
             PROVE  Queued(j)' \/ InHand(j)'
  BY DEF NoQueuedJobIsDropped, Status
<1>1. Queued(j) \/ InHand(j)
  BY DEF NoQueuedJobIsDropped, Fine, Status
<1> QED BY <1>1 DEF Queued, InHand

\* A failure is not undone.
LEMMA FineBefore ==
  ASSUME LifeInv, UNCHANGED late \/ UseFault, Fine'
  PROVE  Fine
<1>1. ASSUME UseFault PROVE FALSE
  <2>1. PICK f \in Faults : late' = [late EXCEPT ![f] = Spent]
    BY <1>1 DEF UseFault, Lose
  <2>2. Spent.rpc = "spent"
    BY RequestFields DEF Spent
  <2>3. late'[f].rpc = "spent"
    BY <2>1, <2>2 DEF LifeInv, Inv, LateOK
  <2> QED BY <2>3 DEF Fine, Available
<1> QED BY <1>1 DEF Fine, Available

LEMMA WorkersTrack ==
  ASSUME LifeInv, StepOK, NoQueuedJobIsDropped, NEW w \in Workers, Fine',
         WorkerStep(w) \/ Expire(w) \/ GiveUp(w) \/ Stop(w)
  PROVE  NoQueuedJobIsDropped'
<1>1. ASSUME NEW h \in Handlers, FetchWork(w, h) \/ ReportWorkOutcome(w, h)
      PROVE  NoQueuedJobIsDropped'
  <2>1. UNCHANGED <<late, jobs, queue, calls>>
    BY <1>1 DEF FetchWork, ReportWorkOutcome, Open, WorkerUnchanged
  <2>2. \A g \in Handlers : handlers[g].pc = "claim" => handlers'[g] = handlers[g]
    BY <1>1 DEF FetchWork, ReportWorkOutcome, Open, IdleHandler, LifeInv, Inv, HandlersOK
  <2> QED BY <2>1, <2>2, FineBefore, StoresTrack
<1>2. CASE Heartbeat(w) \/ Execute(w)
  <2>1. UNCHANGED <<late, handlers, jobs, queue, calls>>
    BY <1>2 DEF Heartbeat, Execute, WorkerUnchanged
  <2> QED BY <2>1, FineBefore, StoresTrack
<1>3. CASE Expire(w) \/ GiveUp(w) \/ Stop(w)
  <2>1. UseFault /\ UNCHANGED <<handlers, jobs, queue, calls>>
    BY <1>3 DEF Expire, GiveUp, Stop, WorkerUnchanged
  <2> QED BY <2>1, FineBefore, StoresTrack
<1> QED BY <1>1, <1>2, <1>3 DEF WorkerStep

LEMMA DeliverTracks ==
  ASSUME LifeInv, StepOK, NoQueuedJobIsDropped, NEW g \in Handlers, Fine', DeliverAnswer(g)
  PROVE  NoQueuedJobIsDropped'
<1>1. UNCHANGED <<late, jobs, queue, calls>>
  BY DEF DeliverAnswer, WorkerUnchanged
<1>2. ASSUME NEW h \in Handlers, handlers[h].pc = "claim"
      PROVE  handlers'[h] = handlers[h]
  BY <1>2 DEF DeliverAnswer, LifeInv, Inv, HandlersOK
<1> QED BY <1>1, <1>2, FineBefore, StoresTrack

LEMMA NextTracks ==
  ASSUME LifeInv, NoQueuedJobIsDropped, [Next]_vars
  PROVE  NoQueuedJobIsDropped'
<1> SUFFICES ASSUME Fine' PROVE NoQueuedJobIsDropped'
  BY DEF NoQueuedJobIsDropped, Fine
<1>1. StepOK
  BY NextIsOK
<1>2. ASSUME NEW h \in Handlers, HandlerStep(h)
      PROVE  NoQueuedJobIsDropped'
  BY <1>1, <1>2, CoordinatorTracks, DeliverTracks DEF HandlerStep
<1>3. ASSUME NEW f \in Faults, ExecuteLate(f)
      PROVE  FALSE
  <2>1. late'[f] = Spent /\ Spent.rpc = "spent"
    BY <1>3, RequestFields DEF ExecuteLate, Spent, LifeInv, Inv, LateOK
  <2> QED BY <2>1 DEF Fine, Available
<1>4. CASE UNCHANGED vars
  BY <1>1, <1>4, FineBefore, StoresTrack DEF vars
<1> QED BY <1>1, <1>2, <1>3, <1>4, GatewayTracks, WorkersTrack DEF Next

\* A submission hands its job to the queue, the queue to a fetch or a cancel,
\* and each of them takes it out of QUEUED: while no request has failed, no
\* interleaving of repeated submissions, cancels and fetches leaves a QUEUED
\* job behind that nobody will ever look at.
THEOREM QueuedJobsAreNotDropped == Spec => []NoQueuedJobIsDropped
<1>1. Init => NoQueuedJobIsDropped
  BY DEF Init, JobInit, NoRecord, NoQueuedJobIsDropped, Status, UNSPECIFIED
<1>2. LifeInv /\ NoQueuedJobIsDropped /\ [Next]_vars => NoQueuedJobIsDropped'
  BY NextTracks
<1> QED BY <1>1, <1>2, LifeInvariant, PTL DEF Spec
-----------------------------------------------------------------------------
(***************************************************************************)
(* The form of a gateway's call, and what one step makes of it.            *)
(***************************************************************************)
CallForm(call) ==
  /\ call.pc = "idle" => call = IdleCall
  /\ call.pc # "done" => call.code = "NONE"
  /\ call.pc \in {"enqueue", "compensate"} => call.op = "submit"
  /\ call.pc \in {"remove", "store", "transition", "flag"} => call.op = "cancel"
  /\ call.pc = "result" => call.op = "read"
  /\ call.op = "submit" /\ call.code = "OK" => call.job \in JobIds

CallForms == \A c \in Calls : CallForm(calls[c])

Submits(c) == calls[c].op = "submit"

\* Call c submits: what it gets from CreateJob is its job.
Begins(c, m, r, call) ==
  /\ calls[c] = IdleCall
  /\ call.op = "submit"
  /\ m.rpc = "CreateJob" /\ m.job = c /\ m.key = call.key
  /\ IF r.code = "OK"
       THEN call.job = r.job /\ ((call.pc = "done" /\ call.code = "OK") \/ call.pc = "enqueue")
       ELSE call.job = NoJob /\ call.pc = "done" /\ call.code # "OK"

\* It looks up a job, to cancel or to read it.
Looks(c, m, r, call) ==
  /\ calls[c] = IdleCall
  /\ call.op \in {"cancel", "read"}
  /\ m.rpc \in ReadRpcs
  /\ call.pc \notin HandPcs

\* It goes on with its job.
Goes(c, m, r, call) ==
  /\ calls[c].pc \notin {"idle", "done"}
  /\ call.op = calls[c].op /\ call.key = calls[c].key /\ call.job = calls[c].job
  /\ m.job = calls[c].job
  /\ m.rpc \notin {"CreateJob", "DequeueJob"}
  /\ m.rpc = "EnqueueJob" <=> calls[c].pc = "enqueue"
  /\ m.rpc = "DeleteJobIfStatus" => calls[c].pc = "compensate" /\ call.pc = "done" /\ call.code # "OK"
  /\ m.rpc = "StoreResult" => calls[c].pc = "store" /\ m.to = "CANCELED"
  /\ m.rpc = "TransitionJobStatus" => calls[c].pc = "transition" /\ m.to = "CANCELED"
  /\ call.pc \notin {"idle", "enqueue"}
  /\ call.op = "submit" /\ call.code = "OK" => calls[c].pc = "enqueue" /\ r.code = "OK"
  /\ call.pc = "compensate" => calls[c].pc = "enqueue" /\ r.code # "OK"
  /\ call.pc = "store" => m.rpc = "RemoveJobIfPresent" /\ r.code = "OK" /\ r.removed
  /\ call.pc = "transition" => calls[c].pc = "store"

GatewayMoves(c, m, r, call) ==
  /\ CallStep(c, m, r, call)
  /\ CallForm(call)
  /\ Begins(c, m, r, call) \/ Looks(c, m, r, call) \/ Goes(c, m, r, call)

LEMMA FailFields ==
  ASSUME NEW call \in CallRecord, NEW code, NEW status, NEW already, NEW pc
  PROVE  /\ Fail(call, code).pc = "done" /\ Fail(call, code).code = code
         /\ Fail(call, code).op = call.op /\ Fail(call, code).key = call.key
         /\ Respond(call, status, already).pc = "done"
         /\ Respond(call, status, already).code = "OK"
         /\ Respond(call, status, already).op = call.op
         /\ Respond(call, status, already).key = call.key
         /\ [call EXCEPT !.pc = pc].pc = pc /\ [call EXCEPT !.pc = pc].job = call.job
         /\ [call EXCEPT !.pc = pc].code = call.code
         /\ [call EXCEPT !.pc = pc].op = call.op /\ [call EXCEPT !.pc = pc].key = call.key
BY DEF CallRecord, Fail, Respond

LEMMA MappedIsNoOK ==
  ASSUME NEW code
  PROVE  Mapped(code) # "OK"
BY DEF Mapped

LEMMA SubmitJobMoves ==
  ASSUME LifeInv, CallForms, NEW c \in Calls, SubmitJob(c)
  PROVE  \E m, r, call : GatewayMoves(c, m, r, call)
<1>1. PICK spec \in Specs, key \in AnyKey : \E r :
        CallStep(c, CreateRequest(c, spec, key), r, AfterCreate(Submitted(c, spec, key), r))
  BY SubmitJobRpc
<1> DEFINE m == CreateRequest(c, spec, key)
           call == Submitted(c, spec, key)
<1>2. PICK r : CallStep(c, m, r, AfterCreate(call, r))
  BY <1>1
<1>3. m.rpc = "CreateJob" /\ m.key = key /\ m.job = c /\ Sent(m)
  BY <1>2 DEF CreateRequest, Message, CallStep
<1>4. calls[c] = IdleCall /\ calls[c] \in CallRecord
  BY DEF SubmitJob, CallForms, CallForm, LifeInv, Inv, CallsOK
<1>5. /\ call \in CallRecord /\ call.op = "submit" /\ call.key = key /\ call.job = NoJob
      /\ call.code = "NONE"
  <2>1. call \in CallRecord
    BY <1>4 DEF Submitted, CallRecord, AnySpec
  <2> QED BY <1>4, <2>1 DEF Submitted, IdleCall
<1> HIDE DEF m, call
<1>6. CASE r.code # "OK"
  <2>1. AfterCreate(call, r) = Fail(call, Mapped(r.code))
    BY <1>6 DEF AfterCreate
  <2>2. Fail(call, Mapped(r.code)).job = NoJob
    BY <1>5, CallKeepsJob
  <2>3. Begins(c, m, r, AfterCreate(call, r)) /\ CallForm(AfterCreate(call, r))
    BY <1>3, <1>4, <1>5, <1>6, <2>1, <2>2, FailFields, MappedIsNoOK DEF Begins, CallForm
  <2> QED BY <1>2, <2>3 DEF GatewayMoves
<1>7. CASE r.code = "OK"
  <2>1. r.job \in JobIds
    BY <1>2, <1>3, <1>7, CalledCreate DEF CallStep, Calls, LifeInv, Inv
  <2>2. CASE r.status = "QUEUED"
    <3> DEFINE next == [call EXCEPT !.job = r.job, !.status = r.status, !.pc = "enqueue"]
    <3>1. AfterCreate(call, r) = next
      BY <1>7, <2>2 DEF AfterCreate
    <3>2. next.pc = "enqueue" /\ next.op = "submit" /\ next.key = key /\ next.job = r.job
          /\ next.code = "NONE"
      BY <1>5 DEF CallRecord
    <3> HIDE DEF next
    <3>3. Begins(c, m, r, next) /\ CallForm(next)
      BY <1>3, <1>4, <1>7, <3>2 DEF Begins, CallForm
    <3> QED BY <1>2, <3>1, <3>3 DEF GatewayMoves
  <2>3. CASE r.status # "QUEUED"
    <3> DEFINE named == [call EXCEPT !.job = r.job]
               next == Respond(named, r.status, FALSE)
    <3>1. AfterCreate(call, r) = next
      BY <1>7, <2>3 DEF AfterCreate
    <3>2. named \in CallRecord /\ named.op = "submit" /\ named.key = key /\ named.job = r.job
      BY <1>5, <2>1 DEF CallRecord, AnyJob
    <3> HIDE DEF named
    <3>3. next.pc = "done" /\ next.op = "submit" /\ next.key = key /\ next.job = r.job
          /\ next.code = "OK"
      BY <3>2 DEF Respond, CallRecord
    <3> HIDE DEF next
    <3>4. Begins(c, m, r, next) /\ CallForm(next)
      BY <1>3, <1>4, <1>7, <2>1, <3>3 DEF Begins, CallForm
    <3> QED BY <1>2, <3>1, <3>4 DEF GatewayMoves
  <2> QED BY <2>2, <2>3
<1> QED BY <1>6, <1>7
\* Cancels and reads begin with a look at the record.
LEMMA CancelJobMoves ==
  ASSUME LifeInv, CallForms, NEW c \in Calls, CancelJob(c)
  PROVE  \E m, r, call : GatewayMoves(c, m, r, call)
<1>1. PICK j \in issued : \E r :
        CallStep(c, Request("GetJobRecord", j), r, AfterCancelRead(Started(c, "cancel", j), r))
  BY CancelJobRpc
<1> DEFINE m == Request("GetJobRecord", j)
           call == Started(c, "cancel", j)
<1>2. PICK r : CallStep(c, m, r, AfterCancelRead(call, r))
  BY <1>1
<1> DEFINE next == AfterCancelRead(call, r)
<1>3. m.rpc \in ReadRpcs
  BY RequestFields DEF ReadRpcs
<1>4. calls[c] = IdleCall /\ calls[c] \in CallRecord /\ j \in JobIds
  BY DEF CancelJob, CallForms, CallForm, LifeInv, Inv, CallsOK, StoresOK, JobTypeOK
<1>5. call \in CallRecord /\ call.op = "cancel" /\ call.code = "NONE"
  <2>1. call \in CallRecord /\ call.op = "cancel" /\ call.code = calls[c].code
    BY <1>4 DEF Started, CallRecord, AnyJob
  <2> QED BY <1>4, <2>1 DEF IdleCall
<1> HIDE DEF m, call
<1>6. /\ next.op = "cancel"
      /\ next.pc = "done" \/ (next.pc \in {"remove", "flag"} /\ next.code = "NONE")
  BY <1>5 DEF AfterCancelRead, Fail, Respond, CallRecord
<1> HIDE DEF next
<1>7. Looks(c, m, r, next) /\ CallForm(next)
  BY <1>3, <1>4, <1>6 DEF Looks, CallForm, HandPcs
<1> QED BY <1>2, <1>7 DEF GatewayMoves, next

LEMMA GetJobResultMoves ==
  ASSUME LifeInv, CallForms, NEW c \in Calls, GetJobResult(c)
  PROVE  \E m, r, call : GatewayMoves(c, m, r, call)
<1>1. PICK j \in issued : \E r :
        CallStep(c, Request("GetJobRecord", j), r, AfterResultRead(Started(c, "read", j), r))
  BY GetJobResultRpc
<1> DEFINE m == Request("GetJobRecord", j)
           call == Started(c, "read", j)
<1>2. PICK r : CallStep(c, m, r, AfterResultRead(call, r))
  BY <1>1
<1> DEFINE next == AfterResultRead(call, r)
<1>3. m.rpc \in ReadRpcs
  BY RequestFields DEF ReadRpcs
<1>4. calls[c] = IdleCall /\ calls[c] \in CallRecord /\ j \in JobIds
  BY DEF GetJobResult, CallForms, CallForm, LifeInv, Inv, CallsOK, StoresOK, JobTypeOK
<1>5. call \in CallRecord /\ call.op = "read" /\ call.code = "NONE"
  <2>1. call \in CallRecord /\ call.op = "read" /\ call.code = calls[c].code
    BY <1>4 DEF Started, CallRecord, AnyJob
  <2> QED BY <1>4, <2>1 DEF IdleCall
<1> HIDE DEF m, call
<1>6. /\ next.op = "read"
      /\ next.pc = "done" \/ (next.pc = "result" /\ next.code = "NONE")
  BY <1>5 DEF AfterResultRead, Fail, Respond, CallRecord
<1> HIDE DEF next
<1>7. Looks(c, m, r, next) /\ CallForm(next)
  BY <1>3, <1>4, <1>6 DEF Looks, CallForm, HandPcs
<1> QED BY <1>2, <1>7 DEF GatewayMoves, next

\* The later requests of a call: its reply moves it on, or ends it.
LEMMA GoesOn ==
  ASSUME LifeInv, CallForms, NEW c \in Calls, NEW m, NEW r, NEW call, CallStep(c, m, r, call),
         calls[c].pc \notin {"idle", "done"},
         call.op = calls[c].op, call.key = calls[c].key, call.job = calls[c].job,
         m.job = calls[c].job,
         \/ m.rpc = "EnqueueJob" /\ calls[c].pc = "enqueue"
              /\ ((call.pc = "done" /\ r.code = "OK") \/ (call.pc = "compensate" /\ r.code # "OK"))
         \/ m.rpc = "DeleteJobIfStatus" /\ calls[c].pc = "compensate"
              /\ call.pc = "done" /\ call.code # "OK"
         \/ m.rpc = "RemoveJobIfPresent" /\ calls[c].pc = "remove"
              /\ (call.pc \in {"done", "flag"}
                  \/ (call.pc = "store" /\ r.code = "OK" /\ r.removed))
         \/ m.rpc = "StoreResult" /\ calls[c].pc = "store" /\ m.to = "CANCELED"
              /\ call.pc \in {"done", "transition"}
         \/ m.rpc = "TransitionJobStatus" /\ calls[c].pc = "transition" /\ m.to = "CANCELED"
              /\ call.pc \in {"done", "flag"}
         \/ m.rpc = "SetCancelRequested" /\ calls[c].pc = "flag" /\ call.pc = "done"
         \/ m.rpc = "GetResult" /\ calls[c].pc = "result" /\ call.pc = "done",
         call.pc # "done" => call.code = calls[c].code
  PROVE  GatewayMoves(c, m, r, call)
<1>1. CallForm(calls[c]) /\ (calls[c].pc \in {"enqueue", "compensate"} => calls[c].job \in JobIds)
  BY CallIsNamed DEF CallForms
<1>2. CallForm(call)
  BY <1>1 DEF CallForm
<1>3. Goes(c, m, r, call)
  BY <1>1 DEF Goes, CallForm
<1> QED BY <1>2, <1>3 DEF GatewayMoves
\* A reply changes neither the operation nor the key of a call, and leaves no
\* code before the call is done.
LEMMA CallKeepsForm ==
  ASSUME NEW call \in CallRecord, NEW r
  PROVE  \A next \in {Fail(call, "UNAVAILABLE"), AfterEnqueue(call, r), AfterRemove(call, r),
                      AfterCancelStore(call, r), AfterCancelTransition(call, r),
                      AfterFlag(call, r), AfterGetResult(call, r)} :
           next.op = call.op /\ next.key = call.key /\ (next.pc # "done" => next.code = call.code)
<1> USE DEF CallRecord, Fail, Respond
<1> DEFINE Keeps(next) ==
      next.op = call.op /\ next.key = call.key /\ (next.pc # "done" => next.code = call.code)
<1>1. Keeps(Fail(call, "UNAVAILABLE"))
  OBVIOUS
<1>2. Keeps(AfterEnqueue(call, r))
  BY DEF AfterEnqueue
<1>3. Keeps(AfterRemove(call, r))
  BY DEF AfterRemove
<1>4. Keeps(AfterCancelStore(call, r))
  BY DEF AfterCancelStore
<1>5. Keeps(AfterCancelTransition(call, r))
  BY DEF AfterCancelTransition
<1>6. Keeps(AfterFlag(call, r))
  BY DEF AfterFlag
<1>7. Keeps(AfterGetResult(call, r))
  BY DEF AfterGetResult
<1> QED BY <1>1, <1>2, <1>3, <1>4, <1>5, <1>6, <1>7

\* Where a reply takes a call.
LEMMA CallMovesOn ==
  ASSUME NEW call \in CallRecord, NEW r
  PROVE  /\ IF r.code = "OK" THEN AfterEnqueue(call, r).pc = "done"
                             ELSE AfterEnqueue(call, r).pc = "compensate"
         /\ Fail(call, "UNAVAILABLE").pc = "done" /\ Fail(call, "UNAVAILABLE").code # "OK"
         /\ \/ AfterRemove(call, r).pc \in {"done", "flag"}
            \/ AfterRemove(call, r).pc = "store" /\ r.code = "OK" /\ r.removed
         /\ AfterCancelStore(call, r).pc \in {"done", "transition"}
         /\ AfterCancelTransition(call, r).pc \in {"done", "flag"}
         /\ AfterFlag(call, r).pc = "done"
         /\ AfterGetResult(call, r).pc = "done"
<1> USE DEF CallRecord, Fail, Respond
<1>1. IF r.code = "OK" THEN AfterEnqueue(call, r).pc = "done"
                       ELSE AfterEnqueue(call, r).pc = "compensate"
  BY DEF AfterEnqueue
<1>2. Fail(call, "UNAVAILABLE").pc = "done" /\ Fail(call, "UNAVAILABLE").code # "OK"
  OBVIOUS
<1>3. \/ AfterRemove(call, r).pc \in {"done", "flag"}
      \/ AfterRemove(call, r).pc = "store" /\ r.code = "OK" /\ r.removed
  BY DEF AfterRemove
<1>4. AfterCancelStore(call, r).pc \in {"done", "transition"}
  BY DEF AfterCancelStore
<1>5. AfterCancelTransition(call, r).pc \in {"done", "flag"}
  BY DEF AfterCancelTransition
<1>6. AfterFlag(call, r).pc = "done" /\ AfterGetResult(call, r).pc = "done"
  BY DEF AfterFlag, AfterGetResult
<1> QED BY <1>1, <1>2, <1>3, <1>4, <1>5, <1>6

LEMMA GatewayIsAMove ==
  ASSUME LifeInv, CallForms, NEW c \in Calls,
         SubmitJob(c) \/ CancelJob(c) \/ GetJobResult(c) \/ ContinueCall(c)
  PROVE  \E m, r, call : GatewayMoves(c, m, r, call)
<1>1. calls[c] \in CallRecord
  BY DEF LifeInv, Inv, CallsOK
<1>2. CASE SubmitEnqueue(c)
  <2> DEFINE m == Request("EnqueueJob", calls[c].job)
  <2>1. PICK r : CallStep(c, m, r, AfterEnqueue(calls[c], r))
    BY <1>2, SubmitEnqueueRpc
  <2> DEFINE next == AfterEnqueue(calls[c], r)
  <2>2. m.rpc = "EnqueueJob" /\ m.job = calls[c].job
    BY RequestFields
  <2>3. next.job = calls[c].job
    BY <1>1, CallKeepsJob
  <2>4. next.op = calls[c].op /\ next.key = calls[c].key /\ (next.pc # "done" => next.code = calls[c].code)
    BY <1>1, CallKeepsForm
  <2>5. IF r.code = "OK" THEN next.pc = "done" ELSE next.pc = "compensate"
    BY <1>1, CallMovesOn
  <2>6. CallStep(c, m, r, next)
    BY <2>1
  <2> HIDE DEF m, next
  <2> QED BY <1>2, <2>2, <2>3, <2>4, <2>5, <2>6, GoesOn DEF SubmitEnqueue
<1>3. CASE SubmitCompensate(c)
  <2> DEFINE m == DeleteRequest(calls[c].job, "QUEUED")
  <2>1. PICK r : CallStep(c, m, r, Fail(calls[c], "UNAVAILABLE"))
    BY <1>3, SubmitCompensateRpc
  <2> DEFINE next == Fail(calls[c], "UNAVAILABLE")
  <2>2. m.rpc = "DeleteJobIfStatus" /\ m.job = calls[c].job
    BY DEF DeleteRequest, Message
  <2>3. next.job = calls[c].job
    BY <1>1, CallKeepsJob
  <2>4. next.op = calls[c].op /\ next.key = calls[c].key /\ (next.pc # "done" => next.code = calls[c].code)
    BY <1>1, CallKeepsForm
  <2>5. next.pc = "done" /\ next.code # "OK"
    BY <1>1, CallMovesOn
  <2>6. CallStep(c, m, r, next)
    BY <2>1
  <2> HIDE DEF m, next
  <2> QED BY <1>3, <2>2, <2>3, <2>4, <2>5, <2>6, GoesOn DEF SubmitCompensate
<1>4. CASE CancelRemove(c)
  <2> DEFINE m == Request("RemoveJobIfPresent", calls[c].job)
  <2>1. PICK r : CallStep(c, m, r, AfterRemove(calls[c], r))
    BY <1>4, CancelRemoveRpc
  <2> DEFINE next == AfterRemove(calls[c], r)
  <2>2. m.rpc = "RemoveJobIfPresent" /\ m.job = calls[c].job
    BY RequestFields
  <2>3. next.job = calls[c].job
    BY <1>1, CallKeepsJob
  <2>4. next.op = calls[c].op /\ next.key = calls[c].key /\ (next.pc # "done" => next.code = calls[c].code)
    BY <1>1, CallKeepsForm
  <2>5. \/ next.pc \in {"done", "flag"}
        \/ next.pc = "store" /\ r.code = "OK" /\ r.removed
    BY <1>1, CallMovesOn
  <2>6. CallStep(c, m, r, next)
    BY <2>1
  <2> HIDE DEF m, next
  <2> QED BY <1>4, <2>2, <2>3, <2>4, <2>5, <2>6, GoesOn DEF CancelRemove
<1>5. CASE CancelStore(c)
  <2> DEFINE m == StoreRequest(calls[c].job, "CANCELED", NoSpec)
  <2>1. PICK r : CallStep(c, m, r, AfterCancelStore(calls[c], r))
    BY <1>5, CancelStoreRpc
  <2> DEFINE next == AfterCancelStore(calls[c], r)
  <2>2. m.rpc = "StoreResult" /\ m.job = calls[c].job /\ m.to = "CANCELED"
    BY DEF StoreRequest, Message
  <2>3. next.job = calls[c].job
    BY <1>1, CallKeepsJob
  <2>4. next.op = calls[c].op /\ next.key = calls[c].key /\ (next.pc # "done" => next.code = calls[c].code)
    BY <1>1, CallKeepsForm
  <2>5. next.pc \in {"done", "transition"}
    BY <1>1, CallMovesOn
  <2>6. CallStep(c, m, r, next)
    BY <2>1
  <2> HIDE DEF m, next
  <2> QED BY <1>5, <2>2, <2>3, <2>4, <2>5, <2>6, GoesOn DEF CancelStore
<1>6. CASE CancelTransition(c)
  <2> DEFINE m == TransitionRequest(calls[c].job, "QUEUED", "CANCELED")
  <2>1. PICK r : CallStep(c, m, r, AfterCancelTransition(calls[c], r))
    BY <1>6, CancelTransitionRpc
  <2> DEFINE next == AfterCancelTransition(calls[c], r)
  <2>2. m.rpc = "TransitionJobStatus" /\ m.job = calls[c].job /\ m.to = "CANCELED"
    BY DEF TransitionRequest, Message
  <2>3. next.job = calls[c].job
    BY <1>1, CallKeepsJob
  <2>4. next.op = calls[c].op /\ next.key = calls[c].key /\ (next.pc # "done" => next.code = calls[c].code)
    BY <1>1, CallKeepsForm
  <2>5. next.pc \in {"done", "flag"}
    BY <1>1, CallMovesOn
  <2>6. CallStep(c, m, r, next)
    BY <2>1
  <2> HIDE DEF m, next
  <2> QED BY <1>6, <2>2, <2>3, <2>4, <2>5, <2>6, GoesOn DEF CancelTransition
<1>7. CASE CancelFlag(c)
  <2> DEFINE m == Request("SetCancelRequested", calls[c].job)
  <2>1. PICK r : CallStep(c, m, r, AfterFlag(calls[c], r))
    BY <1>7, CancelFlagRpc
  <2> DEFINE next == AfterFlag(calls[c], r)
  <2>2. m.rpc = "SetCancelRequested" /\ m.job = calls[c].job
    BY RequestFields
  <2>3. next.job = calls[c].job
    BY <1>1, CallKeepsJob
  <2>4. next.op = calls[c].op /\ next.key = calls[c].key /\ (next.pc # "done" => next.code = calls[c].code)
    BY <1>1, CallKeepsForm
  <2>5. next.pc = "done"
    BY <1>1, CallMovesOn
  <2>6. CallStep(c, m, r, next)
    BY <2>1
  <2> HIDE DEF m, next
  <2> QED BY <1>7, <2>2, <2>3, <2>4, <2>5, <2>6, GoesOn DEF CancelFlag
<1>8. CASE ReadEnvelope(c)
  <2> DEFINE m == Request("GetResult", calls[c].job)
  <2>1. PICK r : CallStep(c, m, r, AfterGetResult(calls[c], r))
    BY <1>8, ReadEnvelopeRpc
  <2> DEFINE next == AfterGetResult(calls[c], r)
  <2>2. m.rpc = "GetResult" /\ m.job = calls[c].job
    BY RequestFields
  <2>3. next.job = calls[c].job
    BY <1>1, CallKeepsJob
  <2>4. next.op = calls[c].op /\ next.key = calls[c].key /\ (next.pc # "done" => next.code = calls[c].code)
    BY <1>1, CallKeepsForm
  <2>5. next.pc = "done"
    BY <1>1, CallMovesOn
  <2>6. CallStep(c, m, r, next)
    BY <2>1
  <2> HIDE DEF m, next
  <2> QED BY <1>8, <2>2, <2>3, <2>4, <2>5, <2>6, GoesOn DEF ReadEnvelope
<1> QED BY <1>2, <1>3, <1>4, <1>5, <1>6, <1>7, <1>8, SubmitJobMoves, CancelJobMoves,
           GetJobResultMoves DEF ContinueCall
-----------------------------------------------------------------------------
(***************************************************************************)
(* Where the ids come from: a job is created for a call that submits, and  *)
(* a call that has the job of another one submitted the same key.          *)
(***************************************************************************)
\* What CreateJob leaves in the index, and what its reply names.
LEMMA CreateEffect ==
  ASSUME LifeInv, NEW spec \in Specs, NEW key \in AnyKey, NEW id \in JobIds,
         CreateJob(spec, key, id)
  PROVE  /\ \A i \in DOMAIN dedup' :
              \/ \E k \in DOMAIN dedup : dedup'[i] = dedup[k]
              \/ dedup'[i].key = key /\ dedup'[i].job = id
         /\ issued' \subseteq issued \cup {id}
<1>1. dedup \in Seq(DedupEntry) /\ Distinct(dedup) /\ Len(dedup) <= MaxDedupKeys
  BY DEF LifeInv, Inv, StoresOK, JobTypeOK, DedupInv, DedupIsSound, Distinct
<1>2. issued' \subseteq issued \cup {id}
  BY DEF CreateJob
<1>3. CASE UNCHANGED dedup
  BY <1>2, <1>3
<1>4. CASE Indexed(key) /\ dedup' = Touch(key)
  BY <1>1, <1>2, <1>4, IndexAfterTouch
<1>5. CASE /\ ~ Indexed(key) /\ key # NoKey
           /\ dedup' = Evict(Append(dedup, [key |-> key, spec |-> spec, job |-> id]))
  <2> DEFINE entry == [key |-> key, spec |-> spec, job |-> id]
  <2>1. entry \in DedupEntry /\ entry.key = key /\ entry.job = id
    BY <1>5 DEF DedupEntry, AnyKey
  <2>2. dedup' = Evict(Append(dedup, entry)) /\ ~ Indexed(entry.key)
    BY <1>5
  <2> HIDE DEF entry
  <2>3. \A i \in DOMAIN dedup' : dedup'[i] = entry \/ \E k \in DOMAIN dedup : dedup'[i] = dedup[k]
    BY <1>1, <2>1, <2>2, IndexAfterAdd
  <2> QED BY <1>2, <2>1, <2>3
<1> QED BY <1>3, <1>4, <1>5 DEF CreateJob

LEMMA CreateAnswer ==
  ASSUME LifeInv, NEW m, NEW r, Sent(m), m.rpc = "CreateJob", Called(m, r), r.code = "OK"
  PROVE  /\ Serve(m) /\ CreateJob(m.spec, m.key, m.job) /\ UNCHANGED <<queue, results>>
         /\ \/ /\ ~ Indexed(m.key) /\ r.job = m.job /\ m.job \notin issued
               /\ jobs' = [jobs EXCEPT ![m.job] = NewRecord(m.spec)]
            \/ /\ UNCHANGED <<jobs, issued>>
               /\ Known(r.job)
               /\ m.key # NoKey /\ Indexed(m.key) /\ r.job = EntryOf(m.key).job
<1>1. Serve(m) /\ r = CreateJobReply(m.spec, m.key, m.job)
  BY DEF Called, RpcError, ErrorReply, ReplyTo
<1>2. CreateJob(m.spec, m.key, m.job) /\ UNCHANGED <<queue, results>>
  BY <1>1, ServedRpc
<1>3. CASE ~ Indexed(m.key)
  BY <1>1, <1>2, <1>3 DEF CreateJob, CreateJobReply
<1>4. CASE Indexed(m.key)
  <2>1. Known(EntryOf(m.key).job) /\ r.job = EntryOf(m.key).job
    BY <1>1, <1>4 DEF CreateJobReply, ErrorReply
  <2>2. m.key # NoKey
    <3>1. PICK i \in DOMAIN dedup : dedup[i].key = m.key
      BY <1>4 DEF Indexed
    <3>2. dedup[i] \in DedupEntry
      BY ElementOfSeq DEF LifeInv, Inv, StoresOK, JobTypeOK
    <3> QED BY <3>1, <3>2, NoKeyAssumption DEF DedupEntry
  <2> QED BY <1>1, <1>2, <1>4, <2>1, <2>2 DEF CreateJob
<1> QED BY <1>3, <1>4

Owns(j, key) == j \in Calls /\ Submits(j) /\ calls[j].key = key

\* A call that has the job of another call.
Shares(c) == Submits(c) /\ calls[c].job \notin {c, NoJob}

\* A call whose submission was rolled back, or will be reported as failed.
GaveUp(c, j) == Submits(c) /\ calls[c].job = j /\ calls[c].pc = "done" /\ calls[c].code # "OK"

Origins ==
  /\ \A c \in Calls : Shares(c) => calls[c].key # NoKey /\ Owns(calls[c].job, calls[c].key)
  /\ \A f \in Faults : late[f].rpc = "CreateJob" => Owns(late[f].job, late[f].key)
  /\ \A f \in Faults : late[f].rpc = "DeleteJobIfStatus" => \E c \in Calls : GaveUp(c, late[f].job)
  /\ \A i \in DOMAIN dedup : Owns(dedup[i].job, dedup[i].key)
  /\ \A j \in issued : Submits(j)

FormInv == LifeInv /\ ClaimsOK /\ CallForms /\ Origins

\* What a call owns it keeps.
LEMMA OwnsStays ==
  ASSUME FormInv, NEW c \in Calls, NEW m, NEW r, NEW call, GatewayMoves(c, m, r, call)
  PROVE  /\ calls'[c] = call /\ \A d \in Calls : d # c => calls'[d] = calls[d]
         /\ \A j, key : Owns(j, key) => Owns(j, key)'
         /\ \A d \in Calls : \A j : GaveUp(d, j) => GaveUp(d, j)'
         /\ \A d \in Calls : Submits(d) => Submits(d)'
<1>1. calls' = [calls EXCEPT ![c] = call] /\ calls \in [Calls -> CallRecord]
  BY DEF GatewayMoves, CallStep, FormInv, LifeInv, Inv, CallsOK
<1>2. calls'[c] = call /\ \A d \in Calls : d # c => calls'[d] = calls[d]
  BY <1>1
<1>3. Submits(c) => call.op = "submit" /\ call.key = calls[c].key /\ calls[c].pc # "done"
  BY DEF GatewayMoves, Begins, Looks, Goes, Submits, IdleCall
<1> QED BY <1>2, <1>3 DEF Owns, GaveUp, Submits

\* A lost request is late; nothing else becomes late.
LEMMA LateAfter ==
  ASSUME LifeInv, NEW m, NEW r, Called(m, r), NEW f \in Faults
  PROVE  late'[f] = late[f] \/ (late'[f] = m /\ r = RpcError /\ UNCHANGED stores)
<1>1. CASE Lose(m) /\ r = RpcError /\ UNCHANGED stores
  <2>1. PICK g \in Faults : late' = [late EXCEPT ![g] = m]
    BY <1>1 DEF Lose
  <2> QED BY <1>1, <2>1 DEF LifeInv, Inv, LateOK
<1> QED BY <1>1 DEF Called

\* Jobs that share, in a gateway step.
LEMMA GatewayKeepsOrigins ==
  ASSUME FormInv, NEW c \in Calls, NEW m, NEW r, NEW call, GatewayMoves(c, m, r, call)
  PROVE  CallForms' /\ Origins'
<1>1. /\ calls'[c] = call /\ \A d \in Calls : d # c => calls'[d] = calls[d]
      /\ \A j, key : Owns(j, key) => Owns(j, key)'
      /\ \A d \in Calls : \A j : GaveUp(d, j) => GaveUp(d, j)'
      /\ \A d \in Calls : Submits(d) => Submits(d)'
  BY OwnsStays
<1>2. CallForms'
  <2>1. CallForm(call)
    BY DEF GatewayMoves
  <2> QED BY <1>1, <2>1 DEF CallForms, FormInv
<1>3. Called(m, r) /\ Sent(m)
  BY DEF GatewayMoves, CallStep
<1>4. Begins(c, m, r, call) => Owns(c, m.key)'
  BY <1>1 DEF Begins, Owns, Submits
<1>5. \A d \in Calls : Shares(d)' => calls'[d].key # NoKey /\ Owns(calls[d].job, calls[d].key)'
  <2>1. ASSUME NEW d \in Calls, d # c, Shares(d)'
        PROVE  calls'[d].key # NoKey /\ Owns(calls[d].job, calls[d].key)'
    <3>1. calls[d].key # NoKey /\ Owns(calls[d].job, calls[d].key)
      BY <1>1, <2>1 DEF Shares, Submits, FormInv, Origins
    <3> QED BY <1>1, <2>1, <3>1 DEF Owns, Submits
  <2>2. ASSUME Shares(c)'
        PROVE  calls'[c].key # NoKey /\ Owns(calls[c].job, calls[c].key)'
    <3>1. call.op = "submit" /\ call.job \notin {c, NoJob}
      BY <1>1, <2>2 DEF Shares, Submits
    <3>2. CASE Begins(c, m, r, call)
      <4>1. r.code = "OK" /\ call.job = r.job /\ m.key = call.key /\ m.rpc = "CreateJob" /\ m.job = c
        BY <3>1, <3>2 DEF Begins
      <4>2. m.key # NoKey /\ Indexed(m.key) /\ r.job = EntryOf(m.key).job
        BY <1>3, <3>1, <4>1, CreateAnswer DEF FormInv
      <4>3. PICK i \in DOMAIN dedup : EntryOf(m.key) = dedup[i] /\ dedup[i].key = m.key
        BY <4>2 DEF Indexed, EntryOf, IndexOf
      <4>4. Owns(r.job, m.key)
        BY <4>2, <4>3 DEF FormInv, Origins
      <4>5. Owns(r.job, m.key)'
        BY <1>1, <4>4
      <4> QED BY <1>1, <4>1, <4>2, <4>5 DEF Owns, Submits
    <3>3. CASE Looks(c, m, r, call)
      BY <3>1, <3>3 DEF Looks
    <3>4. CASE Goes(c, m, r, call)
      <4>1. Shares(c) /\ calls[c].job = call.job /\ calls[c].key = call.key
        BY <3>1, <3>4 DEF Goes, Shares, Submits
      <4>2. calls[c].key # NoKey /\ Owns(calls[c].job, calls[c].key)
        BY <4>1 DEF FormInv, Origins
      <4> QED BY <1>1, <4>1, <4>2 DEF Owns, Submits
    <3> QED BY <3>2, <3>3, <3>4 DEF GatewayMoves
  <2> QED BY <2>1, <2>2
<1>6. \A f \in Faults : late'[f].rpc = "CreateJob" => Owns(late[f].job, late[f].key)'
  <2>1. ASSUME NEW f \in Faults, late'[f].rpc = "CreateJob"
        PROVE  Owns(late[f].job, late[f].key)'
    <3>1. CASE late'[f] = late[f]
      <4>1. Owns(late[f].job, late[f].key)
        BY <2>1, <3>1 DEF FormInv, Origins
      <4> QED BY <1>1, <3>1, <4>1 DEF Owns, Submits
    <3>2. CASE late'[f] = m
      <4>1. Begins(c, m, r, call)
        BY <2>1, <3>2 DEF GatewayMoves, Looks, Goes, ReadRpcs
      <4> QED BY <1>4, <3>2, <4>1 DEF Begins, Owns, Submits
    <3> QED BY <1>3, <3>1, <3>2, LateAfter DEF FormInv
  <2> QED BY <2>1
<1>7. \A f \in Faults : late'[f].rpc = "DeleteJobIfStatus" => \E d \in Calls : GaveUp(d, late[f].job)'
  <2>1. ASSUME NEW f \in Faults, late'[f].rpc = "DeleteJobIfStatus"
        PROVE  \E d \in Calls : GaveUp(d, late[f].job)'
    <3>1. CASE late'[f] = late[f]
      <4>1. PICK d \in Calls : GaveUp(d, late[f].job)
        BY <2>1, <3>1 DEF FormInv, Origins
      <4> QED BY <1>1, <3>1, <4>1 DEF GaveUp, Submits
    <3>2. CASE late'[f] = m
      <4>1. Goes(c, m, r, call) /\ calls[c].pc = "compensate"
        BY <2>1, <3>2 DEF GatewayMoves, Begins, Looks, Goes, ReadRpcs
      <4>2. call.op = "submit" /\ call.pc = "done" /\ call.code # "OK" /\ call.job = m.job
        BY <2>1, <3>2, <4>1 DEF Goes, FormInv, CallForms, CallForm
      <4> QED BY <1>1, <3>2, <4>2 DEF GaveUp, Submits
    <3> QED BY <1>3, <3>1, <3>2, LateAfter DEF FormInv
  <2> QED BY <2>1
<1>8. /\ \A i \in DOMAIN dedup' : Owns(dedup[i].job, dedup[i].key)'
      /\ \A j \in issued' : Submits(j)'
  <2>1. CASE UNCHANGED <<dedup, issued>>
    <3>1. \A i \in DOMAIN dedup : Owns(dedup[i].job, dedup[i].key)
      BY DEF FormInv, Origins
    <3>2. \A j \in issued : Submits(j) /\ j \in Calls
      BY DEF FormInv, Origins, LifeInv, Inv, StoresOK, JobTypeOK, Calls
    <3> QED BY <1>1, <2>1, <3>1, <3>2 DEF Owns, Submits
  <2>2. CASE ~ UNCHANGED <<dedup, issued>>
    <3>1. Serve(m) /\ m.rpc = "CreateJob"
      BY <1>3, <2>2, ServedRpc DEF Called, stores
    <3>2. Owns(c, m.key)' /\ m.job = c
      BY <1>4, <3>1 DEF GatewayMoves, Begins, Looks, Goes, ReadRpcs
    <3>3. CreateJob(m.spec, m.key, m.job) /\ m.spec \in Specs /\ m.key \in AnyKey /\ m.job \in JobIds
      BY <1>3, <3>1, ServedRpc DEF Sent, GoodMessage, Messages, WriteRpcs
    <3>4. /\ \A i \in DOMAIN dedup' :
               \/ \E k \in DOMAIN dedup : dedup'[i] = dedup[k]
               \/ dedup'[i].key = m.key /\ dedup'[i].job = m.job
          /\ issued' \subseteq issued \cup {m.job}
      BY <3>3, CreateEffect DEF FormInv
    <3>5. ASSUME NEW i \in DOMAIN dedup'
          PROVE  Owns(dedup[i].job, dedup[i].key)'
      <4>1. CASE \E k \in DOMAIN dedup : dedup'[i] = dedup[k]
        <5>1. PICK k \in DOMAIN dedup : dedup'[i] = dedup[k]
          BY <4>1
        <5>2. Owns(dedup[k].job, dedup[k].key)
          BY DEF FormInv, Origins
        <5> QED BY <1>1, <5>1, <5>2 DEF Owns, Submits
      <4>2. CASE dedup'[i].key = m.key /\ dedup'[i].job = m.job
        BY <3>2, <4>2 DEF Owns, Submits
      <4> QED BY <3>4, <4>1, <4>2
    <3>6. ASSUME NEW j \in issued'
          PROVE  Submits(j)'
      <4>1. CASE j \in issued
        BY <1>1, <4>1 DEF FormInv, Origins, LifeInv, Inv, StoresOK, JobTypeOK, Calls
      <4>2. CASE j = c
        BY <3>2, <4>2 DEF Owns, Submits
      <4> QED BY <3>2, <3>4, <4>1, <4>2
    <3> QED BY <3>5, <3>6
  <2> QED BY <2>1, <2>2
<1> QED BY <1>2, <1>5, <1>6, <1>7, <1>8 DEF Origins, Shares, Submits
-----------------------------------------------------------------------------
(***************************************************************************)
(* What one request makes of a handler of the coordinator.                 *)
(***************************************************************************)
Refused(handler) == handler.pc = "answer" /\ ~ handler.ok

Dequeues(h, m, r, handler) ==
  /\ handlers[h].pc = "dequeue" /\ m.rpc = "DequeueJob"
  /\ Refused(handler) \/ (handler.pc = "claim" /\ Serve(m) /\ queue # <<>> /\ handler.job = Head(queue))

ClaimsJob(h, m, r, handler) ==
  /\ handlers[h].pc = "claim"
  /\ m = TransitionRequest(handlers[h].job, "QUEUED", "RUNNING")
  /\ handler.job = handlers[h].job
  /\ \/ Refused(handler)
     \/ handler.pc = "recheck"
     \/ handler.pc = "read" /\ r.code = "OK" /\ r.applied

\* It looks at the record of a job it failed to claim, or of the one it took.
LooksUp(h, m, r, handler) ==
  /\ handlers[h].pc \in {"recheck", "read"}
  /\ m.rpc = "GetJobRecord" /\ m.job = handlers[h].job
  /\ handler.pc = "answer"
  /\ handler.ok => /\ handlers[h].pc = "read" /\ handler.job = handlers[h].job
                   /\ r.code = "OK" /\ handler.spec = r.spec

\* It records the outcome of a run: first the envelope, then the status.
RecordsEnd(h, m, r, handler) ==
  /\ handler.job = handlers[h].job /\ handler.spec = handlers[h].spec
  /\ \/ /\ handlers[h].pc = "store"
        /\ m = StoreRequest(handlers[h].job, Outcome(handlers[h].spec), handlers[h].spec)
        /\ handler.pc \in {"finish", "answer"}
     \/ /\ handlers[h].pc = "finish"
        /\ m = TransitionRequest(handlers[h].job, "RUNNING", Outcome(handlers[h].spec))
        /\ handler.pc = "answer"

Advances(h, m, r, handler) ==
  /\ HandlerRpc(h, m, r, handler)
  /\ \/ Dequeues(h, m, r, handler) \/ ClaimsJob(h, m, r, handler)
     \/ LooksUp(h, m, r, handler) \/ RecordsEnd(h, m, r, handler)

LEMMA RefusedFields ==
  ASSUME NEW handler \in HandlerRecord, NEW ok
  PROVE  /\ Refused(Answer(handler, FALSE))
         /\ Answer(handler, ok).pc = "answer" /\ Answer(handler, ok).ok = ok
         /\ Answer(handler, ok).job = handler.job /\ Answer(handler, ok).spec = handler.spec
BY DEF Answer, HandlerRecord, Refused

LEMMA CoordinatorAdvances ==
  ASSUME LifeInv, ClaimsOK, NEW h \in Handlers,
         \/ FetchDequeue(h) \/ FetchClaim(h) \/ FetchRescue(h) \/ FetchRead(h)
         \/ ReportStore(h) \/ ReportFinish(h)
  PROVE  \E m, r, handler : Advances(h, m, r, handler)
<1>1. handlers[h] \in HandlerRecord
  BY DEF LifeInv, Inv, HandlersOK
<1>2. CASE FetchDequeue(h)
  <2> DEFINE m == Request("DequeueJob", NoJob)
  <2>1. PICK r : HandlerRpc(h, m, r, AfterDequeue(handlers[h], r))
    BY <1>2, FetchDequeueRpc
  <2> DEFINE next == AfterDequeue(handlers[h], r)
  <2>2. m.rpc = "DequeueJob"
    BY RequestFields
  <2> HIDE DEF m
  <2>3. CASE r.code = "OK" /\ r.found
    <3>1. r = DequeueJobReply /\ Serve(m)
      BY <2>1, <2>2, <2>3 DEF HandlerRpc, Called, RpcError, ErrorReply, ReplyTo
    <3>2. queue # <<>> /\ r.job = Head(queue)
      BY <2>3, <3>1 DEF DequeueJobReply
    <3>3. next.job = r.job /\ next.pc = "claim"
      BY <1>1, <2>3 DEF AfterDequeue, HandlerRecord
    <3> HIDE DEF next
    <3>4. Dequeues(h, m, r, next)
      BY <1>2, <2>2, <3>1, <3>2, <3>3 DEF Dequeues, FetchDequeue
    <3> QED BY <2>1, <3>4 DEF Advances, next
  <2>4. CASE ~ (r.code = "OK" /\ r.found)
    <3>1. Refused(next)
      BY <1>1, <2>4, RefusedFields DEF AfterDequeue
    <3> HIDE DEF next
    <3>2. Dequeues(h, m, r, next)
      BY <1>2, <2>2, <3>1 DEF Dequeues, FetchDequeue
    <3> QED BY <2>1, <3>2 DEF Advances, next
  <2> QED BY <2>3, <2>4
<1>3. CASE FetchClaim(h)
  <2> DEFINE m == TransitionRequest(handlers[h].job, "QUEUED", "RUNNING")
  <2>1. PICK r : HandlerRpc(h, m, r, AfterClaim(handlers[h], r))
    BY <1>3, FetchClaimRpc
  <2> DEFINE next == AfterClaim(handlers[h], r)
  <2>2. next.job = handlers[h].job
    BY <1>1, HandlerKeepsJob
  <2>3. Refused(next) \/ next.pc = "recheck" \/ (next.pc = "read" /\ r.code = "OK" /\ r.applied)
    <3>1. CASE r.code # "OK"
      BY <1>1, <3>1, RefusedFields DEF AfterClaim
    <3>2. CASE r.code = "OK"
      BY <1>1, <3>2 DEF AfterClaim, HandlerRecord
    <3> QED BY <3>1, <3>2
  <2> HIDE DEF next
  <2>4. ClaimsJob(h, m, r, next)
    BY <1>3, <2>2, <2>3 DEF ClaimsJob, FetchClaim
  <2> QED BY <2>1, <2>4 DEF Advances, next
<1>4. CASE FetchRescue(h)
  <2>1. handlers[h].pc = "recheck" /\ Status(handlers[h].job) # "QUEUED"
    BY <1>4 DEF FetchRescue, ClaimsOK, RecheckOK
  <2> DEFINE m == Request("GetJobRecord", handlers[h].job)
  <2>2. PICK r : HandlerRpc(h, m, r, AfterRecheck(handlers[h], r))
    BY <1>4, <2>1, FetchRecheckRpc
  <2> DEFINE next == AfterRecheck(handlers[h], r)
  <2>3. m.rpc = "GetJobRecord" /\ m.job = handlers[h].job
    BY RequestFields
  <2> HIDE DEF m
  <2>4. ~ (r.code = "OK" /\ r.status = "QUEUED")
    <3>1. r.code = "OK" => r = ReplyTo(m)
      BY <2>2 DEF HandlerRpc, Called, RpcError, ErrorReply
    <3> QED BY <2>1, <2>3, <3>1 DEF ReplyTo, GetJobRecordReply, ErrorReply, Status
  <2>5. Refused(next)
    BY <1>1, <2>4, RefusedFields DEF AfterRecheck
  <2> HIDE DEF next
  <2>6. LooksUp(h, m, r, next)
    BY <2>1, <2>3, <2>5 DEF LooksUp, Refused
  <2> QED BY <2>2, <2>6 DEF Advances, next
<1>5. CASE FetchRead(h)
  <2> DEFINE m == Request("GetJobRecord", handlers[h].job)
  <2>1. PICK r : HandlerRpc(h, m, r, AfterRead(handlers[h], r))
    BY <1>5, FetchReadRpc
  <2> DEFINE next == AfterRead(handlers[h], r)
  <2>2. m.rpc = "GetJobRecord" /\ m.job = handlers[h].job
    BY RequestFields
  <2>3. /\ next.pc = "answer"
        /\ next.ok => next.job = handlers[h].job /\ r.code = "OK" /\ next.spec = r.spec
    BY <1>1 DEF AfterRead, Answer, HandlerRecord
  <2> HIDE DEF m, next
  <2>4. LooksUp(h, m, r, next)
    BY <1>5, <2>2, <2>3 DEF LooksUp, FetchRead
  <2> QED BY <2>1, <2>4 DEF Advances, next
<1>6. CASE ReportStore(h)
  <2> DEFINE m == StoreRequest(handlers[h].job, Outcome(handlers[h].spec), handlers[h].spec)
  <2>1. PICK r : HandlerRpc(h, m, r, AfterStore(handlers[h], r))
    BY <1>6, ReportStoreRpc
  <2> DEFINE next == AfterStore(handlers[h], r)
  <2>2. /\ next.job = handlers[h].job /\ next.spec = handlers[h].spec
        /\ next.pc \in {"finish", "answer"}
    BY <1>1 DEF AfterStore, Answer, HandlerRecord
  <2> HIDE DEF next
  <2>3. RecordsEnd(h, m, r, next)
    BY <1>6, <2>2 DEF RecordsEnd, ReportStore
  <2> QED BY <2>1, <2>3 DEF Advances, next
<1>7. CASE ReportFinish(h)
  <2> DEFINE m == TransitionRequest(handlers[h].job, "RUNNING", Outcome(handlers[h].spec))
  <2>1. PICK r : HandlerRpc(h, m, r, AfterFinish(handlers[h], r))
    BY <1>7, ReportFinishRpc
  <2> DEFINE next == AfterFinish(handlers[h], r)
  <2>2. next.job = handlers[h].job /\ next.spec = handlers[h].spec /\ next.pc = "answer"
    BY <1>1 DEF AfterFinish, Answer, HandlerRecord
  <2> HIDE DEF next
  <2>3. RecordsEnd(h, m, r, next)
    BY <1>7, <2>2 DEF RecordsEnd, ReportFinish
  <2> QED BY <2>1, <2>3 DEF Advances, next
<1> QED BY <1>2, <1>3, <1>4, <1>5, <1>6, <1>7

\* What a handler asks for.
LEMMA AdvancesRpc ==
  ASSUME NEW h, NEW m, NEW r, NEW handler, Advances(h, m, r, handler)
  PROVE  m.rpc \in {"DequeueJob", "TransitionJobStatus", "GetJobRecord", "StoreResult"}
BY DEF Advances, Dequeues, ClaimsJob, LooksUp, RecordsEnd, TransitionRequest, StoreRequest, Message
-----------------------------------------------------------------------------
(***************************************************************************)
(* The origins in the other steps, and the invariant.                      *)
(***************************************************************************)
LEMMA OriginsStay ==
  ASSUME FormInv, UNCHANGED <<calls, dedup, issued>>,
         \A f \in Faults : \/ late'[f] = late[f]
                           \/ late'[f].rpc \notin {"CreateJob", "DeleteJobIfStatus"}
  PROVE  CallForms' /\ Origins'
<1>1. CallForms'
  BY DEF FormInv, CallForms
<1>2. \A f \in Faults : late'[f].rpc = "CreateJob" => Owns(late[f].job, late[f].key)'
  BY DEF FormInv, Origins, Owns, Submits
<1>3. \A f \in Faults : late'[f].rpc = "DeleteJobIfStatus" => \E c \in Calls : GaveUp(c, late[f].job)'
  <2>1. ASSUME NEW f \in Faults, late'[f].rpc = "DeleteJobIfStatus"
        PROVE  \E c \in Calls : GaveUp(c, late[f].job)'
    <3>1. late'[f] = late[f]
      BY <2>1
    <3>2. PICK c \in Calls : GaveUp(c, late[f].job)
      BY <2>1, <3>1 DEF FormInv, Origins
    <3> QED BY <3>1, <3>2 DEF GaveUp, Submits
  <2> QED BY <2>1
<1>4. /\ \A c \in Calls : Shares(c)' => calls'[c].key # NoKey /\ Owns(calls[c].job, calls[c].key)'
      /\ \A i \in DOMAIN dedup' : Owns(dedup[i].job, dedup[i].key)'
      /\ \A j \in issued' : Submits(j)'
  BY DEF FormInv, Origins, Owns, Submits, Shares
<1> QED BY <1>1, <1>2, <1>3, <1>4 DEF Origins

\* The requests of the coordinator, and the failures of workers, name nothing
\* that is created or deleted.
LEMMA SpentRpc == Spent.rpc = "spent" /\ NoMessage.rpc = "none"
BY DEF Spent, NoMessage, Request, Message

LEMMA LoseOnly ==
  ASSUME LifeInv, NEW m, Lose(m), NEW f \in Faults
  PROVE  late'[f] = late[f] \/ late'[f] = m
<1>1. PICK g \in Faults : late' = [late EXCEPT ![g] = m]
  BY DEF Lose
<1> QED BY <1>1 DEF LifeInv, Inv, LateOK

LEMMA HandlersKeepOrigins ==
  ASSUME FormInv, NEW h \in Handlers, HandlerStep(h)
  PROVE  CallForms' /\ Origins'
<1>1. CASE DeliverAnswer(h)
  BY <1>1, OriginsStay DEF DeliverAnswer, WorkerUnchanged
<1>2. CASE ~ DeliverAnswer(h)
  <2>1. PICK m, r, handler : Advances(h, m, r, handler)
    BY <1>2, CoordinatorAdvances DEF HandlerStep, FormInv
  <2>2. m.rpc \notin {"CreateJob", "DeleteJobIfStatus"}
    BY <2>1, AdvancesRpc
  <2>3. Called(m, r) /\ UNCHANGED calls
    BY <2>1 DEF Advances, HandlerRpc
  <2>4. UNCHANGED <<dedup, issued>>
    BY <2>2, <2>3, ServedRpc DEF Called, stores
  <2>5. \A f \in Faults : late'[f] = late[f] \/ late'[f] = m
    BY <2>3, LateAfter DEF FormInv
  <2> QED BY <2>2, <2>3, <2>4, <2>5, OriginsStay
<1> QED BY <1>1, <1>2

LEMMA WorkersKeepOrigins ==
  ASSUME FormInv, NEW w \in Workers, WorkerStep(w) \/ Expire(w) \/ GiveUp(w) \/ Stop(w)
  PROVE  CallForms' /\ Origins'
<1>1. WorkerUnchanged /\ (UNCHANGED late \/ Lose(Spent))
  <2>1. CASE WorkerStep(w)
    BY <2>1 DEF WorkerStep, Heartbeat, Execute, FetchWork, ReportWorkOutcome, Open
  <2> QED BY <2>1 DEF Expire, GiveUp, Stop, UseFault
<1>2. \A f \in Faults : late'[f] = late[f] \/ late'[f] = Spent
  BY <1>1, LoseOnly DEF FormInv
<1> QED BY <1>1, <1>2, SpentRpc, OriginsStay DEF WorkerUnchanged

LEMMA LateKeepsOrigins ==
  ASSUME FormInv, NEW f \in Faults, ExecuteLate(f)
  PROVE  CallForms' /\ Origins'
<1> DEFINE m == late[f]
<1>1. Serve(m) /\ UNCHANGED calls /\ Sent(m)
  BY DEF ExecuteLate, FormInv, LifeInv, Inv, LateOK, NamesOK, Sent
<1>2. \A g \in Faults : late'[g] = late[g] \/ late'[g] = Spent
  BY DEF ExecuteLate, FormInv, LifeInv, Inv, LateOK
<1>3. CASE m.rpc # "CreateJob"
  <2>1. UNCHANGED <<dedup, issued>>
    BY <1>1, <1>3, ServedRpc
  <2> QED BY <1>1, <1>2, <2>1, SpentRpc, OriginsStay
<1>4. CASE m.rpc = "CreateJob"
  <2>1. Owns(m.job, m.key)
    BY <1>4 DEF FormInv, Origins
  <2>2. CreateJob(m.spec, m.key, m.job) /\ m.spec \in Specs /\ m.key \in AnyKey /\ m.job \in JobIds
    BY <1>1, <1>4, ServedRpc DEF Sent, GoodMessage, Messages, WriteRpcs
  <2> HIDE DEF m
  <2>3. /\ \A i \in DOMAIN dedup' :
             \/ \E k \in DOMAIN dedup : dedup'[i] = dedup[k]
             \/ dedup'[i].key = m.key /\ dedup'[i].job = m.job
        /\ issued' \subseteq issued \cup {m.job}
    BY <2>2, CreateEffect DEF FormInv
  <2>4. /\ CallForms'
        /\ \A c \in Calls : Shares(c)' => calls'[c].key # NoKey /\ Owns(calls[c].job, calls[c].key)'
    BY <1>1 DEF FormInv, CallForms, Origins, Owns, Submits, Shares
  <2>5. \A i \in DOMAIN dedup' : Owns(dedup[i].job, dedup[i].key)'
    BY <1>1, <2>1, <2>3 DEF FormInv, Origins, Owns, Submits
  <2>6. \A j \in issued' : Submits(j)'
    BY <1>1, <2>1, <2>3 DEF FormInv, Origins, Owns, Submits
  <2>7. \A g \in Faults : late'[g].rpc = "CreateJob" => Owns(late[g].job, late[g].key)'
    BY <1>1, <1>2, SpentRpc DEF FormInv, Origins, Owns, Submits
  <2>8. \A g \in Faults : late'[g].rpc = "DeleteJobIfStatus" => \E c \in Calls : GaveUp(c, late[g].job)'
    <3>1. ASSUME NEW g \in Faults, late'[g].rpc = "DeleteJobIfStatus"
          PROVE  \E c \in Calls : GaveUp(c, late[g].job)'
      <4>1. late'[g] = late[g]
        BY <1>2, <3>1, SpentRpc
      <4>2. PICK c \in Calls : GaveUp(c, late[g].job)
        BY <3>1, <4>1 DEF FormInv, Origins
      <4> QED BY <1>1, <4>1, <4>2 DEF GaveUp, Submits
    <3> QED BY <3>1
  <2> QED BY <2>4, <2>5, <2>6, <2>7, <2>8 DEF Origins
<1> QED BY <1>3, <1>4

LEMMA NextKeepsOrigins ==
  ASSUME FormInv, [Next]_vars
  PROVE  CallForms' /\ Origins'
<1>1. ASSUME NEW c \in Calls, SubmitJob(c) \/ CancelJob(c) \/ GetJobResult(c) \/ ContinueCall(c)
      PROVE  CallForms' /\ Origins'
  <2>1. PICK m, r, call : GatewayMoves(c, m, r, call)
    BY <1>1, GatewayIsAMove DEF FormInv
  <2> QED BY <2>1, GatewayKeepsOrigins
<1>2. CASE UNCHANGED vars
  BY <1>2, OriginsStay DEF vars
<1> QED BY <1>1, <1>2, HandlersKeepOrigins, WorkersKeepOrigins, LateKeepsOrigins DEF Next

LEMMA FormInvariant == Spec => []FormInv
<1>1. Init => CallForms /\ Origins
  <2>1. ASSUME Init
        PROVE  CallForms /\ Origins
    <3>1. \A c \in Calls : calls[c] = IdleCall
      BY <2>1 DEF Init
    <3>2. \A f \in Faults : late[f].rpc = "none"
      BY <2>1, SpentRpc DEF Init
    <3>3. DOMAIN dedup = {} /\ issued = {}
      BY <2>1, EmptySeq, LenProperties DEF Init, JobInit
    <3>4. \A c \in Calls : ~ Submits(c) /\ CallForm(calls[c])
      <4>1. IdleCall.pc = "idle" /\ IdleCall.op = "none" /\ IdleCall.code = "NONE"
        BY DEF IdleCall
      <4> QED BY <3>1, <4>1 DEF CallForm, Submits
    <3>5. \A c \in Calls : ~ Shares(c)
      BY <3>4 DEF Shares
    <3>6. CallForms
      BY <3>4 DEF CallForms
    <3>7. \A f \in Faults : late[f].rpc # "CreateJob" /\ late[f].rpc # "DeleteJobIfStatus"
      BY <3>2
    <3> QED BY <3>3, <3>5, <3>6, <3>7 DEF Origins
  <2> QED BY <2>1
<1>2. FormInv /\ ClaimInv' /\ [Next]_vars => (CallForms /\ Origins)'
  BY NextKeepsOrigins
<1>3. ClaimInv /\ CallForms /\ Origins => FormInv
  BY DEF ClaimInv, FormInv
<1> QED BY <1>1, <1>2, <1>3, ClaimInvariant, PTL DEF Spec
-----------------------------------------------------------------------------
(***************************************************************************)
(* One job per key.  An index that has room for every key forgets none, so *)
(* a call that got a job for its key finds that entry for ever.            *)
(***************************************************************************)
KeysFit == IsFiniteSet(Keys) /\ Cardinality(Keys) <= MaxDedupKeys

LEMMA RoomIsLeft ==
  ASSUME KeysFit, LifeInv, NEW key \in Keys, ~ Indexed(key)
  PROVE  Len(dedup) # MaxDedupKeys
<1>1. PICK len \in Nat : len = Len(dedup)
  BY LenProperties DEF LifeInv, Inv, StoresOK, JobTypeOK
<1>2. DOMAIN dedup = 1..len /\ \A i \in 1..len : dedup[i] \in DedupEntry
  BY <1>1, LenProperties, ElementOfSeq DEF LifeInv, Inv, StoresOK, JobTypeOK
<1>3. \A i, k \in 1..len : dedup[i].key = dedup[k].key => i = k
  BY <1>2 DEF LifeInv, DedupInv, DedupIsSound
<1>4. \A i \in 1..len : dedup[i].key \in Keys \ {key}
  BY <1>2 DEF Indexed, DedupEntry
<1> DEFINE f == [i \in 1..len |-> dedup[i].key]
<1>5. f \in Injection(1..len, Keys \ {key})
  <2>1. f \in [1..len -> Keys \ {key}]
    BY <1>4
  <2>2. \A i, k \in 1..len : f[i] = f[k] => i = k
    BY <1>3
  <2> QED BY <2>1, <2>2 DEF Injection, IsInjective
<1> HIDE DEF f
<1>6. IsFiniteSet(Keys \ {key}) /\ Cardinality(Keys \ {key}) = Cardinality(Keys) - 1
  BY FS_RemoveElement DEF KeysFit
<1>7. Cardinality(1..len) <= Cardinality(Keys \ {key})
  BY <1>5, <1>6, FS_Injection
<1>8. Cardinality(1..len) = len
  BY FS_Interval
<1>9. Cardinality(Keys) \in Nat /\ MaxDedupKeys \in Nat
  BY FS_CardinalityType, CapacityAssumption DEF KeysFit
<1>10. len <= Cardinality(Keys) - 1 /\ Cardinality(Keys) <= MaxDedupKeys
  BY <1>6, <1>7, <1>8 DEF KeysFit
<1> QED BY <1>1, <1>9, <1>10

LEMMA EntriesStay ==
  ASSUME KeysFit, LifeInv, [JobNext]_jobVars, NEW i \in DOMAIN dedup
  PROVE  \E k \in DOMAIN dedup' : dedup'[k] = dedup[i]
<1>1. dedup \in Seq(DedupEntry) /\ Len(dedup) <= MaxDedupKeys
  BY DEF LifeInv, DedupInv, DedupIsSound, JobInv, JobTypeOK
<1>2. IndexStep
  BY EveryStepIsAnIndexStep DEF LifeInv, DedupInv
<1>3. CASE UNCHANGED dedup
  BY <1>3
<1>4. ASSUME NEW key, Used(key)
      PROVE  \E k \in DOMAIN dedup' : dedup'[k] = dedup[i]
  BY <1>1, <1>4, TouchKeepsEntries DEF Used
<1>5. ASSUME NEW entry, Added(entry)
      PROVE  \E k \in DOMAIN dedup' : dedup'[k] = dedup[i]
  <2>1. entry \in DedupEntry /\ entry.key \in Keys /\ ~ Indexed(entry.key)
    BY <1>5 DEF Added, DedupEntry
  <2>2. Len(dedup) # MaxDedupKeys
    BY <2>1, RoomIsLeft
  <2> QED BY <1>1, <1>5, <2>1, <2>2, AddEvictsTheFirst DEF Added
<1> QED BY <1>2, <1>3, <1>4, <1>5 DEF IndexStep

\* The entry that is added is there: it is the last one.
LEMMA AddedIsThere ==
  ASSUME dedup \in Seq(DedupEntry), NEW entry \in DedupEntry
  PROVE  LET next == Evict(Append(dedup, entry)) IN \E k \in DOMAIN next : next[k] = entry
<1> DEFINE s == Append(dedup, entry)
           next == Evict(s)
<1>1. PICK len \in Nat, cap \in Nat \ {0} : len = Len(dedup) /\ cap = MaxDedupKeys
  BY LenProperties, CapacityAssumption
<1>2. s \in Seq(DedupEntry) /\ Len(s) = len + 1 /\ s[len + 1] = entry
  BY <1>1, AppendProperties
<1>3. PICK n \in Nat : n = Len(next)
  BY <1>2, EvictType, LenProperties
<1>4. DOMAIN next = 1..n
  BY <1>2, <1>3, EvictType, LenProperties
<1>5. n = (IF len + 1 > cap THEN cap ELSE len + 1)
  BY <1>1, <1>2, <1>3, EvictProperties
<1>6. \A k \in 1..n : next[k] = s[k + (len + 1 - n)]
  <2>1. \A k \in 1..Len(next) : next[k] = s[k + (Len(s) - Len(next))]
    BY <1>2, EvictProperties
  <2> HIDE DEF s, next
  <2> QED BY <1>2, <1>3, <2>1
<1> HIDE DEF s, next
<1>7. n \in 1..n /\ n + (len + 1 - n) = len + 1
  BY <1>1, <1>5
<1>8. next[n] = entry
  BY <1>2, <1>6, <1>7
<1> QED BY <1>4, <1>7, <1>8 DEF next, s

\* The index has call c's job under its key.
KeyKept(c) ==
  Submits(c) /\ calls[c].key # NoKey /\ calls[c].job # NoJob
    => \E i \in DOMAIN dedup : dedup[i].key = calls[c].key /\ dedup[i].job = calls[c].job

KeysKept == \A c \in Calls : KeyKept(c)

LEMMA KeyStays ==
  ASSUME KeysFit, LifeInv, KeysKept, [JobNext]_jobVars, NEW c \in Calls,
         calls'[c].op = calls[c].op /\ calls'[c].key = calls[c].key /\ calls'[c].job = calls[c].job
  PROVE  KeyKept(c)'
<1>1. CASE ~ (Submits(c) /\ calls[c].key # NoKey /\ calls[c].job # NoJob)
  BY <1>1 DEF KeyKept, Submits
<1>2. CASE Submits(c) /\ calls[c].key # NoKey /\ calls[c].job # NoJob
  <2>1. PICK i \in DOMAIN dedup : dedup[i].key = calls[c].key /\ dedup[i].job = calls[c].job
    BY <1>2 DEF KeysKept, KeyKept
  <2>2. PICK k \in DOMAIN dedup' : dedup'[k] = dedup[i]
    BY EntriesStay
  <2> QED BY <2>1, <2>2 DEF KeyKept
<1> QED BY <1>1, <1>2

\* A call that submits finds the entry it leaves, or used.
LEMMA BeginsFindsTheEntry ==
  ASSUME KeysFit, FormInv, [JobNext]_jobVars, NEW c \in Calls, NEW m, NEW r, NEW call,
         GatewayMoves(c, m, r, call), Begins(c, m, r, call), r.code = "OK", m.key # NoKey
  PROVE  \E i \in DOMAIN dedup' : dedup'[i].key = m.key /\ dedup'[i].job = r.job
<1>1. Sent(m) /\ Called(m, r) /\ m.rpc = "CreateJob" /\ m.job = c
  BY DEF GatewayMoves, CallStep, Begins
<1>2. m.spec \in Specs /\ m.key \in Keys /\ m.job \in JobIds
  BY <1>1 DEF Sent, GoodMessage, Messages, WriteRpcs, AnyKey
<1>3. dedup \in Seq(DedupEntry)
  BY DEF FormInv, LifeInv, Inv, StoresOK, JobTypeOK
<1>4. CreateJob(m.spec, m.key, m.job)
  BY <1>1, CreateAnswer DEF FormInv
<1>5. CASE Indexed(m.key)
  <2>1. r.job = EntryOf(m.key).job
    BY <1>1, <1>5, CreateAnswer DEF FormInv
  <2>2. PICK i \in DOMAIN dedup : EntryOf(m.key) = dedup[i] /\ dedup[i].key = m.key
    BY <1>5 DEF Indexed, EntryOf, IndexOf
  <2>3. PICK k \in DOMAIN dedup' : dedup'[k] = dedup[i]
    BY EntriesStay DEF FormInv
  <2> QED BY <2>1, <2>2, <2>3
<1>6. CASE ~ Indexed(m.key)
  <2> DEFINE entry == [key |-> m.key, spec |-> m.spec, job |-> m.job]
  <2>1. entry \in DedupEntry /\ entry.key = m.key /\ entry.job = m.job
    BY <1>2 DEF DedupEntry
  <2>2. dedup' = Evict(Append(dedup, entry))
    BY <1>4, <1>6 DEF CreateJob
  <2>3. r.job = m.job
    BY <1>1, <1>6, CreateAnswer DEF FormInv
  <2> HIDE DEF entry
  <2> QED BY <1>3, <2>1, <2>2, <2>3, AddedIsThere
<1> QED BY <1>5, <1>6

LEMMA NextKeepsKeys ==
  ASSUME KeysFit, FormInv, KeysKept, [Next]_vars
  PROVE  KeysKept'
<1>1. [JobNext]_jobVars
  BY NextIsOK DEF StepOK, ServiceSteps, FormInv
<1>2. ASSUME NEW c \in Calls, SubmitJob(c) \/ CancelJob(c) \/ GetJobResult(c) \/ ContinueCall(c)
      PROVE  KeysKept'
  <2>1. PICK m, r, call : GatewayMoves(c, m, r, call)
    BY <1>2, GatewayIsAMove DEF FormInv
  <2>2. calls'[c] = call /\ \A d \in Calls : d # c => calls'[d] = calls[d]
    BY <2>1, OwnsStays
  <2>3. KeyKept(c)'
    <3>1. CASE Begins(c, m, r, call)
      <4>1. CASE r.code = "OK"
        <5>1. calls'[c].key = m.key /\ calls'[c].job = r.job
          BY <2>2, <3>1, <4>1 DEF Begins
        <5>2. CASE m.key = NoKey
          BY <5>1, <5>2 DEF KeyKept
        <5>3. CASE m.key # NoKey
          BY <1>1, <2>1, <3>1, <4>1, <5>1, <5>3, BeginsFindsTheEntry DEF KeyKept
        <5> QED BY <5>2, <5>3
      <4>2. CASE r.code # "OK"
        BY <2>2, <3>1, <4>2 DEF Begins, KeyKept
      <4> QED BY <4>1, <4>2
    <3>2. CASE Looks(c, m, r, call)
      BY <2>2, <3>2 DEF Looks, KeyKept, Submits
    <3>3. CASE Goes(c, m, r, call)
      BY <1>1, <2>2, <3>3, KeyStays DEF Goes, FormInv
    <3> QED BY <2>1, <3>1, <3>2, <3>3 DEF GatewayMoves
  <2>4. \A d \in Calls : d # c => KeyKept(d)'
    BY <1>1, <2>2, KeyStays DEF FormInv
  <2> QED BY <2>3, <2>4 DEF KeysKept
<1>3. CASE UNCHANGED calls
  BY <1>1, <1>3, KeyStays DEF FormInv, KeysKept
<1>4. ASSUME NEW h \in Handlers, HandlerStep(h)
      PROVE  UNCHANGED calls
  BY <1>4 DEF HandlerStep, FetchDequeue, FetchClaim, FetchRescue, FetchRead, ReportStore,
              ReportFinish, DeliverAnswer, HandlerCall, WorkerUnchanged
<1>5. ASSUME NEW w \in Workers, WorkerStep(w) \/ Expire(w) \/ GiveUp(w) \/ Stop(w)
      PROVE  UNCHANGED calls
  BY <1>5 DEF WorkerStep, Heartbeat, Execute, FetchWork, ReportWorkOutcome, Open, Expire, GiveUp,
              Stop, WorkerUnchanged
<1> QED BY <1>2, <1>3, <1>4, <1>5 DEF Next, ExecuteLate, vars

\* Accepted submissions under one key name one job, as long as the index has
\* room for the keys in use: no failure, late request, rollback or repetition
\* makes a second job for a key.  (An evicted key may get a second job.)
THEOREM RepeatsGetOneJob ==
  ASSUME IsFiniteSet(Keys), Cardinality(Keys) <= MaxDedupKeys
  PROVE  Spec => []OneJobPerKey
<1>1. KeysFit
  BY DEF KeysFit
<1>2. Init => KeysKept
  BY DEF Init, IdleCall, KeysKept, KeyKept, Submits
<1>3. FormInv /\ KeysKept /\ [Next]_vars => KeysKept'
  BY <1>1, NextKeepsKeys
<1>4. FormInv /\ KeysKept => OneJobPerKey
  <2> SUFFICES ASSUME FormInv, KeysKept, NEW c \in Calls, NEW d \in Calls,
                      Accepted(c), Accepted(d), calls[c].key = calls[d].key, calls[c].key # NoKey
               PROVE  calls[c].job = calls[d].job
    BY DEF OneJobPerKey
  <2>1. calls[c].job # NoJob /\ calls[d].job # NoJob
    BY NullsAssumption DEF Accepted, FormInv, CallForms, CallForm
  <2>2. PICK i \in DOMAIN dedup : dedup[i].key = calls[c].key /\ dedup[i].job = calls[c].job
    BY <2>1 DEF KeysKept, KeyKept, Accepted, Submits
  <2>3. PICK k \in DOMAIN dedup : dedup[k].key = calls[d].key /\ dedup[k].job = calls[d].job
    BY <2>1 DEF KeysKept, KeyKept, Accepted, Submits
  <2>4. i = k
    BY <2>2, <2>3 DEF FormInv, LifeInv, DedupInv, DedupIsSound
  <2> QED BY <2>2, <2>3, <2>4
<1> QED BY <1>2, <1>3, <1>4, FormInvariant, PTL DEF Spec
-----------------------------------------------------------------------------
(***************************************************************************)
(* An accepted job whose submission was not repeated keeps its record: the *)
(* only call that could roll it back is the one that was told it is in.    *)
(***************************************************************************)
\* No request but its deletion takes a record away.
LEMMA KnownStays ==
  ASSUME LifeInv, NEW m, Sent(m), Serve(m), NEW j \in JobIds, Known(j),
         m.rpc # "DeleteJobIfStatus" \/ m.job # j
  PROVE  Known(j)'
<1>1. jobs \in [JobIds -> JobRecord \cup {NoRecord}] /\ jobs[j] \in JobRecord
  BY KnownRecord DEF LifeInv, Inv, StoresOK, JobTypeOK
<1>2. m.job \in AnyJob /\ m.to \in AnyStatus /\ m \in Messages
  BY DEF Sent, GoodMessage, Messages
<1>3. CASE UNCHANGED jobs
  BY <1>3 DEF Known
<1>4. CASE m.rpc = "CreateJob"
  <2>1. jobs' = [jobs EXCEPT ![m.job] = NewRecord(m.spec)] \/ UNCHANGED jobs
    BY <1>4, ServedRpc DEF CreateJob
  <2>2. NewRecord(m.spec).status # UNSPECIFIED
    BY DEF NewRecord, UNSPECIFIED
  <2> QED BY <1>1, <1>3, <2>1, <2>2 DEF Known
<1>5. CASE m.rpc = "DeleteJobIfStatus"
  <2>1. jobs' = [jobs EXCEPT ![m.job] = NoRecord] \/ UNCHANGED jobs
    BY <1>5, ServedRpc DEF DeleteJobIfStatus
  <2> QED BY <1>1, <1>3, <1>5, <2>1 DEF Known
<1>6. CASE m.rpc = "TransitionJobStatus"
  <2>1. PICK now \in Times : TransitionJobStatus(m.job, m.from, m.to, now)
    BY <1>6, ServedRpc
  <2>2. CASE m.job = j /\ Matches(m.job, m.from, m.to)
    <3>1. jobs' = [jobs EXCEPT ![m.job] = Transitioned(@, m.to, now)] \/ UNCHANGED jobs
      BY <2>1 DEF TransitionJobStatus
    <3>2. Transitioned(jobs[j], m.to, now).status = m.to
      BY <1>1 DEF Transitioned, JobRecord
    <3>3. m.to # UNSPECIFIED
      BY <2>2 DEF Matches
    <3> QED BY <1>1, <1>3, <2>2, <3>1, <3>2, <3>3 DEF Known
  <2>3. CASE ~ (m.job = j /\ Matches(m.job, m.from, m.to))
    <3>1. jobs'[j] = jobs[j]
      BY <1>1, <2>1, <2>3 DEF TransitionJobStatus
    <3> QED BY <3>1 DEF Known
  <2> QED BY <2>2, <2>3
<1>7. CASE m.rpc = "SetCancelRequested"
  <2>1. jobs' = [jobs EXCEPT ![m.job].cancel_requested = TRUE] \/ UNCHANGED jobs
    BY <1>7, ServedRpc DEF SetCancelRequested
  <2>2. jobs'[j].status = jobs[j].status
    BY <1>1, <2>1 DEF JobRecord
  <2> QED BY <2>2 DEF Known
<1>8. m.rpc \in {"CreateJob", "DeleteJobIfStatus", "TransitionJobStatus", "SetCancelRequested"}
        \/ UNCHANGED jobs
  BY DEF Serve, ServeJob, stores
<1> QED BY <1>3, <1>4, <1>5, <1>6, <1>7, <1>8

LEMMA CalledKnown ==
  ASSUME LifeInv, NEW m, NEW r, Sent(m), Called(m, r), NEW j \in JobIds, Known(j),
         m.rpc # "DeleteJobIfStatus" \/ m.job # j
  PROVE  Known(j)'
<1>1. CASE Serve(m)
  BY <1>1, KnownStays
<1>2. CASE UNCHANGED stores
  BY <1>2 DEF stores, Known
<1> QED BY <1>1, <1>2 DEF Called

\* The job of a sole submission is the one that was created for it.
LEMMA SoleIsOwner ==
  ASSUME FormInv, NEW c \in Calls, Submits(c), calls[c].job \in JobIds,
         SoleSubmission(calls[c].job)
  PROVE  calls[c].job = c
<1> SUFFICES ASSUME calls[c].job # c PROVE FALSE
  OBVIOUS
<1>1. Shares(c)
  BY NullsAssumption DEF Shares
<1>2. calls[c].key # NoKey /\ Owns(calls[c].job, calls[c].key)
  BY <1>1 DEF FormInv, Origins
<1> QED BY <1>2 DEF Owns, Submits, SoleSubmission

\* A submission that was sole is not sole any more when it is repeated, and
\* never becomes sole again.
LEMMA SoleBefore ==
  ASSUME FormInv, NEW c \in Calls, NEW m, NEW r, NEW call, GatewayMoves(c, m, r, call),
         NEW j \in Calls, SoleSubmission(j)'
  PROVE  SoleSubmission(j)
<1>1. calls'[c] = call /\ \A d \in Calls : d # c => calls'[d] = calls[d]
  BY OwnsStays
<1>2. IdleCall.key = NoKey /\ IdleCall.op = "none"
  BY DEF IdleCall
<1>3. CASE calls[c] = IdleCall
  <2>1. CASE j = c
    BY <1>2, <1>3, <2>1 DEF SoleSubmission
  <2>2. CASE j # c
    BY <1>1, <1>2, <1>3, <2>2 DEF SoleSubmission
  <2> QED BY <2>1, <2>2
<1>4. CASE calls[c] # IdleCall
  <2>1. call.op = calls[c].op /\ call.key = calls[c].key
    BY <1>4 DEF GatewayMoves, Begins, Looks, Goes
  <2> QED BY <1>1, <2>1 DEF SoleSubmission
<1> QED BY <1>3, <1>4

\* Call c's submission is, or will be, accepted, unless it is rolled back.
Entered(c) == Submits(c) /\ (calls[c].pc = "enqueue" \/ calls[c].code = "OK")

SoleKept == \A c \in Calls : Entered(c) /\ SoleSubmission(calls[c].job) => Known(calls[c].job)

LEMMA EnteredIsNamed ==
  ASSUME FormInv, NEW c \in Calls, Entered(c)
  PROVE  calls[c].job \in JobIds
BY CallIsNamed DEF FormInv, Entered, CallForms, CallForm, Submits

LEMMA GatewayKeepsSole ==
  ASSUME FormInv, SoleKept, NEW c \in Calls, NEW m, NEW r, NEW call, GatewayMoves(c, m, r, call)
  PROVE  SoleKept'
<1>1. calls'[c] = call /\ \A d \in Calls : d # c => calls'[d] = calls[d]
  BY OwnsStays
<1>2. Sent(m) /\ Called(m, r)
  BY DEF GatewayMoves, CallStep
<1>3. ASSUME NEW d \in Calls, d # c, NEW j, j = calls[d].job, Entered(d), SoleSubmission(j)'
      PROVE  Known(j)'
  <2>1. j \in JobIds /\ j \in Calls
    BY <1>3, EnteredIsNamed DEF Calls
  <2>2. SoleSubmission(j)
    BY <1>3, <2>1, SoleBefore
  <2>3. Known(j)
    BY <1>3, <2>2 DEF SoleKept
  <2>4. d = j
    BY <1>3, <2>1, <2>2, SoleIsOwner DEF Entered
  <2>5. m.rpc # "DeleteJobIfStatus" \/ m.job # j
    <3> SUFFICES ASSUME m.rpc = "DeleteJobIfStatus", m.job = j PROVE FALSE
      OBVIOUS
    <3>1. calls[c].pc = "compensate" /\ calls[c].job = j
      BY DEF GatewayMoves, Begins, Looks, Goes, ReadRpcs
    <3>2. Submits(c)
      BY <3>1 DEF FormInv, CallForms, CallForm, Submits
    <3>3. c = j
      BY <2>1, <2>2, <3>1, <3>2, SoleIsOwner
    <3> QED BY <1>3, <2>4, <3>3
  <2> QED BY <1>2, <2>1, <2>3, <2>5, CalledKnown DEF FormInv
<1>4. ASSUME Entered(c)', NEW j, j = call.job, SoleSubmission(j)'
      PROVE  Known(j)'
  <2>1. call.op = "submit" /\ (call.pc = "enqueue" \/ call.code = "OK")
    BY <1>1, <1>4 DEF Entered, Submits
  <2>2. CASE Begins(c, m, r, call)
    <3>1. r.code = "OK" /\ j = r.job /\ m.rpc = "CreateJob"
      BY <1>4, <2>1, <2>2 DEF Begins
    <3>2. m.job \in JobIds /\ jobs \in [JobIds -> JobRecord \cup {NoRecord}]
      BY <2>2 DEF Begins, Calls, FormInv, LifeInv, Inv, StoresOK, JobTypeOK
    <3>3. CASE jobs' = [jobs EXCEPT ![m.job] = NewRecord(m.spec)] /\ r.job = m.job
      BY <3>1, <3>2, <3>3 DEF NewRecord, Known, UNSPECIFIED
    <3>4. CASE UNCHANGED jobs /\ Known(r.job)
      BY <3>1, <3>4 DEF Known
    <3> QED BY <1>2, <3>1, <3>3, <3>4, CreateAnswer DEF FormInv
  <2>3. CASE Looks(c, m, r, call)
    BY <2>1, <2>3 DEF Looks
  <2>4. CASE Goes(c, m, r, call)
    <3>1. calls[c].pc = "enqueue" /\ m.rpc = "EnqueueJob" /\ calls[c].job = j /\ Submits(c)
      BY <1>4, <2>1, <2>4 DEF Goes, Submits
    <3>2. j \in JobIds /\ j \in Calls
      BY <3>1, EnteredIsNamed DEF Calls, Entered
    <3>3. Known(j)
      BY <1>4, <3>1, <3>2, SoleBefore DEF SoleKept, Entered
    <3> QED BY <1>2, <3>1, <3>2, <3>3, CalledKnown DEF FormInv
  <2> QED BY <2>2, <2>3, <2>4 DEF GatewayMoves
<1> SUFFICES ASSUME NEW d \in Calls, Entered(d)', NEW j, j = calls'[d].job, SoleSubmission(j)'
             PROVE  Known(j)'
  BY DEF SoleKept
<1>5. CASE d = c
  BY <1>1, <1>4, <1>5
<1>6. CASE d # c
  BY <1>1, <1>3, <1>6 DEF Entered, Submits
<1> QED BY <1>5, <1>6

LEMMA SoleStays ==
  ASSUME FormInv, SoleKept, UNCHANGED calls,
         \A j \in JobIds : Known(j) => Known(j)' \/ \E e \in Calls : GaveUp(e, j)
  PROVE  SoleKept'
<1> SUFFICES ASSUME NEW d \in Calls, Entered(d), NEW j, j = calls[d].job, SoleSubmission(j)
             PROVE  Known(j)'
  BY DEF SoleKept, Entered, Submits, SoleSubmission
<1>1. j \in JobIds /\ d = j
  BY EnteredIsNamed, SoleIsOwner DEF Entered
<1>2. Known(j)
  BY DEF SoleKept
<1>3. ASSUME NEW e \in Calls, GaveUp(e, j)
      PROVE  FALSE
  <2>1. e = j
    BY <1>1, <1>3, SoleIsOwner DEF GaveUp
  <2> QED BY <1>1, <1>3, <2>1 DEF GaveUp, Entered
<1> QED BY <1>1, <1>2, <1>3

LEMMA NextKeepsSole ==
  ASSUME FormInv, SoleKept, [Next]_vars
  PROVE  SoleKept'
<1>1. ASSUME NEW c \in Calls, SubmitJob(c) \/ CancelJob(c) \/ GetJobResult(c) \/ ContinueCall(c)
      PROVE  SoleKept'
  BY <1>1, GatewayIsAMove, GatewayKeepsSole DEF FormInv
<1>2. ASSUME NEW h \in Handlers, HandlerStep(h)
      PROVE  SoleKept'
  <2>1. CASE DeliverAnswer(h)
    BY <2>1, SoleStays DEF DeliverAnswer, WorkerUnchanged, Known
  <2>2. CASE ~ DeliverAnswer(h)
    <3>1. PICK m, r, handler : Advances(h, m, r, handler)
      BY <1>2, <2>2, CoordinatorAdvances DEF HandlerStep, FormInv
    <3>2. m.rpc # "DeleteJobIfStatus" /\ Called(m, r) /\ Sent(m) /\ UNCHANGED calls
      BY <3>1, AdvancesRpc DEF Advances, HandlerRpc
    <3> QED BY <3>2, CalledKnown, SoleStays DEF FormInv
  <2> QED BY <2>1, <2>2
<1>3. ASSUME NEW w \in Workers, WorkerStep(w) \/ Expire(w) \/ GiveUp(w) \/ Stop(w)
      PROVE  SoleKept'
  <2>1. WorkerUnchanged
    BY <1>3 DEF WorkerStep, Heartbeat, Execute, FetchWork, ReportWorkOutcome, Open, Expire, GiveUp, Stop
  <2> QED BY <2>1, SoleStays DEF WorkerUnchanged, Known
<1>4. ASSUME NEW f \in Faults, ExecuteLate(f)
      PROVE  SoleKept'
  <2>1. Serve(late[f]) /\ UNCHANGED calls /\ Sent(late[f])
    BY <1>4 DEF ExecuteLate, FormInv, LifeInv, Inv, LateOK, NamesOK, Sent
  <2>2. ASSUME NEW j \in JobIds, Known(j)
        PROVE  Known(j)' \/ \E e \in Calls : GaveUp(e, j)
    <3>1. CASE late[f].rpc # "DeleteJobIfStatus" \/ late[f].job # j
      BY <2>1, <2>2, <3>1, KnownStays DEF FormInv
    <3>2. CASE late[f].rpc = "DeleteJobIfStatus" /\ late[f].job = j
      BY <3>2 DEF FormInv, Origins
    <3> QED BY <3>1, <3>2
  <2> QED BY <2>1, <2>2, SoleStays
<1>5. CASE UNCHANGED vars
  BY <1>5, SoleStays DEF vars, Known
<1> QED BY <1>1, <1>2, <1>3, <1>4, <1>5 DEF Next

\* The record of a job whose submission was accepted, and under whose key no
\* other call submitted, is never deleted, whatever is lost or comes late.
THEOREM SoleAcceptedJobsAreKept == Spec => []SoleAcceptedJobIsKept
<1>1. Init => SoleKept
  <2>1. IdleCall.op = "none"
    BY DEF IdleCall
  <2> QED BY <2>1 DEF Init, SoleKept, Entered, Submits
<1>2. FormInv /\ SoleKept /\ [Next]_vars => SoleKept'
  BY NextKeepsSole
<1>3. SoleKept => SoleAcceptedJobIsKept
  BY DEF SoleKept, SoleAcceptedJobIsKept, Entered, Submits, Accepted
<1> QED BY <1>1, <1>2, <1>3, FormInvariant, PTL DEF Spec
-----------------------------------------------------------------------------
(***************************************************************************)
(* What a served request changes of one job.                               *)
(***************************************************************************)
LEMMA ServeMoves ==
  ASSUME LifeInv, NEW m, Sent(m), Serve(m), NEW j \in JobIds
  PROVE  /\ \/ jobs'[j].status \in {jobs[j].status, UNSPECIFIED, "QUEUED"}
            \/ m.rpc = "TransitionJobStatus" /\ m.job = j /\ jobs'[j].status = m.to
                 /\ jobs[j].status = m.from
         /\ \/ results'[j] = results[j]
            \/ m.rpc = "StoreResult" /\ m.job = j /\ results'[j] = m.to
         /\ Queued(j)' => Queued(j) \/ (m.rpc = "EnqueueJob" /\ m.job = j)
<1>1. /\ jobs \in [JobIds -> JobRecord \cup {NoRecord}] /\ results \in [JobIds -> TerminalStatuses \cup {NoEnvelope}]
      /\ QueueInv
  BY DEF LifeInv, Inv, StoresOK, JobTypeOK, ResultTypeOK
<1>2. \/ jobs'[j].status \in {jobs[j].status, UNSPECIFIED, "QUEUED"}
      \/ m.rpc = "TransitionJobStatus" /\ m.job = j /\ jobs'[j].status = m.to
           /\ jobs[j].status = m.from
  <2>1. CASE UNCHANGED jobs
    BY <2>1
  <2>2. CASE m.rpc = "CreateJob"
    <3>1. jobs' = [jobs EXCEPT ![m.job] = NewRecord(m.spec)] \/ UNCHANGED jobs
      BY <2>2, ServedRpc DEF CreateJob
    <3>2. NewRecord(m.spec).status = "QUEUED"
      BY DEF NewRecord
    <3> QED BY <1>1, <2>1, <3>1, <3>2
  <2>3. CASE m.rpc = "DeleteJobIfStatus"
    <3>1. jobs' = [jobs EXCEPT ![m.job] = NoRecord] \/ UNCHANGED jobs
      BY <2>3, ServedRpc DEF DeleteJobIfStatus
    <3>2. NoRecord.status = UNSPECIFIED
      BY DEF NoRecord
    <3> QED BY <1>1, <2>1, <3>1, <3>2
  <2>4. CASE m.rpc = "TransitionJobStatus"
    <3>1. PICK now \in Times : TransitionJobStatus(m.job, m.from, m.to, now)
      BY <2>4, ServedRpc
    <3>2. CASE m.job = j /\ Matches(m.job, m.from, m.to) /\ ~ UNCHANGED jobs
      <4>1. jobs' = [jobs EXCEPT ![m.job] = Transitioned(@, m.to, now)]
        BY <3>1, <3>2 DEF TransitionJobStatus
      <4>2. jobs[j] \in JobRecord
        BY <1>1, <3>2, KnownRecord DEF Matches, LifeInv, Inv, StoresOK
      <4>3. Transitioned(jobs[j], m.to, now).status = m.to
        BY <4>2 DEF Transitioned, JobRecord
      <4>4. jobs'[j] = Transitioned(jobs[j], m.to, now)
        BY <1>1, <3>2, <4>1
      <4> QED BY <2>4, <3>2, <4>3, <4>4 DEF Matches
    <3>3. CASE ~ (m.job = j /\ Matches(m.job, m.from, m.to) /\ ~ UNCHANGED jobs)
      <4>1. jobs'[j] = jobs[j]
        BY <1>1, <3>1, <3>3 DEF TransitionJobStatus
      <4> QED BY <4>1
    <3> QED BY <3>2, <3>3
  <2>5. CASE m.rpc = "SetCancelRequested"
    <3>1. \/ UNCHANGED jobs
          \/ Known(m.job) /\ jobs' = [jobs EXCEPT ![m.job].cancel_requested = TRUE]
      BY <2>5, ServedRpc DEF SetCancelRequested
    <3>2. jobs'[j].status = jobs[j].status
      BY <1>1, <3>1, KnownRecord DEF JobRecord, LifeInv, Inv, StoresOK
    <3> QED BY <3>2
  <2>6. m.rpc \in {"CreateJob", "DeleteJobIfStatus", "TransitionJobStatus", "SetCancelRequested"}
          \/ UNCHANGED jobs
    BY DEF Serve, ServeJob, stores
  <2> QED BY <2>1, <2>2, <2>3, <2>4, <2>5, <2>6
<1>3. \/ results'[j] = results[j]
      \/ m.rpc = "StoreResult" /\ m.job = j /\ results'[j] = m.to
  <2>1. CASE m.rpc = "StoreResult"
    <3>1. StoreResult(m.job, m.to, m.spec \in BigSpecs)
      BY <2>1, ServedRpc
    <3>2. results' = [results EXCEPT ![m.job] = m.to] \/ UNCHANGED results
      BY <3>1 DEF StoreResult
    <3> QED BY <1>1, <2>1, <3>2
  <2>2. CASE m.rpc # "StoreResult"
    BY <2>2, ServedRpc
  <2> QED BY <2>1, <2>2
<1>4. Queued(j)' => Queued(j) \/ (m.rpc = "EnqueueJob" /\ m.job = j)
  <2>1. m.rpc \in {"EnqueueJob", "RemoveJobIfPresent"} => m.job \in JobIds
    BY DEF Sent, GoodMessage, WriteRpcs
  <2>2. CASE m.rpc = "EnqueueJob"
    BY <1>1, <2>1, <2>2, ServedRpc, EnqueueEffect DEF QueueInv
  <2>3. CASE m.rpc = "DequeueJob"
    <3>1. UNCHANGED queue \/ \A k : Queued(k)' <=> Queued(k) /\ k # Head(queue)
      BY <1>1, <2>3, ServedRpc, DequeueEffect
    <3> QED BY <3>1 DEF Queued
  <2>4. CASE m.rpc = "RemoveJobIfPresent"
    <3>1. Queued(j)' <=> Queued(j) /\ j # m.job
      BY <1>1, <2>1, <2>4, ServedRpc, RemoveEffect
    <3> QED BY <3>1
  <2>5. CASE m.rpc \notin QueueRpcs
    BY <2>5, ServedRpc DEF Queued
  <2> QED BY <2>2, <2>3, <2>4, <2>5 DEF QueueRpcs
<1> QED BY <1>2, <1>3, <1>4
-----------------------------------------------------------------------------
(***************************************************************************)
(* How a run ends: everything that reports, or has reported, DONE or       *)
(* FAILED for a job knows the spec that the job was created with.          *)
(***************************************************************************)
Reported(j, spec) == ~ Unclaimed(j) /\ spec = jobs[j].spec

\* st is how the run of j, which was claimed, ends.
EndOf(j, st) == ~ Unclaimed(j) /\ st = Outcome(jobs[j].spec)

Listened(h) == \E w \in Workers : workers[w].pc = "fetching" /\ workers[w].via = h

\* Handler h serves a report, or answers a FetchWork that somebody waits for.
Tells(h) ==
  \/ handlers[h].pc \in ReportPcs
  \/ handlers[h].pc = "answer" /\ handlers[h].ok /\ Listened(h)

HandlerTells(h) == Tells(h) => Reported(handlers[h].job, handlers[h].spec)

WorkerTells(w) ==
  workers[w].pc \in {"executing", "reporting", "waiting"}
    => Reported(workers[w].job, workers[w].spec)

RequestTells(m) ==
  m.rpc \in {"StoreResult", "TransitionJobStatus"} /\ m.to \in {"DONE", "FAILED"}
    => EndOf(m.job, m.to)

StoresTell(j) ==
  /\ Status(j) \in {"DONE", "FAILED"} => EndOf(j, Status(j))
  /\ results[j] \in {"DONE", "FAILED"} => EndOf(j, results[j])
  /\ results[j] # NoEnvelope => j \in issued

OutcomesOK ==
  /\ \A h \in Handlers : HandlerTells(h)
  /\ \A w \in Workers : WorkerTells(w)
  /\ \A f \in Faults : RequestTells(late[f])
  /\ \A j \in JobIds : StoresTell(j)

LEMMA ReportedStays ==
  ASSUME LifeInv, StepOK, NEW j \in JobIds, ~ Unclaimed(j)
  PROVE  jobs'[j].spec = jobs[j].spec /\ ~ Unclaimed(j)'
<1>1. Known(j) /\ j \in issued
  BY DEF Unclaimed, Status, Known, UNSPECIFIED, LifeInv, DedupInv, JobInv
<1>2. ~ Unclaimed(j)'
  BY UnclaimedBefore DEF StepOK
<1>3. Known(j)'
  BY <1>2 DEF Unclaimed, Status, Known, UNSPECIFIED
<1>4. RecordStep(j)
  BY EveryStepIsARecordStep DEF StepOK, ServiceSteps, LifeInv, DedupInv
<1> QED BY <1>1, <1>2, <1>3, <1>4, SpecStays DEF LifeInv, DedupInv

LEMMA EndStays ==
  ASSUME LifeInv, StepOK, NEW m, RequestTells(m), GoodMessage(m, results)
  PROVE  RequestTells(m)'
<1>1. CASE m.rpc \in {"StoreResult", "TransitionJobStatus"} /\ m.to \in {"DONE", "FAILED"}
  <2>1. m.job \in JobIds
    BY <1>1 DEF GoodMessage, WriteRpcs
  <2> QED BY <1>1, <2>1, ReportedStays DEF RequestTells, EndOf
<1>2. CASE ~ (m.rpc \in {"StoreResult", "TransitionJobStatus"} /\ m.to \in {"DONE", "FAILED"})
  BY <1>2 DEF RequestTells
<1> QED BY <1>1, <1>2

\* A request that is served, and tells how a run ended.
LEMMA ServeTells ==
  ASSUME LifeInv, StepOK, OutcomesOK, NEW m, Sent(m), Serve(m), RequestTells(m), NEW j \in JobIds
  PROVE  StoresTell(j)'
<1>1. StoresTell(j) /\ issued \subseteq issued'
  BY EveryStepIsARecordStep DEF OutcomesOK, StepOK, ServiceSteps, LifeInv, DedupInv
<1>2. ASSUME NEW st, EndOf(j, st)
      PROVE  EndOf(j, st)'
  BY <1>2, ReportedStays DEF EndOf
<1>3. jobs'[j].status \in {"DONE", "FAILED"} => EndOf(j, jobs[j].status)'
  <2>1. CASE jobs'[j].status \in {jobs[j].status, UNSPECIFIED, "QUEUED"}
    BY <1>1, <1>2, <2>1 DEF StoresTell, Status, UNSPECIFIED, EndOf
  <2>2. CASE m.rpc = "TransitionJobStatus" /\ m.job = j /\ jobs'[j].status = m.to
    BY <1>2, <2>2 DEF RequestTells, EndOf
  <2> QED BY <2>1, <2>2, ServeMoves
<1>4. /\ results'[j] \in {"DONE", "FAILED"} => EndOf(j, results[j])'
      /\ results'[j] # NoEnvelope => j \in issued'
  <2>1. CASE results'[j] = results[j]
    BY <1>1, <1>2, <2>1 DEF StoresTell, EndOf
  <2>2. CASE m.rpc = "StoreResult" /\ m.job = j /\ results'[j] = m.to
    <3>1. j \in issued
      BY <2>2, NullsAssumption DEF Sent, Formed, Named
    <3> QED BY <1>1, <1>2, <2>2, <3>1 DEF RequestTells, EndOf
  <2> QED BY <2>1, <2>2, ServeMoves
<1> QED BY <1>3, <1>4 DEF StoresTell, Status
\* Who tells of a job names one.
LEMMA TellersAreNamed ==
  ASSUME LifeInv
  PROVE  /\ \A h \in Handlers : Tells(h) => handlers[h].job \in JobIds
         /\ \A w \in Workers : workers[w].pc \in {"executing", "reporting", "waiting"}
                                 => workers[w].job \in JobIds
<1>1. "idle" \notin ReportPcs /\ "dequeue" \notin ReportPcs /\ "answer" \notin ReportPcs
  BY DEF ReportPcs
<1> QED BY <1>1 DEF LifeInv, Inv, HandlersOK, GoodHandler, WorkersOK, GoodWorker, Tells

LEMMA HandlerStillTells ==
  ASSUME LifeInv, StepOK, OutcomesOK, NEW h \in Handlers, UNCHANGED handlers[h],
         Listened(h)' => Listened(h)
  PROVE  HandlerTells(h)'
<1>1. Tells(h)' => Tells(h)
  BY DEF Tells
<1>2. ASSUME Tells(h)
      PROVE  Reported(handlers[h].job, handlers[h].spec)'
  <2>1. handlers[h].job \in JobIds /\ Reported(handlers[h].job, handlers[h].spec)
    BY <1>2, TellersAreNamed DEF OutcomesOK, HandlerTells
  <2> QED BY <2>1, ReportedStays DEF Reported, Unclaimed, Status
<1> QED BY <1>1, <1>2 DEF HandlerTells

LEMMA WorkerStillTells ==
  ASSUME LifeInv, StepOK, OutcomesOK, NEW w \in Workers,
         \/ workers'[w].pc \notin {"executing", "reporting", "waiting"}
         \/ /\ workers[w].pc \in {"executing", "reporting", "waiting"}
            /\ workers'[w].job = workers[w].job /\ workers'[w].spec = workers[w].spec
  PROVE  WorkerTells(w)'
<1>1. CASE workers'[w].pc \notin {"executing", "reporting", "waiting"}
  BY <1>1 DEF WorkerTells
<1>2. CASE /\ workers[w].pc \in {"executing", "reporting", "waiting"}
           /\ workers'[w].job = workers[w].job /\ workers'[w].spec = workers[w].spec
  <2>1. workers[w].job \in JobIds /\ Reported(workers[w].job, workers[w].spec)
    BY <1>2, TellersAreNamed DEF OutcomesOK, WorkerTells
  <2> QED BY <1>2, <2>1, ReportedStays DEF WorkerTells, Reported, Unclaimed, Status
<1> QED BY <1>1, <1>2

\* Requests that are served, on time or late, and requests that are lost.
LEMMA CalledTells ==
  ASSUME LifeInv, StepOK, OutcomesOK, NEW m, NEW r, Sent(m), Called(m, r), RequestTells(m)
  PROVE  /\ \A f \in Faults : RequestTells(late[f])'
         /\ \A j \in JobIds : StoresTell(j)'
<1>1. ASSUME NEW f \in Faults
      PROVE  RequestTells(late[f])'
  <2>1. late'[f] = late[f] \/ late'[f] = m
    BY LateAfter
  <2>2. RequestTells(late[f]) /\ GoodMessage(late[f], results)
    BY DEF OutcomesOK, LifeInv, Inv, LateOK
  <2>3. ASSUME NEW n, n = late'[f]
        PROVE  RequestTells(n)'
    BY <2>1, <2>2, <2>3, EndStays DEF Sent
  <2> QED BY <2>3 DEF RequestTells, EndOf, Unclaimed, Status
<1>2. ASSUME NEW j \in JobIds
      PROVE  StoresTell(j)'
  <2>1. CASE Serve(m)
    BY <2>1, ServeTells
  <2>2. CASE UNCHANGED stores
    BY <2>2 DEF stores, OutcomesOK, StoresTell, EndOf, Unclaimed, Status
  <2> QED BY <2>1, <2>2 DEF Called
<1> QED BY <1>1, <1>2

\* Steps at which the stores stay as they are, and at most one worker fails.
LEMMA StoresStillTell ==
  ASSUME LifeInv, StepOK, OutcomesOK, WorkerUnchanged,
         \A f \in Faults : late'[f] = late[f] \/ late'[f] = Spent
  PROVE  /\ \A f \in Faults : RequestTells(late[f])'
         /\ \A j \in JobIds : StoresTell(j)'
BY SpentRpc DEF WorkerUnchanged, OutcomesOK, RequestTells, StoresTell, EndOf, Unclaimed, Status

LEMMA GatewayKeepsOutcomes ==
  ASSUME FormInv, StepOK, OutcomesOK, NEW c \in Calls, NEW m, NEW r, NEW call,
         GatewayMoves(c, m, r, call)
  PROVE  OutcomesOK'
<1>1. Sent(m) /\ Called(m, r) /\ UNCHANGED <<handlers, workers>>
  BY DEF GatewayMoves, CallStep
<1>2. RequestTells(m)
  BY DEF GatewayMoves, Begins, Looks, Goes, ReadRpcs, RequestTells
<1>3. \A h \in Handlers : HandlerTells(h)'
  BY <1>1, HandlerStillTells DEF FormInv, Listened
<1>4. \A w \in Workers : WorkerTells(w)'
  BY <1>1, WorkerStillTells DEF FormInv
<1> QED BY <1>1, <1>2, <1>3, <1>4, CalledTells DEF OutcomesOK, FormInv

LEMMA LateKeepsOutcomes ==
  ASSUME FormInv, StepOK, OutcomesOK, NEW f \in Faults, ExecuteLate(f)
  PROVE  OutcomesOK'
<1>1. Sent(late[f]) /\ Serve(late[f]) /\ RequestTells(late[f]) /\ UNCHANGED <<handlers, workers>>
  BY DEF ExecuteLate, FormInv, LifeInv, Inv, LateOK, NamesOK, Sent, OutcomesOK
<1>2. \A g \in Faults : late'[g] = late[g] \/ late'[g] = Spent
  BY DEF ExecuteLate, FormInv, LifeInv, Inv, LateOK
<1>3. \A j \in JobIds : StoresTell(j)'
  BY <1>1, ServeTells DEF FormInv
<1>4. ASSUME NEW g \in Faults
      PROVE  RequestTells(late[g])'
  <2>1. CASE late'[g] = Spent
    BY <2>1, SpentRpc DEF RequestTells
  <2>2. CASE late'[g] = late[g]
    <3>1. ASSUME NEW n, n = late[g]
          PROVE  RequestTells(n)'
      BY <3>1, EndStays DEF OutcomesOK, FormInv, LifeInv, Inv, LateOK
    <3> QED BY <2>2, <3>1 DEF RequestTells, EndOf, Unclaimed, Status
  <2> QED BY <1>2, <2>1, <2>2
<1>5. \A h \in Handlers : HandlerTells(h)'
  BY <1>1, HandlerStillTells DEF FormInv, Listened
<1>6. \A w \in Workers : WorkerTells(w)'
  BY <1>1, WorkerStillTells DEF FormInv
<1> QED BY <1>3, <1>4, <1>5, <1>6 DEF OutcomesOK

\* The job that a handler reads for a worker is claimed; what it reads is the
\* job's spec.
LEMMA ReadTells ==
  ASSUME FormInv, NEW h \in Handlers, handlers[h].pc = "read", NEW m, NEW r, Called(m, r),
         m.rpc = "GetJobRecord", m.job = handlers[h].job, r.code = "OK"
  PROVE  ~ Unclaimed(handlers[h].job) /\ r.spec = jobs[handlers[h].job].spec
<1>1. handlers[h].job \in JobIds
  BY HandlerIsNamed DEF FormInv
<1>2. PICK j \in JobIds : j = handlers[h].job
  BY <1>1
<1>3. HandlerClaims(h, j)
  BY <1>2 DEF HandlerClaims
<1>4. ~ Unclaimed(j)
  BY <1>3 DEF FormInv, ClaimsOK, ClaimOK, Free
<1>5. r = GetJobRecordReply(m.job)
  BY DEF Called, RpcError, ErrorReply, ReplyTo
<1> QED BY <1>2, <1>4, <1>5 DEF GetJobRecordReply, ErrorReply

LEMMA OutcomeFields == \A spec : Outcome(spec) \in {"DONE", "FAILED"}
BY DEF Outcome

LEMMA HandlersKeepOutcomes ==
  ASSUME FormInv, StepOK, OutcomesOK, NEW h \in Handlers, NEW m, NEW r, NEW handler,
         Advances(h, m, r, handler)
  PROVE  OutcomesOK'
<1>1. /\ Sent(m) /\ Called(m, r) /\ UNCHANGED workers
      /\ handlers'[h] = handler /\ \A g \in Handlers : g # h => handlers'[g] = handlers[g]
  BY DEF Advances, HandlerRpc, FormInv, LifeInv, Inv, HandlersOK
<1>2. Listened(h) => handlers[h].pc \notin ReportPcs
  BY DEF Listened, FormInv, ClaimsOK, ListenOK, FetchPcs, ReportPcs
<1>3. handlers[h].pc \in ReportPcs
        => handlers[h].job \in JobIds /\ Reported(handlers[h].job, handlers[h].spec)
  BY TellersAreNamed DEF Tells, OutcomesOK, HandlerTells, FormInv
<1>4. RequestTells(m)
  <2>1. CASE Dequeues(h, m, r, handler) \/ LooksUp(h, m, r, handler)
    BY <2>1 DEF Dequeues, LooksUp, RequestTells
  <2>2. CASE ClaimsJob(h, m, r, handler)
    BY <2>2 DEF ClaimsJob, TransitionRequest, Message, RequestTells
  <2>3. CASE RecordsEnd(h, m, r, handler)
    <3>1. m.job = handlers[h].job /\ m.to = Outcome(handlers[h].spec) /\ handlers[h].pc \in ReportPcs
      BY <2>3 DEF RecordsEnd, TransitionRequest, StoreRequest, Message, ReportPcs
    <3> QED BY <1>3, <3>1 DEF RequestTells, EndOf, Reported
  <2> QED BY <2>1, <2>2, <2>3 DEF Advances
<1>5. HandlerTells(h)'
  <2>1. CASE Dequeues(h, m, r, handler) \/ ClaimsJob(h, m, r, handler)
    BY <1>1, <2>1 DEF Dequeues, ClaimsJob, Refused, HandlerTells, Tells, ReportPcs
  <2>2. CASE LooksUp(h, m, r, handler)
    <3>1. CASE ~ handler.ok
      BY <1>1, <2>2, <3>1 DEF LooksUp, HandlerTells, Tells, ReportPcs
    <3>2. CASE handler.ok
      <4>1. /\ handlers[h].pc = "read" /\ handler.job = handlers[h].job /\ handler.spec = r.spec
            /\ m.rpc = "GetJobRecord" /\ m.job = handlers[h].job /\ r.code = "OK"
        BY <2>2, <3>2 DEF LooksUp
      <4>2. handler.job \in JobIds /\ Reported(handler.job, handler.spec)
        BY <1>1, <4>1, ReadTells, HandlerIsNamed DEF Reported, FormInv
      <4>3. Reported(handlers[h].job, handlers[h].spec)'
        BY <1>1, <4>2, ReportedStays DEF Reported, FormInv, Unclaimed, Status
      <4> QED BY <4>3 DEF HandlerTells
    <3> QED BY <3>1, <3>2
  <2>3. CASE RecordsEnd(h, m, r, handler)
    <3>1. handler.job = handlers[h].job /\ handler.spec = handlers[h].spec /\ handlers[h].pc \in ReportPcs
      BY <2>3 DEF RecordsEnd, ReportPcs
    <3>2. handler.job \in JobIds /\ Reported(handler.job, handler.spec)
      BY <1>3, <3>1
    <3>3. Reported(handlers[h].job, handlers[h].spec)'
      BY <1>1, <3>2, ReportedStays DEF Reported, FormInv, Unclaimed, Status
    <3> QED BY <3>3 DEF HandlerTells
  <2> QED BY <2>1, <2>2, <2>3 DEF Advances
<1>6. \A g \in Handlers : g # h => HandlerTells(g)'
  BY <1>1, HandlerStillTells DEF FormInv, Listened
<1>7. \A w \in Workers : WorkerTells(w)'
  BY <1>1, WorkerStillTells DEF FormInv
<1> QED BY <1>1, <1>4, <1>5, <1>6, <1>7, CalledTells DEF OutcomesOK, FormInv
(* The workers. *)

LEMMA RetryReportTells ==
  ASSUME NEW worker \in WorkerRecord
  PROVE  \/ RetryReport(worker).pc = "idle"
         \/ RetryReport(worker).job = worker.job /\ RetryReport(worker).spec = worker.spec
BY DEF RetryReport, IdleWorker, WorkerRecord

LEMMA AnsweredTells ==
  ASSUME NEW worker \in WorkerRecord, NEW handler
  PROVE  LET next == Answered(worker, handler) IN
         \/ next.pc = "idle"
         \/ /\ worker.pc = "fetching" /\ handler.ok
            /\ next.job = handler.job /\ next.spec = handler.spec
         \/ worker.pc # "fetching" /\ next.job = worker.job /\ next.spec = worker.spec
<1>1. CASE worker.pc = "fetching" /\ handler.ok
  <2> DEFINE next == [IdleWorker EXCEPT !.pc = "executing", !.job = handler.job,
                                        !.spec = handler.spec]
  <2>1. next.job = handler.job /\ next.spec = handler.spec
    BY DEF IdleWorker
  <2> QED BY <1>1, <2>1 DEF Answered
<1>2. CASE worker.pc = "fetching" /\ ~ handler.ok
  BY <1>2 DEF Answered, IdleWorker
<1>3. CASE worker.pc # "fetching"
  <2>1. Answered(worker, handler) \in {IdleWorker, RetryReport(worker)} /\ IdleWorker.pc = "idle"
    BY <1>3 DEF Answered, IdleWorker
  <2> QED BY <1>3, <2>1, RetryReportTells
<1> QED BY <1>1, <1>2, <1>3

LEMMA ListenersAre ==
  ASSUME FormInv, NEW w \in Workers, NEW h \in Handlers, workers[w].via = h
  PROVE  workers[w].pc \in {"fetching", "waiting"}
BY DEF FormInv, ClaimsOK, ListenOK

\* Worker w's call starts on handler h, which reports what the worker does.
LEMMA OpenTells ==
  ASSUME FormInv, StepOK, OutcomesOK, NEW w \in Workers, NEW h \in Handlers,
         NEW worker \in WorkerRecord, NEW handler \in HandlerRecord, Open(w, h, worker, handler),
         \/ worker.pc = "fetching" /\ handler.pc = "dequeue"
         \/ /\ worker.pc = "waiting" /\ handler.pc = "store" /\ workers[w].pc = "reporting"
            /\ worker.job = workers[w].job /\ worker.spec = workers[w].spec
            /\ handler.job = workers[w].job /\ handler.spec = workers[w].spec
  PROVE  OutcomesOK'
<1> DEFINE nextWorker == [worker EXCEPT !.via = h]
           nextHandler == [handler EXCEPT !.worker = w]
<1>1. workers \in [Workers -> WorkerRecord] /\ handlers \in [Handlers -> HandlerRecord]
  BY DEF FormInv, LifeInv, Inv, WorkersOK, HandlersOK
<1>2. /\ nextWorker.pc = worker.pc /\ nextWorker.job = worker.job /\ nextWorker.spec = worker.spec
      /\ nextWorker.via = h
  BY DEF WorkerRecord
<1>3. /\ nextHandler.pc = handler.pc /\ nextHandler.job = handler.job
      /\ nextHandler.spec = handler.spec
  BY DEF HandlerRecord
<1>4. /\ workers'[w] = nextWorker /\ \A v \in Workers : v # w => workers'[v] = workers[v]
      /\ handlers'[h] = nextHandler /\ \A g \in Handlers : g # h => handlers'[g] = handlers[g]
      /\ WorkerUnchanged /\ UNCHANGED late
  BY <1>1 DEF Open
<1> HIDE DEF nextWorker, nextHandler
<1>5. \A v \in Workers : WorkerTells(v)'
  <2>1. WorkerTells(w)'
    BY <1>2, <1>4, WorkerStillTells DEF FormInv
  <2>2. ASSUME NEW v \in Workers, v # w PROVE WorkerTells(v)'
    BY <1>4, <2>2, WorkerStillTells DEF FormInv
  <2> QED BY <2>1, <2>2
<1>6. HandlerTells(h)'
  <2>1. CASE handler.pc = "dequeue"
    BY <1>3, <1>4, <2>1 DEF HandlerTells, Tells, ReportPcs
  <2>2. CASE workers[w].pc = "reporting" /\ handler.job = workers[w].job /\ handler.spec = workers[w].spec
    <3>1. handler.job \in JobIds /\ Reported(handler.job, handler.spec)
      BY <2>2, TellersAreNamed DEF OutcomesOK, WorkerTells, FormInv
    <3>2. Reported(handlers[h].job, handlers[h].spec)'
      BY <1>3, <1>4, <3>1, ReportedStays DEF Reported, FormInv, Unclaimed, Status
    <3> QED BY <3>2 DEF HandlerTells
  <2> QED BY <2>1, <2>2
<1>7. ASSUME NEW g \in Handlers, g # h PROVE HandlerTells(g)'
  <2>1. Listened(g)' => Listened(g)
    BY <1>2, <1>4, <1>7 DEF Listened
  <2> QED BY <1>4, <1>7, <2>1, HandlerStillTells DEF FormInv
<1> QED BY <1>4, <1>5, <1>6, <1>7, StoresStillTell DEF OutcomesOK, FormInv

\* Worker w goes on, and starts to listen to nobody.
LEMMA WorkerMoves ==
  ASSUME FormInv, StepOK, OutcomesOK, NEW w \in Workers, NEW worker, worker.pc # "fetching",
         UNCHANGED handlers, workers' = [workers EXCEPT ![w] = worker],
         WorkerUnchanged, \A f \in Faults : late'[f] = late[f] \/ late'[f] = Spent,
         \/ worker.pc \notin {"executing", "reporting", "waiting"}
         \/ /\ workers[w].pc \in {"executing", "reporting", "waiting"}
            /\ worker.job = workers[w].job /\ worker.spec = workers[w].spec
  PROVE  OutcomesOK'
<1>1. workers'[w] = worker /\ \A v \in Workers : v # w => workers'[v] = workers[v]
  BY DEF FormInv, LifeInv, Inv, WorkersOK
<1>2. \A v \in Workers : WorkerTells(v)'
  BY <1>1, WorkerStillTells DEF FormInv
<1>3. \A h \in Handlers : HandlerTells(h)'
  BY <1>1, HandlerStillTells DEF FormInv, Listened
<1> QED BY <1>2, <1>3, StoresStillTell DEF OutcomesOK, FormInv

LEMMA WorkersKeepOutcomes ==
  ASSUME FormInv, StepOK, OutcomesOK, NEW w \in Workers,
         WorkerStep(w) \/ Expire(w) \/ GiveUp(w) \/ Stop(w)
  PROVE  OutcomesOK'
<1>1. workers \in [Workers -> WorkerRecord] /\ workers[w] \in WorkerRecord
  BY DEF FormInv, LifeInv, Inv, WorkersOK
<1>2. \A f \in Faults : late'[f] = late[f] \/ late'[f] = Spent
  <2>1. UNCHANGED late \/ Lose(Spent)
    <3>1. CASE WorkerStep(w)
      BY <3>1 DEF WorkerStep, Heartbeat, Execute, FetchWork, ReportWorkOutcome, Open
    <3> QED BY <3>1 DEF Expire, GiveUp, Stop, UseFault
  <2> QED BY <2>1, LoseOnly DEF FormInv
<1>3. CASE Heartbeat(w) \/ Expire(w)
  <2>1. UNCHANGED <<handlers, workers>> /\ WorkerUnchanged
    BY <1>3 DEF Heartbeat, Expire
  <2>2. (\A v \in Workers : WorkerTells(v)') /\ \A h \in Handlers : HandlerTells(h)'
    BY <2>1, WorkerStillTells, HandlerStillTells DEF FormInv, Listened
  <2> QED BY <1>2, <2>1, <2>2, StoresStillTell DEF OutcomesOK, FormInv
<1>4. CASE Execute(w)
  <2> DEFINE worker == [workers[w] EXCEPT !.pc = "reporting", !.attempt = 1]
  <2>1. worker.pc = "reporting" /\ worker.job = workers[w].job /\ worker.spec = workers[w].spec
    BY <1>1 DEF WorkerRecord
  <2>2. /\ workers' = [workers EXCEPT ![w] = worker] /\ UNCHANGED handlers /\ WorkerUnchanged
        /\ workers[w].pc = "executing"
    BY <1>1, <1>4 DEF Execute
  <2> HIDE DEF worker
  <2> QED BY <1>2, <2>1, <2>2, WorkerMoves
<1>5. CASE GiveUp(w)
  <2> DEFINE worker == IF workers[w].pc = "fetching" THEN IdleWorker ELSE RetryReport(workers[w])
  <2>1. /\ workers' = [workers EXCEPT ![w] = worker] /\ UNCHANGED handlers /\ WorkerUnchanged
        /\ workers[w].pc \in {"fetching", "waiting"}
    BY <1>1, <1>5 DEF GiveUp
  <2>2. \/ worker.pc = "idle"
        \/ /\ workers[w].pc = "waiting" /\ worker.pc = "reporting"
           /\ worker.job = workers[w].job /\ worker.spec = workers[w].spec
    <3>1. IdleWorker.pc = "idle"
      BY DEF IdleWorker
    <3> QED BY <1>1, <2>1, <3>1, RetryReportTells, RetryReportFields
  <2> HIDE DEF worker
  <2> QED BY <1>2, <2>1, <2>2, WorkerMoves
<1>6. CASE Stop(w)
  <2>1. StoppedWorker.pc = "stopped"
    BY DEF StoppedWorker, IdleWorker
  <2> QED BY <1>2, <1>6, <2>1, WorkerMoves DEF Stop
<1>7. ASSUME NEW h \in Handlers, FetchWork(w, h)
      PROVE  OutcomesOK'
  <2> DEFINE worker == [IdleWorker EXCEPT !.pc = "fetching"]
             handler == [IdleHandler EXCEPT !.pc = "dequeue"]
  <2>1. worker \in WorkerRecord /\ worker.pc = "fetching"
    BY IdleWorkerIsGood DEF WorkerRecord
  <2>2. handler \in HandlerRecord /\ handler.pc = "dequeue"
    BY DEF IdleHandler, HandlerRecord, AnyJob, AnySpec, FetchPcs
  <2>3. Open(w, h, worker, handler)
    BY <1>7 DEF FetchWork
  <2> HIDE DEF worker, handler
  <2> QED BY <2>1, <2>2, <2>3, OpenTells
<1>8. ASSUME NEW h \in Handlers, ReportWorkOutcome(w, h)
      PROVE  OutcomesOK'
  <2> DEFINE worker == [workers[w] EXCEPT !.pc = "waiting"]
             handler == [IdleHandler EXCEPT !.pc = "store", !.job = workers[w].job,
                                            !.spec = workers[w].spec]
  <2>1. /\ worker \in WorkerRecord /\ worker.pc = "waiting"
        /\ worker.job = workers[w].job /\ worker.spec = workers[w].spec
    BY <1>1 DEF WorkerRecord
  <2>2. IdleHandler \in HandlerRecord
    BY DEF IdleHandler, HandlerRecord, AnyJob, AnySpec
  <2>3. /\ handler \in HandlerRecord /\ handler.pc = "store"
        /\ handler.job = workers[w].job /\ handler.spec = workers[w].spec
    BY <1>1, <2>2 DEF HandlerRecord, WorkerRecord, ReportPcs
  <2>4. Open(w, h, worker, handler) /\ workers[w].pc = "reporting"
    BY <1>8 DEF ReportWorkOutcome
  <2> HIDE DEF worker, handler
  <2> QED BY <2>1, <2>3, <2>4, OpenTells
<1> QED BY <1>3, <1>4, <1>5, <1>6, <1>7, <1>8 DEF WorkerStep

LEMMA DeliveryKeepsOutcomes ==
  ASSUME FormInv, StepOK, OutcomesOK, NEW h \in Handlers, DeliverAnswer(h)
  PROVE  OutcomesOK'
<1>1. workers \in [Workers -> WorkerRecord] /\ handlers \in [Handlers -> HandlerRecord]
  BY DEF FormInv, LifeInv, Inv, WorkersOK, HandlersOK
<1>2. /\ handlers'[h] = IdleHandler /\ \A g \in Handlers : g # h => handlers'[g] = handlers[g]
      /\ \A w \in Workers : workers'[w] = IF workers[w].via = h
                                           THEN Answered(workers[w], handlers[h]) ELSE workers[w]
      /\ handlers[h].pc = "answer" /\ WorkerUnchanged /\ UNCHANGED late
  BY <1>1 DEF DeliverAnswer
<1>3. ASSUME NEW w \in Workers, workers[w].via = h, workers'[w].pc = "fetching"
      PROVE  FALSE
  <2>1. workers[w].pc \in {"fetching", "waiting"} /\ workers'[w] = Answered(workers[w], handlers[h])
    BY <1>2, <1>3, ListenersAre
  <2>2. workers[w] \in WorkerRecord
    BY <1>1
  <2>3. Answered(workers[w], handlers[h]).pc \in {"executing", "reporting", "idle"}
    BY <2>1, <2>2, AnsweredFields
  <2> QED BY <1>3, <2>1, <2>3
<1>4. ASSUME NEW w \in Workers
      PROVE  WorkerTells(w)'
  <2>1. CASE workers[w].via # h
    BY <1>2, <2>1, WorkerStillTells DEF FormInv
  <2>2. CASE workers[w].via = h /\ workers[w].pc = "fetching" /\ handlers[h].ok
             /\ workers'[w].job = handlers[h].job /\ workers'[w].spec = handlers[h].spec
    <3>1. handlers[h].job \in JobIds /\ Reported(handlers[h].job, handlers[h].spec)
      BY <1>2, <2>2, TellersAreNamed DEF FormInv, OutcomesOK, HandlerTells, Tells, Listened
    <3>2. Reported(workers[w].job, workers[w].spec)'
      BY <2>2, <3>1, ReportedStays DEF FormInv, Reported, Unclaimed, Status
    <3> QED BY <3>2 DEF WorkerTells
  <2>3. CASE workers[w].via = h /\ ~ (workers[w].pc = "fetching" /\ handlers[h].ok)
    <3>1. workers[w].pc \in {"fetching", "waiting"} /\ workers'[w] = Answered(workers[w], handlers[h])
      BY <1>2, <2>3, ListenersAre
    <3>2. \/ workers'[w].pc = "idle"
          \/ /\ workers[w].pc = "waiting"
             /\ workers'[w].job = workers[w].job /\ workers'[w].spec = workers[w].spec
      BY <1>1, <2>3, <3>1, AnsweredTells
    <3> QED BY <3>2, WorkerStillTells DEF FormInv
  <2>4. workers[w].via = h /\ workers[w].pc = "fetching" /\ handlers[h].ok
          => \/ workers'[w].pc = "idle"
             \/ workers'[w].job = handlers[h].job /\ workers'[w].spec = handlers[h].spec
    BY <1>1, <1>2, AnsweredTells
  <2>5. CASE workers'[w].pc = "idle"
    BY <2>5, WorkerStillTells DEF FormInv
  <2> QED BY <2>1, <2>2, <2>3, <2>4, <2>5
<1>5. HandlerTells(h)'
  <2>1. IdleHandler.pc = "idle"
    BY DEF IdleHandler
  <2> QED BY <1>2, <2>1 DEF HandlerTells, Tells, ReportPcs
<1>6. ASSUME NEW g \in Handlers, g # h PROVE HandlerTells(g)'
  <2>1. Listened(g)' => Listened(g)
    BY <1>2, <1>3 DEF Listened
  <2> QED BY <1>2, <1>6, <2>1, HandlerStillTells DEF FormInv
<1> QED BY <1>2, <1>4, <1>5, <1>6, StoresStillTell DEF OutcomesOK, FormInv

LEMMA NextKeepsOutcomes ==
  ASSUME FormInv, OutcomesOK, [Next]_vars
  PROVE  OutcomesOK'
<1>1. StepOK
  BY NextIsOK DEF FormInv
<1>2. ASSUME NEW c \in Calls, SubmitJob(c) \/ CancelJob(c) \/ GetJobResult(c) \/ ContinueCall(c)
      PROVE  OutcomesOK'
  BY <1>1, <1>2, GatewayIsAMove, GatewayKeepsOutcomes DEF FormInv
<1>3. ASSUME NEW h \in Handlers, HandlerStep(h)
      PROVE  OutcomesOK'
  <2>1. CASE DeliverAnswer(h)
    BY <1>1, <2>1, DeliveryKeepsOutcomes
  <2>2. CASE ~ DeliverAnswer(h)
    <3>1. PICK m, r, handler : Advances(h, m, r, handler)
      BY <1>3, <2>2, CoordinatorAdvances DEF HandlerStep, FormInv
    <3> QED BY <1>1, <3>1, HandlersKeepOutcomes
  <2> QED BY <2>1, <2>2
<1>4. CASE UNCHANGED vars
  BY <1>4 DEF vars, OutcomesOK, HandlerTells, Tells, Listened, WorkerTells, RequestTells, StoresTell,
              Reported, EndOf, Unclaimed, Status
<1> QED BY <1>1, <1>2, <1>3, <1>4, WorkersKeepOutcomes, LateKeepsOutcomes DEF Next

LEMMA OutcomeInvariant == Spec => []OutcomesOK
<1>1. ASSUME Init
      PROVE  OutcomesOK
  <2>1. IdleHandler.pc = "idle" /\ IdleWorker.pc = "idle" /\ NoRecord.status = UNSPECIFIED
    BY DEF IdleHandler, IdleWorker, NoRecord
  <2>2. \A h \in Handlers : HandlerTells(h)
    BY <1>1, <2>1 DEF Init, HandlerTells, Tells, ReportPcs
  <2>3. \A w \in Workers : WorkerTells(w)
    BY <1>1, <2>1 DEF Init, WorkerTells
  <2>4. \A f \in Faults : RequestTells(late[f])
    BY <1>1, SpentRpc DEF Init, RequestTells
  <2>5. \A j \in JobIds : StoresTell(j)
    BY <1>1, <2>1 DEF Init, JobInit, ResultInit, StoresTell, Status, NoEnvelope, UNSPECIFIED
  <2> QED BY <2>2, <2>3, <2>4, <2>5 DEF OutcomesOK
<1>2. FormInv /\ OutcomesOK /\ [Next]_vars => OutcomesOK'
  BY NextKeepsOutcomes
<1> QED BY <1>1, <1>2, FormInvariant, PTL DEF Spec
-----------------------------------------------------------------------------
(***************************************************************************)
(* Run or canceled.  A job whose submission is not repeated is enqueued    *)
(* once: its place in the queue, or the request that is to put it there,   *)
(* is a token.  Who takes it out of the queue has the token, a handler to  *)
(* claim the job or a call to cancel it, and so the two never meet.        *)
(***************************************************************************)
Enqueuing(m, j) == m.rpc = "EnqueueJob" /\ m.job = j

Claiming(m, j) == m.rpc = "TransitionJobStatus" /\ m.to = "RUNNING" /\ m.job = j

Canceling(m, j) ==
  m.rpc \in {"StoreResult", "TransitionJobStatus"} /\ m.to = "CANCELED" /\ m.job = j

Entering(j) == calls[j].pc = "enqueue" /\ calls[j].job = j

\* j was claimed, or a claim of it is under way; in the stores and late
\* requests alone, and with the handlers.
ClaimStored(j) == ~ Unclaimed(j) \/ \E f \in Faults : Claiming(late[f], j)

RunSide(j) ==
  ClaimStored(j) \/ \E h \in Handlers : handlers[h].pc = "claim" /\ handlers[h].job = j

\* The same of its cancellation.
CancelStored(j) == results[j] = "CANCELED" \/ \E f \in Faults : Canceling(late[f], j)

CancelSide(j) ==
  CancelStored(j) \/ \E c \in Calls : calls[c].pc \in {"store", "transition"} /\ calls[c].job = j

\* No side has j.
Untaken(j) == ~ RunSide(j) /\ ~ CancelSide(j)

SideOK(j) ==
  /\ ~ (RunSide(j) /\ CancelSide(j))
  /\ Entering(j) => ~ Queued(j)
  /\ Entering(j) \/ Queued(j) => Untaken(j) /\ \A f \in Faults : ~ Enqueuing(late[f], j)
  /\ \A f \in Faults : Enqueuing(late[f], j) => Untaken(j)
  /\ \A f, g \in Faults : Enqueuing(late[f], j) /\ Enqueuing(late[g], j) => f = g

SidesOK == \A j \in JobIds : SoleSubmission(j) => SideOK(j)

\* All that a step may do to the token of j: nothing, or make it when j gets
\* its id; use it to enter the queue, now or late; or take j from the queue.
NoneLater(j) == \A f \in Faults : Enqueuing(late'[f], j) => Enqueuing(late[f], j)

Keeps(j) == (Queued(j)' => Queued(j)) /\ NoneLater(j)

Enters(j) ==
  /\ Entering(j) /\ ~ Entering(j)'
  /\ \/ NoneLater(j)
     \/ /\ Queued(j)' => Queued(j)
        /\ \E g \in Faults : \A f \in Faults : f # g /\ Enqueuing(late'[f], j) => Enqueuing(late[f], j)

EntersLate(j) ==
  \E g \in Faults :
    /\ Enqueuing(late[g], j)
    /\ \A f \in Faults : Enqueuing(late'[f], j) => f # g /\ Enqueuing(late[f], j)

Leaves(j) == Queued(j) /\ ~ Queued(j)' /\ NoneLater(j)

NoSideGained(j) == (RunSide(j)' => RunSide(j)) /\ (CancelSide(j)' => CancelSide(j))

OneSideGained(j) == (RunSide(j)' => RunSide(j)) \/ (CancelSide(j)' => CancelSide(j))

SideStep(j) ==
  /\ (Entering(j)' => Entering(j)) \/ (j \notin issued /\ Keeps(j) /\ NoSideGained(j))
  /\ \/ NoSideGained(j) /\ (Keeps(j) \/ Enters(j) \/ EntersLate(j))
     \/ OneSideGained(j) /\ Leaves(j)

\* An id that was not handed out is nowhere.
LEMMA UnissuedIsNowhere ==
  ASSUME LifeInv, OutcomesOK, NEW j \in JobIds, j \notin issued
  PROVE  Untaken(j) /\ ~ Queued(j) /\ \A f \in Faults : ~ Enqueuing(late[f], j)
<1>1. j \notin Named
  BY NullsAssumption DEF Named
<1>2. \A f \in Faults : ~ Enqueuing(late[f], j) /\ ~ Claiming(late[f], j) /\ ~ Canceling(late[f], j)
  BY <1>1 DEF LifeInv, NamesOK, Formed, Enqueuing, Claiming, Canceling
<1>3. Unclaimed(j)
  BY DEF LifeInv, DedupInv, JobInv, Known, Unclaimed, Status, UNSPECIFIED
<1>4. results[j] # "CANCELED"
  BY DEF OutcomesOK, StoresTell, NoEnvelope, UNSPECIFIED
<1>5. ~ Queued(j)
  <2>1. \A i \in 1..Len(queue) : queue[i] \in issued
    BY LenProperties, ElementOfSeq DEF LifeInv, NamesOK
  <2> QED BY <2>1 DEF Queued, Contains
<1>6. /\ \A h \in Handlers : handlers[h].job # j
      /\ \A c \in Calls : calls[c].job # j
  BY <1>1 DEF LifeInv, NamesOK
<1> QED BY <1>2, <1>3, <1>4, <1>5, <1>6 DEF Untaken, RunSide, ClaimStored, CancelSide, CancelStored

LEMMA SideStepKeeps ==
  ASSUME LifeInv, OutcomesOK, NEW j \in JobIds, SideOK(j), SideStep(j)
  PROVE  SideOK(j)'
<1>1. CASE NoSideGained(j) /\ Keeps(j)
  <2>1. Untaken(j) => Untaken(j)'
    BY <1>1 DEF NoSideGained, Untaken
  <2>2. Entering(j)' => Entering(j) \/ (Untaken(j) /\ ~ Queued(j) /\ \A f \in Faults : ~ Enqueuing(late[f], j))
    BY UnissuedIsNowhere DEF SideStep
  <2> QED BY <1>1, <2>1, <2>2 DEF NoSideGained, Keeps, NoneLater, SideOK
<1>2. CASE NoSideGained(j) /\ Enters(j)
  <2>1. Untaken(j)' /\ ~ Entering(j)' /\ ~ Queued(j) /\ \A f \in Faults : ~ Enqueuing(late[f], j)
    BY <1>2 DEF NoSideGained, Enters, SideOK, Untaken
  <2>2. CASE NoneLater(j)
    BY <1>2, <2>1, <2>2 DEF NoneLater, SideOK, Untaken
  <2>3. CASE /\ Queued(j)' => Queued(j)
             /\ \E g \in Faults : \A f \in Faults : f # g /\ Enqueuing(late'[f], j) => Enqueuing(late[f], j)
    BY <1>2, <2>1, <2>3 DEF SideOK, Untaken
  <2> QED BY <1>2, <2>2, <2>3 DEF Enters
<1>3. CASE NoSideGained(j) /\ EntersLate(j)
  <2>1. PICK g \in Faults :
          /\ Enqueuing(late[g], j)
          /\ \A f \in Faults : Enqueuing(late'[f], j) => f # g /\ Enqueuing(late[f], j)
    BY <1>3 DEF EntersLate
  <2>2. Untaken(j)' /\ \A f \in Faults : ~ Enqueuing(late'[f], j)
    BY <1>3, <2>1 DEF NoSideGained, SideOK, Untaken
  <2>3. ~ Entering(j)'
    <3>1. ~ Entering(j) /\ j \in issued
      BY <2>1, UnissuedIsNowhere DEF SideOK
    <3> QED BY <3>1 DEF SideStep
  <2> QED BY <2>2, <2>3 DEF SideOK, Untaken
<1>4. CASE OneSideGained(j) /\ Leaves(j)
  <2>1. ~ Entering(j) /\ Untaken(j) /\ ~ Queued(j)' /\ \A f \in Faults : ~ Enqueuing(late'[f], j)
    BY <1>4 DEF Leaves, NoneLater, SideOK
  <2>2. ~ Entering(j)'
    <3>1. j \in issued
      BY <1>4, UnissuedIsNowhere DEF Leaves
    <3> QED BY <2>1, <3>1 DEF SideStep
  <2> QED BY <1>4, <2>1, <2>2 DEF OneSideGained, SideOK, Untaken
<1> QED BY <1>1, <1>2, <1>3, <1>4 DEF SideStep

\* What one request does to the sides.
LEMMA ServedSides ==
  ASSUME LifeInv, NEW m, Sent(m), Serve(m), NEW j \in JobIds
  PROVE  /\ ~ Unclaimed(j)' => ~ Unclaimed(j) \/ Claiming(m, j)
         /\ results'[j] = "CANCELED" => results[j] = "CANCELED" \/ Canceling(m, j)
         /\ Queued(j)' => Queued(j) \/ Enqueuing(m, j)
<1>1. /\ \/ jobs'[j].status \in {jobs[j].status, UNSPECIFIED, "QUEUED"}
         \/ m.rpc = "TransitionJobStatus" /\ m.job = j /\ jobs'[j].status = m.to
              /\ jobs[j].status = m.from
      /\ \/ results'[j] = results[j]
         \/ m.rpc = "StoreResult" /\ m.job = j /\ results'[j] = m.to
      /\ Queued(j)' => Queued(j) \/ (m.rpc = "EnqueueJob" /\ m.job = j)
  BY ServeMoves
<1>2. m.rpc = "TransitionJobStatus" => <<m.from, m.to>> \in UsedTransitions
  BY DEF Sent, Formed
<1>3. ~ Unclaimed(j)' => ~ Unclaimed(j) \/ Claiming(m, j)
  BY <1>1, <1>2 DEF Unclaimed, Status, UNSPECIFIED, Claiming, UsedTransitions
<1> QED BY <1>1, <1>3 DEF Canceling, Enqueuing

LEMMA CalledSides ==
  ASSUME LifeInv, NEW m, NEW r, Sent(m), Called(m, r), NEW j \in JobIds
  PROVE  /\ ClaimStored(j)' => ClaimStored(j) \/ Claiming(m, j)
         /\ CancelStored(j)' => CancelStored(j) \/ Canceling(m, j)
         /\ ~ Enqueuing(m, j) => Keeps(j)
         /\ \/ NoneLater(j)
            \/ /\ Queued(j)' => Queued(j)
               /\ \E g \in Faults : \A f \in Faults : f # g /\ Enqueuing(late'[f], j) => Enqueuing(late[f], j)
<1>1. CASE Serve(m) /\ UNCHANGED late
  <2>1. NoneLater(j)
    BY <1>1 DEF NoneLater
  <2> QED BY <1>1, <2>1, ServedSides DEF ClaimStored, CancelStored, Keeps
<1>2. CASE Lose(m) /\ UNCHANGED stores
  <2>1. PICK g \in Faults : late' = [late EXCEPT ![g] = m]
    BY <1>2 DEF Lose
  <2>2. late'[g] = m /\ \A f \in Faults : f # g => late'[f] = late[f]
    BY <2>1 DEF LifeInv, Inv, LateOK
  <2>3. (Unclaimed(j)' <=> Unclaimed(j)) /\ (Queued(j)' <=> Queued(j)) /\ results' = results
    BY <1>2 DEF stores, Unclaimed, Status, Queued
  <2>4. ClaimStored(j)' => ClaimStored(j) \/ Claiming(m, j)
    BY <2>2, <2>3 DEF ClaimStored
  <2>5. CancelStored(j)' => CancelStored(j) \/ Canceling(m, j)
    BY <2>2, <2>3 DEF CancelStored
  <2>6. ~ Enqueuing(m, j) => Keeps(j)
    BY <2>2, <2>3 DEF Keeps, NoneLater
  <2>7. \A f \in Faults : f # g /\ Enqueuing(late'[f], j) => Enqueuing(late[f], j)
    BY <2>2
  <2> QED BY <2>3, <2>4, <2>5, <2>6, <2>7
<1> QED BY <1>1, <1>2 DEF Called
LEMMA GatewaySideStep ==
  ASSUME FormInv, OutcomesOK, NEW c \in Calls, NEW m, NEW r, NEW call, GatewayMoves(c, m, r, call),
         NEW j \in JobIds, SoleSubmission(j)
  PROVE  SideStep(j)
<1>1. /\ calls'[c] = call /\ \A d \in Calls : d # c => calls'[d] = calls[d]
      /\ LifeInv /\ Sent(m) /\ Called(m, r) /\ UNCHANGED handlers
  BY OwnsStays DEF GatewayMoves, CallStep, FormInv
<1>2. Begins(c, m, r, call) \/ Looks(c, m, r, call) \/ Goes(c, m, r, call)
  BY DEF GatewayMoves
<1>3. /\ ClaimStored(j)' => ClaimStored(j) \/ Claiming(m, j)
      /\ CancelStored(j)' => CancelStored(j) \/ Canceling(m, j)
      /\ ~ Enqueuing(m, j) => Keeps(j)
      /\ \/ NoneLater(j)
         \/ /\ Queued(j)' => Queued(j)
            /\ \E g \in Faults : \A f \in Faults : f # g /\ Enqueuing(late'[f], j) => Enqueuing(late[f], j)
  BY <1>1, CalledSides
<1>4. RunSide(j)' => RunSide(j)
  <2>1. ~ Claiming(m, j)
    BY <1>2 DEF Begins, Looks, Goes, ReadRpcs, Claiming
  <2> QED BY <1>1, <1>3, <2>1 DEF RunSide
<1>5. CancelSide(j)' => CancelSide(j) \/ (Goes(c, m, r, call) /\ call.pc = "store" /\ call.job = j)
  <2>1. Canceling(m, j) => CancelSide(j)
    BY <1>2 DEF Begins, Looks, Goes, ReadRpcs, Canceling, CancelSide
  <2>2. call.pc \in {"store", "transition"} => Goes(c, m, r, call)
    BY <1>2 DEF Begins, Looks, HandPcs
  <2>3. Goes(c, m, r, call) /\ call.pc = "transition" /\ call.job = j => CancelSide(j)
    BY DEF Goes, CancelSide
  <2>4. ASSUME NEW d \in Calls, calls'[d].pc \in {"store", "transition"}, calls'[d].job = j
        PROVE  CancelSide(j) \/ (Goes(c, m, r, call) /\ call.pc = "store" /\ call.job = j)
    <3>1. CASE d = c
      BY <1>1, <2>2, <2>3, <2>4, <3>1
    <3>2. CASE d # c
      BY <1>1, <2>4, <3>2 DEF CancelSide
    <3> QED BY <3>1, <3>2
  <2>5. CancelSide(j)' => CancelStored(j)' \/ \E d \in Calls : calls'[d].pc \in {"store", "transition"} /\ calls'[d].job = j
    BY DEF CancelSide
  <2>6. CancelStored(j) => CancelSide(j)
    BY DEF CancelSide
  <2> QED BY <1>3, <2>1, <2>4, <2>5, <2>6
\* Only the call that created j enqueues it.
<1>6. Enqueuing(m, j) => Entering(j) /\ ~ Entering(j)' /\ ~ (call.pc = "store")
  <2>1. ASSUME Enqueuing(m, j)
        PROVE  Entering(j) /\ ~ Entering(j)' /\ call.pc # "store"
    <3>1. Goes(c, m, r, call) /\ calls[c].pc = "enqueue" /\ calls[c].job = j
      BY <1>2, <2>1 DEF Enqueuing, Begins, Looks, Goes, ReadRpcs
    <3>2. Submits(c)
      BY <3>1 DEF FormInv, CallForms, CallForm, Submits
    <3>3. c = j
      BY <3>1, <3>2, SoleIsOwner
    <3> QED BY <1>1, <2>1, <3>1, <3>3 DEF Entering, Goes, Enqueuing
  <2> QED BY <2>1
\* j becomes the job of a call of its own only when its id is drawn.
<1>7. Entering(j)' => Entering(j) \/ (j \notin issued /\ ~ Enqueuing(m, j) /\ ~ (call.pc = "store"))
  <2>1. CASE c # j
    BY <1>1, <2>1 DEF Entering, Calls
  <2>2. ASSUME c = j, call.pc = "enqueue", call.job = j
        PROVE  j \notin issued /\ ~ Enqueuing(m, j)
    <3>1. Begins(c, m, r, call) /\ r.code = "OK" /\ r.job = j /\ m.rpc = "CreateJob" /\ m.job = j
      BY <1>2, <2>2 DEF Begins, Looks, Goes, HandPcs
    <3>2. \/ m.job \notin issued
          \/ m.key # NoKey /\ Indexed(m.key) /\ r.job = EntryOf(m.key).job
      BY <1>1, <3>1, CreateAnswer
    <3>3. ~ Submits(j)
      BY <2>2, <3>1 DEF Begins, Submits, IdleCall
    <3>4. j \notin issued
      BY <3>3 DEF FormInv, Origins
    <3> QED BY <3>1, <3>4 DEF Enqueuing
  <2> QED BY <1>1, <2>1, <2>2 DEF Entering
<1>8. CASE Goes(c, m, r, call) /\ call.pc = "store" /\ call.job = j
  <2>1. m.rpc = "RemoveJobIfPresent" /\ r.code = "OK" /\ r.removed /\ m.job = j
    BY <1>8 DEF Goes
  <2>2. Serve(m) /\ r = ReplyTo(m)
    BY <1>1, <2>1 DEF Called, RpcError, ErrorReply
  <2>3. r = RemoveJobIfPresentReply(j) /\ RemoveJobIfPresent(j)
    BY <2>1, <2>2, ServedRpc DEF ReplyTo
  <2>4. Queued(j)
    BY <2>1, <2>3 DEF RemoveJobIfPresentReply
  <2>5. ~ Queued(j)'
    BY <1>1, <2>3, RemoveEffect DEF LifeInv, Inv, StoresOK
  <2>6. ~ Enqueuing(m, j)
    BY <2>1 DEF Enqueuing
  <2>7. Leaves(j) /\ OneSideGained(j)
    BY <1>3, <1>4, <2>4, <2>5, <2>6 DEF Leaves, Keeps, OneSideGained
  <2>8. Entering(j)' => Entering(j)
    BY <1>7, <1>8
  <2> QED BY <2>7, <2>8 DEF SideStep
<1>9. CASE ~ (Goes(c, m, r, call) /\ call.pc = "store" /\ call.job = j)
  <2>1. NoSideGained(j)
    BY <1>4, <1>5, <1>9 DEF NoSideGained
  <2>2. Keeps(j) \/ Enters(j)
    BY <1>3, <1>6 DEF Enters
  <2>3. (Entering(j)' => Entering(j)) \/ (j \notin issued /\ Keeps(j))
    BY <1>3, <1>7
  <2> QED BY <2>1, <2>2, <2>3 DEF SideStep
<1> QED BY <1>8, <1>9
LEMMA HandlerSideStep ==
  ASSUME FormInv, NEW h \in Handlers, NEW m, NEW r, NEW handler, Advances(h, m, r, handler),
         NEW j \in JobIds
  PROVE  SideStep(j)
<1>1. /\ handlers'[h] = handler /\ \A g \in Handlers : g # h => handlers'[g] = handlers[g]
      /\ LifeInv /\ Sent(m) /\ Called(m, r) /\ UNCHANGED calls
  BY DEF Advances, HandlerRpc, FormInv, LifeInv, Inv, HandlersOK
<1>2. \/ Dequeues(h, m, r, handler) \/ ClaimsJob(h, m, r, handler)
      \/ LooksUp(h, m, r, handler) \/ RecordsEnd(h, m, r, handler)
  BY DEF Advances
<1>3. ~ Canceling(m, j) /\ ~ Enqueuing(m, j) /\ (Claiming(m, j) => RunSide(j))
  <2>1. CASE Dequeues(h, m, r, handler) \/ LooksUp(h, m, r, handler)
    BY <2>1 DEF Dequeues, LooksUp, Canceling, Enqueuing, Claiming
  <2>2. CASE ClaimsJob(h, m, r, handler)
    BY <2>2 DEF ClaimsJob, TransitionRequest, Message, Canceling, Enqueuing, Claiming, RunSide
  <2>3. CASE RecordsEnd(h, m, r, handler)
    <3>1. m.to \in {"DONE", "FAILED"} /\ m.rpc \in {"TransitionJobStatus", "StoreResult"}
      BY <2>3, OutcomeFields DEF RecordsEnd, TransitionRequest, StoreRequest, Message
    <3> QED BY <3>1 DEF Canceling, Enqueuing, Claiming
  <2> QED BY <1>2, <2>1, <2>2, <2>3
<1>4. /\ ClaimStored(j)' => ClaimStored(j) \/ Claiming(m, j)
      /\ CancelStored(j)' => CancelStored(j)
      /\ Keeps(j)
  BY <1>1, <1>3, CalledSides
<1>5. CancelSide(j)' => CancelSide(j)
  BY <1>1, <1>4 DEF CancelSide
<1>6. Entering(j)' => Entering(j)
  BY <1>1 DEF Entering
<1>7. RunSide(j)' => RunSide(j) \/ (Dequeues(h, m, r, handler) /\ handler.pc = "claim" /\ handler.job = j)
  <2>1. handler.pc = "claim" => Dequeues(h, m, r, handler)
    BY <1>2 DEF ClaimsJob, LooksUp, RecordsEnd, Refused
  <2>2. ClaimStored(j)' => RunSide(j)
    BY <1>3, <1>4 DEF RunSide
  <2> QED BY <1>1, <2>1, <2>2 DEF RunSide
<1>8. CASE Dequeues(h, m, r, handler) /\ handler.pc = "claim" /\ handler.job = j
  <2>1. m.rpc = "DequeueJob" /\ Serve(m) /\ queue # <<>> /\ j = Head(queue)
    BY <1>8 DEF Dequeues, Refused
  <2>2. QueueInv
    BY <1>1 DEF LifeInv, Inv, StoresOK
  <2>3. Queued(j)
    <3>1. PICK len \in Nat : len = Len(queue) /\ len > 0
      BY <2>1, <2>2, LenProperties, EmptySeq DEF QueueInv, QueueTypeOK
    <3>2. Head(queue) = queue[1]
      BY <2>1, <2>2, HeadTailProperties DEF QueueInv, QueueTypeOK
    <3> QED BY <2>1, <3>1, <3>2 DEF Queued, Contains
  <2>4. ~ Queued(j)'
    BY <2>1, <2>2, ServedRpc, DequeueEffect
  <2>5. Leaves(j) /\ OneSideGained(j)
    BY <1>4, <1>5, <2>3, <2>4 DEF Leaves, Keeps, OneSideGained
  <2> QED BY <1>6, <2>5 DEF SideStep
<1>9. CASE ~ (Dequeues(h, m, r, handler) /\ handler.pc = "claim" /\ handler.job = j)
  BY <1>4, <1>5, <1>6, <1>7, <1>9 DEF SideStep, NoSideGained
<1> QED BY <1>8, <1>9

\* A request that is executed late is on the side of its sender, or enters the
\* job that its sender had to enter.
LEMMA LateSideStep ==
  ASSUME FormInv, NEW f \in Faults, ExecuteLate(f), NEW j \in JobIds
  PROVE  SideStep(j)
<1> DEFINE m == late[f]
<1>1. LifeInv /\ Sent(m) /\ Serve(m) /\ UNCHANGED <<calls, handlers>>
  BY DEF ExecuteLate, FormInv, LifeInv, Inv, LateOK, NamesOK, Sent
<1>2. late'[f] = Spent /\ \A g \in Faults : g # f => late'[g] = late[g]
  BY DEF ExecuteLate, FormInv, LifeInv, Inv, LateOK
<1>3. ~ Enqueuing(Spent, j) /\ ~ Claiming(Spent, j) /\ ~ Canceling(Spent, j)
  BY SpentRpc DEF Enqueuing, Claiming, Canceling
<1>4. /\ Claiming(m, j) => ClaimStored(j)
      /\ Canceling(m, j) => CancelStored(j)
  BY DEF ClaimStored, CancelStored
<1> HIDE DEF m
<1>5. /\ ~ Unclaimed(j)' => ~ Unclaimed(j) \/ Claiming(m, j)
      /\ results'[j] = "CANCELED" => results[j] = "CANCELED" \/ Canceling(m, j)
      /\ Queued(j)' => Queued(j) \/ Enqueuing(m, j)
  BY <1>1, ServedSides
<1>6. ClaimStored(j)' => ClaimStored(j)
  BY <1>2, <1>3, <1>4, <1>5 DEF ClaimStored
<1>7. CancelStored(j)' => CancelStored(j)
  BY <1>2, <1>3, <1>4, <1>5 DEF CancelStored
<1>8. NoSideGained(j) /\ (Entering(j)' => Entering(j))
  BY <1>1, <1>6, <1>7 DEF NoSideGained, RunSide, CancelSide, Entering
<1>9. Keeps(j) \/ EntersLate(j)
  BY <1>2, <1>3, <1>5 DEF Keeps, NoneLater, EntersLate, m
<1> QED BY <1>8, <1>9 DEF SideStep

\* The steps of the workers, and answers, take no side.
LEMMA OtherSideStep ==
  ASSUME NEW j \in JobIds, UNCHANGED <<jobs, queue, results, calls>>,
         \A f \in Faults : late'[f] = late[f] \/ late'[f] = Spent,
         \A h \in Handlers : handlers'[h] = handlers[h] \/ handlers'[h].pc # "claim"
  PROVE  SideStep(j)
<1>1. ~ Enqueuing(Spent, j) /\ ~ Claiming(Spent, j) /\ ~ Canceling(Spent, j)
  BY SpentRpc DEF Enqueuing, Claiming, Canceling
<1>2. Keeps(j)
  BY <1>1 DEF Keeps, NoneLater, Queued
<1>3. (ClaimStored(j)' => ClaimStored(j)) /\ (CancelStored(j)' => CancelStored(j))
  BY <1>1 DEF ClaimStored, CancelStored, Unclaimed, Status
<1>4. NoSideGained(j) /\ (Entering(j)' => Entering(j))
  BY <1>3 DEF NoSideGained, RunSide, CancelSide, Entering
<1> QED BY <1>2, <1>4 DEF SideStep

LEMMA WorkerSideStep ==
  ASSUME FormInv, NEW w \in Workers, WorkerStep(w) \/ Expire(w) \/ GiveUp(w) \/ Stop(w),
         NEW j \in JobIds
  PROVE  SideStep(j)
<1>1. WorkerUnchanged /\ (UNCHANGED late \/ Lose(Spent))
  <2>1. CASE WorkerStep(w)
    BY <2>1 DEF WorkerStep, Heartbeat, Execute, FetchWork, ReportWorkOutcome, Open
  <2> QED BY <2>1 DEF Expire, GiveUp, Stop, UseFault
<1>2. \A f \in Faults : late'[f] = late[f] \/ late'[f] = Spent
  BY <1>1, LoseOnly DEF FormInv
<1>3. \A h \in Handlers : handlers'[h] = handlers[h] \/ handlers'[h].pc # "claim"
  <2>1. ASSUME NEW g \in Handlers, NEW worker, NEW handler \in HandlerRecord, Open(w, g, worker, handler),
               handler.pc # "claim"
        PROVE  \A h \in Handlers : handlers'[h] = handlers[h] \/ handlers'[h].pc # "claim"
    <3>1. [handler EXCEPT !.worker = w].pc = handler.pc
      BY DEF HandlerRecord
    <3>2. handlers' = [handlers EXCEPT ![g] = [handler EXCEPT !.worker = w]]
      BY <2>1 DEF Open
    <3> QED BY <2>1, <3>1, <3>2 DEF FormInv, LifeInv, Inv, HandlersOK
  <2>2. IdleHandler \in HandlerRecord
    BY DEF IdleHandler, HandlerRecord, AnyJob, AnySpec
  <2>3. ASSUME NEW g \in Handlers, FetchWork(w, g)
        PROVE  \A h \in Handlers : handlers'[h] = handlers[h] \/ handlers'[h].pc # "claim"
    <3> DEFINE handler == [IdleHandler EXCEPT !.pc = "dequeue"]
    <3>1. handler \in HandlerRecord /\ handler.pc # "claim"
      BY <2>2 DEF HandlerRecord, FetchPcs
    <3>2. Open(w, g, [IdleWorker EXCEPT !.pc = "fetching"], handler)
      BY <2>3 DEF FetchWork
    <3> HIDE DEF handler
    <3> QED BY <2>1, <3>1, <3>2
  <2>4. ASSUME NEW g \in Handlers, ReportWorkOutcome(w, g)
        PROVE  \A h \in Handlers : handlers'[h] = handlers[h] \/ handlers'[h].pc # "claim"
    <3> DEFINE handler == [IdleHandler EXCEPT !.pc = "store", !.job = workers[w].job,
                                              !.spec = workers[w].spec]
    <3>1. workers[w].job \in AnyJob /\ workers[w].spec \in AnySpec
      BY DEF FormInv, LifeInv, Inv, WorkersOK, WorkerRecord
    <3>2. handler \in HandlerRecord /\ handler.pc # "claim"
      BY <2>2, <3>1 DEF HandlerRecord, ReportPcs
    <3>3. Open(w, g, [workers[w] EXCEPT !.pc = "waiting"], handler)
      BY <2>4 DEF ReportWorkOutcome
    <3> HIDE DEF handler
    <3> QED BY <2>1, <3>2, <3>3
  <2>5. CASE Heartbeat(w) \/ Execute(w) \/ Expire(w) \/ GiveUp(w) \/ Stop(w)
    BY <2>5 DEF Heartbeat, Execute, Expire, GiveUp, Stop
  <2> QED BY <2>3, <2>4, <2>5 DEF WorkerStep
<1> QED BY <1>1, <1>2, <1>3, OtherSideStep DEF WorkerUnchanged

\* The sides, and the theorem.
LEMMA NextKeepsSides ==
  ASSUME FormInv, OutcomesOK, SidesOK, [Next]_vars
  PROVE  SidesOK'
<1> SUFFICES ASSUME NEW j \in JobIds, SoleSubmission(j)'
             PROVE  SideOK(j)'
  BY DEF SidesOK
<1>1. SoleSubmission(j) /\ SideStep(j)
  <2>1. ASSUME NEW c \in Calls, SubmitJob(c) \/ CancelJob(c) \/ GetJobResult(c) \/ ContinueCall(c)
        PROVE  SoleSubmission(j) /\ SideStep(j)
    <3>1. PICK m, r, call : GatewayMoves(c, m, r, call)
      BY <2>1, GatewayIsAMove DEF FormInv
    <3>2. SoleSubmission(j)
      BY <3>1, SoleBefore DEF Calls
    <3> QED BY <3>1, <3>2, GatewaySideStep
  <2>2. UNCHANGED calls => SoleSubmission(j)
    BY DEF SoleSubmission
  <2>3. ASSUME NEW h \in Handlers, HandlerStep(h)
        PROVE  SoleSubmission(j) /\ SideStep(j)
    <3>1. CASE DeliverAnswer(h)
      <4>1. IdleHandler.pc = "idle"
        BY DEF IdleHandler
      <4>2. \A g \in Handlers : handlers'[g] = handlers[g] \/ handlers'[g].pc # "claim"
        BY <3>1, <4>1 DEF DeliverAnswer, FormInv, LifeInv, Inv, HandlersOK
      <4> QED BY <2>2, <3>1, <4>2, OtherSideStep DEF DeliverAnswer, WorkerUnchanged
    <3>2. CASE ~ DeliverAnswer(h)
      <4>1. PICK m, r, handler : Advances(h, m, r, handler)
        BY <2>3, <3>2, CoordinatorAdvances DEF HandlerStep, FormInv
      <4> QED BY <2>2, <4>1, HandlerSideStep DEF Advances, HandlerRpc
    <3> QED BY <3>1, <3>2
  <2>4. ASSUME NEW w \in Workers, WorkerStep(w) \/ Expire(w) \/ GiveUp(w) \/ Stop(w)
        PROVE  SoleSubmission(j) /\ SideStep(j)
    <3>1. UNCHANGED calls
      BY <2>4 DEF WorkerStep, Heartbeat, Execute, FetchWork, ReportWorkOutcome, Open,
                  Expire, GiveUp, Stop, WorkerUnchanged
    <3> QED BY <2>2, <2>4, <3>1, WorkerSideStep
  <2>5. ASSUME NEW f \in Faults, ExecuteLate(f)
        PROVE  SoleSubmission(j) /\ SideStep(j)
    BY <2>2, <2>5, LateSideStep DEF ExecuteLate
  <2>6. CASE UNCHANGED vars
    BY <2>2, <2>6, OtherSideStep DEF vars
  <2> QED BY <2>1, <2>3, <2>4, <2>5, <2>6 DEF Next
<1> QED BY <1>1, SideStepKeeps DEF SidesOK, FormInv

\* The envelope of a job that ended carries the status of its record, unless
\* its submission was repeated: no cancel, report, lost or late request of any
\* number of calls, workers and handlers makes them differ.
THEOREM EnvelopesMatchStatuses == Spec => []EnvelopeMatchesStatus
<1>1. ASSUME Init
      PROVE  SidesOK
  <2>1. /\ IdleHandler.pc = "idle" /\ IdleCall.pc = "idle" /\ NoRecord.status = UNSPECIFIED
    BY DEF IdleHandler, IdleCall, NoRecord
  <2>2. ASSUME NEW j \in JobIds
        PROVE  SideOK(j)
    <3>1. \A f \in Faults : ~ Enqueuing(late[f], j) /\ ~ Claiming(late[f], j) /\ ~ Canceling(late[f], j)
      BY <1>1, SpentRpc DEF Init, Enqueuing, Claiming, Canceling
    <3>2. ~ RunSide(j)
      BY <1>1, <2>1, <3>1 DEF Init, JobInit, RunSide, ClaimStored, Unclaimed, Status, UNSPECIFIED
    <3>3. ~ CancelSide(j)
      BY <1>1, <2>1, <3>1 DEF Init, ResultInit, NoEnvelope, UNSPECIFIED, CancelSide, CancelStored
    <3>4. ~ Entering(j)
      BY <1>1, <2>1 DEF Init, Entering, Calls
    <3> QED BY <3>1, <3>2, <3>3, <3>4 DEF SideOK, Untaken
  <2> QED BY <2>2 DEF SidesOK
<1>2. FormInv /\ OutcomesOK /\ SidesOK /\ [Next]_vars => SidesOK'
  BY NextKeepsSides
<1>3. FormInv /\ OutcomesOK /\ SidesOK => EnvelopeMatchesStatus
  <2>1. ASSUME FormInv, OutcomesOK, SidesOK, NEW j \in JobIds, Terminal(j), SoleSubmission(j)
        PROVE  results[j] = Status(j)
    <3>1. results[j] # NoEnvelope /\ results[j] \in TerminalStatuses \cup {NoEnvelope}
      BY <2>1 DEF FormInv, LifeInv, Inv, StoresOK, ResultTypeOK, TerminalHasEnvelope, HasEnvelope
    <3>2. results[j] \in {"DONE", "FAILED", "CANCELED"}
      BY <3>1 DEF TerminalStatuses
    <3>3. StoresTell(j) /\ SideOK(j)
      BY <2>1 DEF OutcomesOK, SidesOK
    <3>4. CASE Status(j) = "CANCELED"
      BY <3>2, <3>3, <3>4 DEF StoresTell, EndOf, Unclaimed
    <3>5. CASE Status(j) \in {"DONE", "FAILED"}
      <4>1. RunSide(j)
        BY <3>5 DEF RunSide, ClaimStored, Unclaimed
      <4>2. results[j] # "CANCELED"
        BY <3>3, <4>1 DEF SideOK, CancelSide, CancelStored
      <4> QED BY <3>2, <3>3, <3>5, <4>2 DEF StoresTell, EndOf
    <3> QED BY <2>1, <3>4, <3>5 DEF Terminal, TerminalStatuses
  <2> QED BY <2>1 DEF EnvelopeMatchesStatus
<1> QED BY <1>1, <1>2, <1>3, FormInvariant, OutcomeInvariant, PTL DEF Spec
-----------------------------------------------------------------------------
(***************************************************************************)
(* The price of claiming once.  A failure leaves a debt of one job that is *)
(* stranded, or may come to be: by a handler that will claim a job nobody  *)
(* waits for, by an answer at which a worker may drop an outcome, or by a  *)
(* claim that is executed late.  Without a failure no debt is made, though *)
(* the other debts turn into stranded jobs.                                *)
(***************************************************************************)
Running(j) == Status(j) = "RUNNING" /\ jobs[j].spec \notin BigSpecs

\* Worker w waits for the answer to its report.
Expects(w, h) == workers[w].pc = "waiting" /\ workers[w].via = h

\* Handler h will bring j to an end, or to a worker.
Serves(h, j) ==
  /\ handlers[h].job = j
  /\ \/ handlers[h].pc \in ReportPcs
     \/ /\ handlers[h].pc = "read" \/ (handlers[h].pc = "answer" /\ handlers[h].ok)
        /\ Listened(h)

Unheard(h) == handlers[h].pc \in {"dequeue", "claim"} /\ ~ Listened(h)

\* A worker is about to learn that h did not accept its report on j.
Rejects(h, j) == Refused(handlers[h]) /\ handlers[h].job = j /\ \E w \in Workers : Expects(w, h)

Claims(m) == m.rpc = "TransitionJobStatus" /\ m.to = "RUNNING"

StrandedJobs == {j \in JobIds : Stranded(j)}
Debtors == {h \in Handlers : Unheard(h) \/ \E j \in JobIds : Rejects(h, j) /\ Running(j)}
LateClaims == {f \in Faults : Claims(late[f])}
UsedFaults == {f \in Faults : ~ Available(f)}

DebtsAreCovered ==
  /\ IsFiniteSet(StrandedJobs) /\ IsFiniteSet(Debtors) /\ IsFiniteSet(LateClaims)
  /\ IsFiniteSet(UsedFaults)
  /\ Cardinality(StrandedJobs) + Cardinality(Debtors) + Cardinality(LateClaims)
       <= Cardinality(UsedFaults)

\* T has at most one element more, or one less, than S.
Gains(S, T) == \E x : T \subseteq S \cup {x}
Sheds(S, T) == \E x \in S : T \subseteq S \ {x}

SameFaults == UsedFaults' = UsedFaults
NewFault == \E f : f \notin UsedFaults /\ UsedFaults' = UsedFaults \cup {f}

NoNewDebt ==
  /\ StrandedJobs' \subseteq StrandedJobs
  /\ Debtors' \subseteq Debtors /\ LateClaims' \subseteq LateClaims

OneNewDebt ==
  \/ /\ Gains(StrandedJobs, StrandedJobs')
     /\ Debtors' \subseteq Debtors /\ LateClaims' \subseteq LateClaims
  \/ /\ Gains(Debtors, Debtors')
     /\ StrandedJobs' \subseteq StrandedJobs /\ LateClaims' \subseteq LateClaims
  \/ /\ Gains(LateClaims, LateClaims')
     /\ StrandedJobs' \subseteq StrandedJobs /\ Debtors' \subseteq Debtors

\* What might have stranded a job has done so.
DebtMoves ==
  /\ Gains(StrandedJobs, StrandedJobs')
  /\ \/ Sheds(Debtors, Debtors') /\ LateClaims' \subseteq LateClaims
     \/ Debtors' \subseteq Debtors /\ Sheds(LateClaims, LateClaims')

DebtStep ==
  \/ (SameFaults \/ NewFault) /\ NoNewDebt
  \/ NewFault /\ OneNewDebt
  \/ SameFaults /\ DebtMoves

LEMMA SubsetCounts ==
  ASSUME NEW S, NEW T, IsFiniteSet(S)
  PROVE  /\ Cardinality(S) \in Nat
         /\ T \subseteq S => /\ IsFiniteSet(T) /\ Cardinality(T) \in Nat
                             /\ Cardinality(T) <= Cardinality(S)
         /\ Gains(S, T) => /\ IsFiniteSet(T) /\ Cardinality(T) \in Nat
                           /\ Cardinality(T) <= Cardinality(S) + 1
         /\ Sheds(S, T) => /\ IsFiniteSet(T) /\ Cardinality(T) \in Nat
                           /\ Cardinality(T) <= Cardinality(S) - 1
<1>1. ASSUME NEW A, NEW B, IsFiniteSet(A), B \subseteq A
      PROVE  /\ IsFiniteSet(B) /\ Cardinality(A) \in Nat /\ Cardinality(B) \in Nat
             /\ Cardinality(B) <= Cardinality(A)
  BY <1>1, FS_Subset, FS_CardinalityType
<1>2. ASSUME NEW x, T \subseteq S \cup {x}
      PROVE  IsFiniteSet(T) /\ Cardinality(T) \in Nat /\ Cardinality(T) <= Cardinality(S) + 1
  <2>1. Cardinality(S) \in Nat
    BY FS_CardinalityType
  <2>2. IsFiniteSet(S \cup {x})
    BY FS_AddElement
  <2>3. Cardinality(S \cup {x}) = IF x \in S THEN Cardinality(S) ELSE Cardinality(S) + 1
    BY FS_AddElement
  <2> QED BY <1>1, <1>2, <2>1, <2>2, <2>3
<1>3. ASSUME NEW x \in S, T \subseteq S \ {x}
      PROVE  IsFiniteSet(T) /\ Cardinality(T) \in Nat /\ Cardinality(T) <= Cardinality(S) - 1
  <2>1. IsFiniteSet(S \ {x}) /\ Cardinality(S \ {x}) = Cardinality(S) - 1
    BY FS_RemoveElement
  <2> QED BY <1>1, <1>3, <2>1
<1>4. Cardinality(S) \in Nat
  BY FS_CardinalityType
<1>5. T \subseteq S => IsFiniteSet(T) /\ Cardinality(T) \in Nat /\ Cardinality(T) <= Cardinality(S)
  BY <1>1
<1>6. Gains(S, T) => /\ IsFiniteSet(T) /\ Cardinality(T) \in Nat
                     /\ Cardinality(T) <= Cardinality(S) + 1
  BY <1>2 DEF Gains
<1>7. Sheds(S, T) => /\ IsFiniteSet(T) /\ Cardinality(T) \in Nat
                     /\ Cardinality(T) <= Cardinality(S) - 1
  BY <1>3 DEF Sheds
<1> QED BY <1>4, <1>5, <1>6, <1>7

LEMMA DebtStepKeepsCover ==
  ASSUME DebtsAreCovered, DebtStep
  PROVE  DebtsAreCovered'
<1>1. ASSUME NewFault
      PROVE  /\ IsFiniteSet(UsedFaults') /\ Cardinality(UsedFaults) \in Nat
             /\ Cardinality(UsedFaults') = Cardinality(UsedFaults) + 1
  BY <1>1, FS_AddElement, FS_CardinalityType DEF NewFault, DebtsAreCovered
<1>2. Cardinality(UsedFaults) \in Nat
  BY SubsetCounts DEF DebtsAreCovered
<1>3. CASE (SameFaults \/ NewFault) /\ NoNewDebt
  BY <1>1, <1>2, <1>3, SubsetCounts DEF DebtsAreCovered, SameFaults, NoNewDebt
<1>4. CASE NewFault /\ OneNewDebt
  BY <1>1, <1>4, SubsetCounts DEF DebtsAreCovered, OneNewDebt
<1>5. CASE SameFaults /\ DebtMoves
  BY <1>2, <1>5, SubsetCounts DEF DebtsAreCovered, SameFaults, DebtMoves
<1> QED BY <1>3, <1>4, <1>5 DEF DebtStep
-----------------------------------------------------------------------------
(***************************************************************************)
(* What the debts rest on: a worker that has no job names none, and one    *)
(* that waits for an answer waits for that of its own job.                 *)
(***************************************************************************)
LinkOK(w) ==
  /\ workers[w].pc \in {"idle", "fetching", "stopped"} => workers[w].job = NoJob
  /\ \A h \in Handlers : Expects(w, h) =>
       /\ handlers[h].job = workers[w].job
       /\ handlers[h].pc = "answer" /\ handlers[h].ok => Status(workers[w].job) # "RUNNING"

LinksOK == \A w \in Workers : LinkOK(w)

DebtInv == FormInv /\ OutcomesOK /\ LinksOK

LEMMA RunningBefore ==
  ASSUME FormInv, StepOK, NEW j \in JobIds, Running(j)'
  PROVE  Running(j) \/ Status(j) = "QUEUED"
<1>1. Status(j) \in {"QUEUED", "RUNNING"}
  BY EveryStepIsAStatusStep DEF StepOK, StatusStep, Running
<1>2. CASE Status(j) = "RUNNING"
  <2>1. jobs'[j].spec = jobs[j].spec
    BY <1>2, ReportedStays DEF Unclaimed, FormInv
  <2> QED BY <1>2, <2>1 DEF Running
<1> QED BY <1>1, <1>2

\* A job that a worker reports was RUNNING before this step if it is after it.
LEMMA WaitingJobWasRunning ==
  ASSUME DebtInv, StepOK, NEW w \in Workers, NEW j, j = workers[w].job,
         workers[w].pc \in {"executing", "reporting", "waiting"}
  PROVE  /\ j \in JobIds /\ ~ Unclaimed(j)
         /\ Status(j)' = "RUNNING" => Status(j) = "RUNNING"
<1>1. j \in JobIds
  BY TellersAreNamed DEF DebtInv, FormInv
<1>2. ~ Unclaimed(j)
  BY DEF DebtInv, OutcomesOK, WorkerTells, Reported
<1>3. Status(j)' = "RUNNING" => Status(j) = "RUNNING"
  BY <1>1, <1>2, EveryStepIsAStatusStep DEF StepOK, StatusStep, Unclaimed
<1> QED BY <1>1, <1>2, <1>3

\* Only a claim that is served makes a job RUNNING.
LEMMA ServedRunning ==
  ASSUME FormInv, StepOK, NEW m, Sent(m), Serve(m), NEW j \in JobIds, Running(j)'
  PROVE  Running(j) \/ (Claims(m) /\ m.job = j /\ Status(j) = "QUEUED")
<1>1. CASE Running(j)
  BY <1>1
<1>2. CASE Status(j) = "QUEUED"
  <2>1. jobs'[j].status = "RUNNING" /\ jobs[j].status = "QUEUED"
    BY <1>2 DEF Running, Status
  <2>2. m.rpc = "TransitionJobStatus" /\ m.job = j /\ jobs'[j].status = m.to
    BY <2>1, ServeMoves DEF FormInv, UNSPECIFIED
  <2> QED BY <1>2, <2>1, <2>2 DEF Claims
<1> QED BY <1>1, <1>2, RunningBefore

LEMMA LoseCosts ==
  ASSUME LifeInv, NEW m, m.rpc # "none", Lose(m)
  PROVE  /\ NewFault /\ Gains(LateClaims, LateClaims')
         /\ ~ Claims(m) => LateClaims' \subseteq LateClaims
<1>1. PICK f \in Faults : Available(f) /\ late' = [late EXCEPT ![f] = m]
  BY DEF Lose
<1>2. late'[f] = m /\ \A g \in Faults : g # f => late'[g] = late[g]
  BY <1>1 DEF LifeInv, Inv, LateOK
<1>3. f \notin UsedFaults /\ UsedFaults' = UsedFaults \cup {f}
  BY <1>1, <1>2 DEF UsedFaults, Available
<1>4. LateClaims' \subseteq LateClaims \cup {f}
  BY <1>2 DEF LateClaims, Claims
<1>5. ~ Claims(m) => LateClaims' \subseteq LateClaims
  BY <1>2 DEF LateClaims, Claims
<1> QED BY <1>3, <1>4, <1>5 DEF NewFault, Gains

\* The two ways in which a request ends for its sender.
LEMMA CalledCosts ==
  ASSUME LifeInv, NEW m, NEW r, Called(m, r), m.rpc # "none"
  PROVE  \/ Serve(m) /\ r = ReplyTo(m) /\ SameFaults /\ LateClaims' \subseteq LateClaims
         \/ /\ UNCHANGED stores /\ r = RpcError /\ NewFault
            /\ Gains(LateClaims, LateClaims') /\ (~ Claims(m) => LateClaims' \subseteq LateClaims)
<1>1. CASE Serve(m) /\ r = ReplyTo(m) /\ UNCHANGED late
  BY <1>1 DEF SameFaults, UsedFaults, LateClaims, Claims, Available
<1>2. CASE Lose(m) /\ r = RpcError /\ UNCHANGED stores
  BY <1>2, LoseCosts
<1> QED BY <1>1, <1>2 DEF Called

LEMMA StrandedIs ==
  ASSUME NEW j
  PROVE  /\ Stranded(j) <=> /\ Running(j) /\ \A w \in Workers : workers[w].job # j
                            /\ \A h \in Handlers : ~ Serves(h, j)
         /\ Stranded(j)' <=> /\ Running(j)' /\ \A w \in Workers : workers'[w].job # j
                             /\ \A h \in Handlers : ~ Serves(h, j)'
<1>1. Attended(j) <=> (\E w \in Workers : workers[w].job = j) \/ \E h \in Handlers : Serves(h, j)
  BY DEF Attended, Serves, Listened
<1>2. Attended(j)' <=> (\E w \in Workers : workers'[w].job = j) \/ \E h \in Handlers : Serves(h, j)'
  BY DEF Attended, Serves, Listened
<1> QED BY <1>1, <1>2 DEF Stranded, Running

\* A job that was RUNNING, and is stranded, was so if nobody has left it.
LEMMA StrandedBefore ==
  ASSUME NEW j, Stranded(j)', Running(j),
         \A w \in Workers : workers[w].job = j => workers'[w].job = j,
         \A h \in Handlers : Serves(h, j) => Serves(h, j)'
  PROVE  Stranded(j)
BY StrandedIs

LEMMA DebtorBefore ==
  ASSUME DebtInv, StepOK, NEW g \in Handlers, g \in Debtors', handlers'[g] = handlers[g],
         Listened(g) => Listened(g)', \A w \in Workers : Expects(w, g)' => Expects(w, g)
  PROVE  g \in Debtors
<1>1. CASE Unheard(g)'
  BY <1>1 DEF Unheard, Debtors
<1>2. ASSUME NEW j \in JobIds, Rejects(g, j)', Running(j)'
      PROVE  Rejects(g, j) /\ Running(j)
  <2>1. PICK w \in Workers : Expects(w, g)
    BY <1>2 DEF Rejects
  <2>2. Rejects(g, j) /\ handlers[g].job = j
    BY <1>2, <2>1 DEF Rejects, Refused
  <2>3. workers[w].job = j /\ workers[w].pc = "waiting"
    BY <2>1, <2>2 DEF DebtInv, LinksOK, LinkOK, Expects
  <2>4. ~ Unclaimed(j)
    BY <2>3, WaitingJobWasRunning
  <2> QED BY <1>2, <2>2, <2>4, RunningBefore DEF DebtInv, Unclaimed
<1> QED BY <1>1, <1>2 DEF Debtors
-----------------------------------------------------------------------------
(***************************************************************************)
(* The debts in the steps of the coordinator.                              *)
(***************************************************************************)
LEMMA ExpectedIs ==
  ASSUME FormInv, NEW h \in Handlers
  PROVE  /\ handlers[h].pc \in FetchPcs => \A w \in Workers : ~ Expects(w, h)
         /\ handlers[h].pc \in ReportPcs => ~ Listened(h)
         /\ FetchPcs \cap ReportPcs = {} /\ "answer" \notin FetchPcs \cup ReportPcs
BY DEF FormInv, ClaimsOK, ListenOK, Expects, Listened, FetchPcs, ReportPcs

LEMMA RpcOfHandler ==
  ASSUME DebtInv, StepOK, NEW h \in Handlers, NEW m, NEW r, NEW handler,
         HandlerRpc(h, m, r, handler)
  PROVE  /\ Sent(m) /\ Called(m, r) /\ UNCHANGED workers
         /\ handlers'[h] = handler /\ \A g \in Handlers : g # h => handlers'[g] = handlers[g]
         /\ \A g \in Handlers : g # h /\ g \in Debtors' => g \in Debtors
         /\ \A j \in JobIds : Stranded(j)' /\ Running(j) /\ (Serves(h, j) => Serves(h, j)')
              => Stranded(j)
<1>1. /\ Sent(m) /\ Called(m, r) /\ UNCHANGED workers
      /\ handlers'[h] = handler /\ \A g \in Handlers : g # h => handlers'[g] = handlers[g]
  BY DEF HandlerRpc, DebtInv, FormInv, LifeInv, Inv, HandlersOK
<1>2. ASSUME NEW g \in Handlers, g # h, g \in Debtors'
      PROVE  g \in Debtors
  BY <1>1, <1>2, DebtorBefore DEF Listened, Expects
<1>3. ASSUME NEW j \in JobIds, Stranded(j)', Running(j), Serves(h, j) => Serves(h, j)'
      PROVE  Stranded(j)
  <2>1. \A g \in Handlers : Serves(g, j) => Serves(g, j)'
    BY <1>1, <1>3 DEF Serves, Listened
  <2> QED BY <1>1, <1>3, <2>1, StrandedBefore
<1> QED BY <1>1, <1>2, <1>3

\* A request that is served and claims nothing makes no debt, if its handler
\* goes on serving its job.
LEMMA ServedCallDebts ==
  ASSUME DebtInv, StepOK, NEW h \in Handlers, NEW m, NEW r, NEW handler,
         HandlerRpc(h, m, r, handler),
         Serve(m), SameFaults, LateClaims' \subseteq LateClaims, ~ Claims(m),
         \A j \in JobIds : Serves(h, j) /\ Running(j)' => Serves(h, j)',
         h \in Debtors' => h \in Debtors
  PROVE  DebtStep
<1>1. ASSUME NEW j \in JobIds, Stranded(j)'
      PROVE  Stranded(j)
  <2>1. Running(j)'
    BY <1>1, StrandedIs
  <2>2. Running(j)
    BY <2>1, ServedRunning, RpcOfHandler DEF DebtInv
  <2> QED BY <1>1, <2>1, <2>2, RpcOfHandler
<1>2. Debtors' \subseteq Debtors
  BY RpcOfHandler DEF Debtors
<1>3. StrandedJobs' \subseteq StrandedJobs
  BY <1>1 DEF StrandedJobs
<1> QED BY <1>2, <1>3 DEF DebtStep, NoNewDebt

\* A request that is lost leaves its job stranded, or a worker to be told so.
LEMMA LostCallDebts ==
  ASSUME DebtInv, StepOK, NEW h \in Handlers, NEW m, NEW r, NEW handler,
         HandlerRpc(h, m, r, handler),
         UNCHANGED stores, NewFault, LateClaims' \subseteq LateClaims,
         Refused(handler), handler.job = handlers[h].job
  PROVE  DebtStep
<1>1. \A j \in JobIds : Running(j)' => Running(j)
  BY DEF stores, Running, Status
<1>2. ~ Unheard(h)'
  BY RpcOfHandler DEF Unheard, Refused
<1>3. \A j \in JobIds : Serves(h, j) => j = handlers[h].job
  BY DEF Serves
<1>4. CASE \E w \in Workers : Expects(w, h)
  <2>1. PICK w \in Workers : Expects(w, h)
    BY <1>4
  <2>2. workers[w].job = handlers[h].job
    BY <2>1 DEF DebtInv, LinksOK, LinkOK
  <2>3. ASSUME NEW j \in JobIds, Stranded(j)'
        PROVE  Stranded(j)
    <3>1. Running(j)' /\ j # handlers[h].job
      BY <2>2, <2>3, StrandedIs, RpcOfHandler
    <3> QED BY <1>1, <1>3, <2>3, <3>1, RpcOfHandler
  <2>4. StrandedJobs' \subseteq StrandedJobs /\ Debtors' \subseteq Debtors \cup {h}
    BY <2>3, RpcOfHandler DEF StrandedJobs, Debtors
  <2> QED BY <2>4 DEF DebtStep, OneNewDebt, Gains
<1>5. CASE ~ \E w \in Workers : Expects(w, h)
  <2>1. h \notin Debtors'
    BY <1>2, <1>5, RpcOfHandler DEF Debtors, Rejects, Expects
  <2>2. ASSUME NEW j \in JobIds, Stranded(j)', j # handlers[h].job
        PROVE  Stranded(j)
    <3>1. Running(j)'
      BY <2>2, StrandedIs
    <3> QED BY <1>1, <1>3, <2>2, <3>1, RpcOfHandler
  <2>3. /\ StrandedJobs' \subseteq StrandedJobs \cup {handlers[h].job}
        /\ Debtors' \subseteq Debtors
    BY <2>1, <2>2, RpcOfHandler DEF StrandedJobs, Debtors
  <2> QED BY <2>3 DEF DebtStep, OneNewDebt, Gains
<1> QED BY <1>4, <1>5

\* The links of the workers, when handler h goes on.
LEMMA RpcKeepsLinks ==
  ASSUME DebtInv, StepOK, NEW h \in Handlers, NEW m, NEW r, NEW handler,
         HandlerRpc(h, m, r, handler),
         handlers[h].pc \in FetchPcs \cup ReportPcs,
         handlers[h].pc \in ReportPcs =>
           /\ handler.job = handlers[h].job
           /\ handler.pc = "answer" /\ handler.ok => jobs'[handler.job].status # "RUNNING"
  PROVE  LinksOK'
<1>1. /\ UNCHANGED workers /\ handlers'[h] = handler
      /\ \A g \in Handlers : g # h => handlers'[g] = handlers[g]
  BY RpcOfHandler
<1>2. ASSUME NEW w \in Workers, NEW g \in Handlers, Expects(w, g)
      PROVE  /\ handlers'[g].job = workers[w].job
             /\ handlers'[g].pc = "answer" /\ handlers'[g].ok =>
                  jobs'[workers[w].job].status # "RUNNING"
  <2>1. handlers[g].job = workers[w].job /\ workers[w].pc = "waiting"
    BY <1>2 DEF DebtInv, LinksOK, LinkOK, Expects
  <2>2. CASE g = h
    <3>1. handlers[h].pc \in ReportPcs
      BY <1>2, <2>2, ExpectedIs DEF DebtInv
    <3> QED BY <1>1, <2>1, <2>2, <3>1
  <2>3. CASE g # h
    <3>1. CASE handlers[g].pc = "answer" /\ handlers[g].ok
      <4>1. jobs[workers[w].job].status # "RUNNING"
        BY <1>2, <3>1 DEF DebtInv, LinksOK, LinkOK, Status
      <4>2. PICK j : j = workers[w].job
        OBVIOUS
      <4>3. jobs'[j].status # "RUNNING"
        BY <2>1, <4>1, <4>2, WaitingJobWasRunning DEF Status
      <4> QED BY <1>1, <2>1, <2>3, <4>2, <4>3
    <3>2. CASE ~ (handlers[g].pc = "answer" /\ handlers[g].ok)
      BY <1>1, <2>1, <2>3, <3>2
    <3> QED BY <3>1, <3>2
  <2> QED BY <2>2, <2>3
<1> QED BY <1>1, <1>2 DEF LinksOK, LinkOK, Expects, DebtInv, Status

\* A handler of a FetchWork rejects no report.
LEMMA FetchDebtor ==
  ASSUME DebtInv, StepOK, NEW h \in Handlers, NEW m, NEW r, NEW handler,
         HandlerRpc(h, m, r, handler),
         handlers[h].pc \in FetchPcs, h \in Debtors'
  PROVE  handler.pc \in {"dequeue", "claim"} /\ ~ Listened(h)
<1>1. UNCHANGED workers /\ handlers'[h] = handler /\ \A w \in Workers : ~ Expects(w, h)
  BY RpcOfHandler, ExpectedIs DEF DebtInv
<1>2. Unheard(h)'
  BY <1>1 DEF Debtors, Rejects, Expects
<1> QED BY <1>1, <1>2 DEF Unheard, Listened

LEMMA RpcErrorFields == RpcError.code # "OK"
BY DEF RpcError, ErrorReply

LEMMA FetchDequeueDebts ==
  ASSUME DebtInv, StepOK, NEW h \in Handlers, FetchDequeue(h)
  PROVE  DebtStep /\ LinksOK'
<1> DEFINE m == Request("DequeueJob", NoJob)
<1>1. handlers[h] \in HandlerRecord /\ handlers[h].pc = "dequeue"
  BY DEF FetchDequeue, DebtInv, FormInv, LifeInv, Inv, HandlersOK
<1>2. PICK r : HandlerRpc(h, m, r, AfterDequeue(handlers[h], r))
  BY FetchDequeueRpc DEF DebtInv, FormInv
<1> DEFINE next == AfterDequeue(handlers[h], r)
<1>3. /\ next.pc = "claim" \/ Refused(next)
      /\ r = RpcError => Refused(next) /\ next.job = handlers[h].job
  BY <1>1, RefusedFields, RpcErrorFields DEF AfterDequeue, HandlerRecord
<1>4. m.rpc = "DequeueJob" /\ HandlerRpc(h, m, r, next)
  BY <1>2 DEF Request, Message
<1> HIDE DEF m, next
<1>5. Called(m, r) /\ ~ Claims(m) /\ m.rpc # "none"
  BY <1>4 DEF HandlerRpc, Claims
<1>6. LinksOK'
  BY <1>1, <1>4, RpcKeepsLinks DEF FetchPcs, ReportPcs
<1>7. \A j \in JobIds : ~ Serves(h, j)
  BY <1>1 DEF Serves, ReportPcs
<1>8. h \in Debtors' => h \in Debtors
  BY <1>1, <1>4, FetchDebtor DEF Debtors, Unheard, FetchPcs
<1>9. CASE Serve(m) /\ SameFaults /\ LateClaims' \subseteq LateClaims
  BY <1>4, <1>5, <1>6, <1>7, <1>8, <1>9, ServedCallDebts
<1>10. CASE UNCHANGED stores /\ r = RpcError /\ NewFault /\ LateClaims' \subseteq LateClaims
  BY <1>3, <1>4, <1>6, <1>10, LostCallDebts
<1> QED BY <1>5, <1>9, <1>10, CalledCosts DEF DebtInv, FormInv

LEMMA FetchRescueDebts ==
  ASSUME DebtInv, StepOK, NEW h \in Handlers, FetchRescue(h)
  PROVE  DebtStep /\ LinksOK'
<1> DEFINE m == Request("GetJobRecord", handlers[h].job)
<1>1. handlers[h] \in HandlerRecord /\ handlers[h].pc = "recheck"
  BY DEF FetchRescue, DebtInv, FormInv, ClaimsOK, RecheckOK, LifeInv, Inv, HandlersOK
<1>2. PICK r : HandlerRpc(h, m, r, AfterRecheck(handlers[h], r))
  BY <1>1, FetchRecheckRpc DEF DebtInv, FormInv
<1> DEFINE next == AfterRecheck(handlers[h], r)
<1>3. /\ next.pc = "rescue" \/ Refused(next)
      /\ r = RpcError => Refused(next) /\ next.job = handlers[h].job
  BY <1>1, RpcErrorFields DEF AfterRecheck, HandlerRecord, Answer, Refused
<1>4. m.rpc = "GetJobRecord" /\ HandlerRpc(h, m, r, next)
  BY <1>2 DEF Request, Message
<1> HIDE DEF m, next
<1>5. Called(m, r) /\ ~ Claims(m) /\ m.rpc # "none"
  BY <1>4 DEF HandlerRpc, Claims
<1>6. LinksOK'
  BY <1>1, <1>4, RpcKeepsLinks DEF FetchPcs, ReportPcs
<1>7. \A j \in JobIds : ~ Serves(h, j)
  BY <1>1 DEF Serves, ReportPcs
<1>8. h \notin Debtors'
  BY <1>1, <1>3, <1>4, FetchDebtor DEF FetchPcs, Refused
<1>9. CASE Serve(m) /\ SameFaults /\ LateClaims' \subseteq LateClaims
  BY <1>4, <1>5, <1>6, <1>7, <1>8, <1>9, ServedCallDebts
<1>10. CASE UNCHANGED stores /\ r = RpcError /\ NewFault /\ LateClaims' \subseteq LateClaims
  BY <1>3, <1>4, <1>6, <1>10, LostCallDebts
<1> QED BY <1>5, <1>9, <1>10, CalledCosts DEF DebtInv, FormInv

LEMMA FetchReadDebts ==
  ASSUME DebtInv, StepOK, NEW h \in Handlers, FetchRead(h)
  PROVE  DebtStep /\ LinksOK'
<1> DEFINE m == Request("GetJobRecord", handlers[h].job)
<1>1. handlers[h] \in HandlerRecord /\ handlers[h].pc = "read"
  BY DEF FetchRead, DebtInv, FormInv, LifeInv, Inv, HandlersOK
<1>2. PICK r : HandlerRpc(h, m, r, AfterRead(handlers[h], r))
  BY FetchReadRpc DEF DebtInv, FormInv
<1> DEFINE next == AfterRead(handlers[h], r)
<1>3. /\ next.pc = "answer" /\ next.job = handlers[h].job
      /\ r.code = "OK" => next.ok
      /\ r = RpcError => Refused(next)
  BY <1>1, RpcErrorFields DEF AfterRead, HandlerRecord, Answer, Refused
<1>4. m.rpc = "GetJobRecord" /\ m.job = handlers[h].job /\ HandlerRpc(h, m, r, next)
  BY <1>2 DEF Request, Message
<1> HIDE DEF m, next
<1>5. /\ Called(m, r) /\ ~ Claims(m) /\ m.rpc # "none"
      /\ UNCHANGED workers /\ handlers'[h] = next
  BY <1>4, RpcOfHandler DEF HandlerRpc, Claims
<1>6. LinksOK'
  BY <1>1, <1>4, RpcKeepsLinks DEF FetchPcs, ReportPcs
<1>7. h \notin Debtors'
  BY <1>1, <1>3, <1>4, FetchDebtor DEF FetchPcs
<1>8. CASE Serve(m) /\ r = ReplyTo(m) /\ SameFaults /\ LateClaims' \subseteq LateClaims
  <2>1. ASSUME NEW j \in JobIds, Serves(h, j), Running(j)'
        PROVE  Serves(h, j)'
    <3>1. handlers[h].job = j /\ Listened(h)
      BY <1>1, <2>1 DEF Serves, ReportPcs
    <3>2. Status(j) = "RUNNING"
      BY <1>4, <1>8, <2>1, ServedRpc DEF ReadRpcs, stores, Running, Status
    <3>3. r.code = "OK"
      BY <1>4, <1>8, <3>1, <3>2 DEF ReplyTo, GetJobRecordReply, Known, Status, UNSPECIFIED
    <3> QED BY <1>3, <1>5, <3>1, <3>3 DEF Serves, Listened
  <2> QED BY <1>4, <1>5, <1>6, <1>7, <1>8, <2>1, ServedCallDebts
<1>9. CASE UNCHANGED stores /\ r = RpcError /\ NewFault /\ LateClaims' \subseteq LateClaims
  BY <1>3, <1>4, <1>6, <1>9, LostCallDebts
<1> QED BY <1>5, <1>8, <1>9, CalledCosts DEF DebtInv, FormInv

\* A claim that is made for nobody strands its job, and was a debt before; one
\* that is lost may be executed later.
LEMMA FetchClaimDebts ==
  ASSUME DebtInv, StepOK, NEW h \in Handlers, FetchClaim(h)
  PROVE  DebtStep /\ LinksOK'
<1>1. handlers[h] \in HandlerRecord /\ handlers[h].pc = "claim"
  BY DEF FetchClaim, DebtInv, FormInv, LifeInv, Inv, HandlersOK
<1>2. PICK j \in JobIds : j = handlers[h].job
  BY <1>1, HandlerIsNamed DEF DebtInv, FormInv
<1> DEFINE m == TransitionRequest(j, "QUEUED", "RUNNING")
<1>3. PICK r : HandlerRpc(h, m, r, AfterClaim(handlers[h], r))
  BY <1>2, FetchClaimRpc DEF DebtInv, FormInv
<1> DEFINE next == AfterClaim(handlers[h], r)
<1>4. /\ next.job = j /\ next.pc \in {"answer", "recheck", "read"}
      /\ r.code = "OK" /\ r.applied => next.pc = "read"
  BY <1>1, <1>2 DEF AfterClaim, HandlerRecord, Answer
<1>5. /\ m.rpc = "TransitionJobStatus" /\ m.job = j /\ m.from = "QUEUED" /\ m.to = "RUNNING"
      /\ m = TransitionRequest(j, "QUEUED", "RUNNING") /\ HandlerRpc(h, m, r, next)
  BY <1>3 DEF TransitionRequest, Message
<1> HIDE DEF m, next
<1>6. /\ Sent(m) /\ Called(m, r) /\ m.rpc # "none"
      /\ UNCHANGED workers /\ handlers'[h] = next
  BY <1>5, RpcOfHandler
<1>7. LinksOK'
  BY <1>1, <1>5, RpcKeepsLinks DEF FetchPcs, ReportPcs
<1>8. h \notin Debtors' /\ Debtors' \subseteq Debtors
  BY <1>1, <1>4, <1>5, FetchDebtor, RpcOfHandler DEF FetchPcs, Debtors
<1>9. \A i \in JobIds : Stranded(i)' /\ Running(i) => Stranded(i)
  <2>1. \A i \in JobIds : ~ Serves(h, i)
    BY <1>1 DEF Serves, ReportPcs
  <2> QED BY <1>5, <2>1, RpcOfHandler
<1>10. \A i \in JobIds : Stranded(i)' => Running(i)'
  BY StrandedIs
<1>11. CASE Serve(m) /\ r = ReplyTo(m) /\ SameFaults /\ LateClaims' \subseteq LateClaims
  <2>1. \A i \in JobIds : Stranded(i)' => Stranded(i) \/ (i = j /\ Status(j) = "QUEUED")
    BY <1>5, <1>6, <1>9, <1>10, <1>11, ServedRunning DEF DebtInv
  <2>2. CASE Status(j) # "QUEUED" \/ ~ Stranded(j)'
    <3>1. StrandedJobs' \subseteq StrandedJobs
      BY <2>1, <2>2 DEF StrandedJobs
    <3> QED BY <1>7, <1>8, <1>11, <3>1 DEF DebtStep, NoNewDebt
  <2>3. CASE Status(j) = "QUEUED" /\ Stranded(j)'
    <3>1. r = TransitionJobStatusReply(j, "QUEUED", "RUNNING")
      BY <1>5, <1>11 DEF ReplyTo
    <3>2. r.code = "OK"
      <4>1. <<"QUEUED", "RUNNING">> \in AllowedTransitions
        BY DEF AllowedTransitions
      <4> QED BY <2>3, <3>1, <4>1
        DEF TransitionJobStatusReply, UNSPECIFIED, Known, StatusReply, Status
    <3>3. r.applied
      BY <1>5, <1>6, <2>3, <3>2, AppliedClaim DEF DebtInv, FormInv, ClaimInv
    <3>4. next.pc = "read"
      BY <1>4, <3>2, <3>3
    <3>5. ~ Listened(h)
      <4>1. ~ Serves(h, j)'
        BY <2>3, StrandedIs
      <4> QED BY <1>4, <1>6, <3>4, <4>1 DEF Serves, Listened
    <3>6. h \in Debtors
      BY <1>1, <3>5 DEF Debtors, Unheard
    <3>7. StrandedJobs' \subseteq StrandedJobs \cup {j}
      BY <2>1 DEF StrandedJobs
    <3>8. Sheds(Debtors, Debtors') /\ Gains(StrandedJobs, StrandedJobs')
      BY <1>8, <3>6, <3>7 DEF Sheds, Gains
    <3> QED BY <1>7, <1>11, <3>8 DEF DebtStep, DebtMoves
  <2> QED BY <2>2, <2>3
<1>12. CASE UNCHANGED stores /\ NewFault /\ Gains(LateClaims, LateClaims')
  <2>1. \A i \in JobIds : Running(i)' => Running(i)
    BY <1>12 DEF stores, Running, Status
  <2>2. StrandedJobs' \subseteq StrandedJobs
    BY <1>9, <1>10, <2>1 DEF StrandedJobs
  <2> QED BY <1>7, <1>8, <1>12, <2>2 DEF DebtStep, OneNewDebt
<1> QED BY <1>6, <1>11, <1>12, CalledCosts DEF DebtInv, FormInv

\* A handler of a report makes a debt only when its request is lost: it serves
\* its job until the request that ends it is executed.
LEMMA ReportStoreDebts ==
  ASSUME DebtInv, StepOK, NEW h \in Handlers, ReportStore(h)
  PROVE  DebtStep /\ LinksOK'
<1>1. handlers[h] \in HandlerRecord /\ handlers[h].pc = "store"
  BY DEF ReportStore, DebtInv, FormInv, LifeInv, Inv, HandlersOK
<1>2. PICK j \in JobIds : j = handlers[h].job
  BY <1>1, HandlerIsNamed DEF DebtInv, FormInv
<1> DEFINE m == StoreRequest(j, Outcome(handlers[h].spec), handlers[h].spec)
<1>3. PICK r : HandlerRpc(h, m, r, AfterStore(handlers[h], r))
  BY <1>2, ReportStoreRpc DEF DebtInv, FormInv
<1> DEFINE next == AfterStore(handlers[h], r)
<1>4. /\ next.job = handlers[h].job
      /\ r.code = "OK" => next.pc = "finish"
      /\ next.pc = "finish" \/ Refused(next)
      /\ r = RpcError => Refused(next)
  BY <1>1, RpcErrorFields DEF AfterStore, HandlerRecord, Answer, Refused
<1>5. /\ m.rpc = "StoreResult" /\ m.job = j /\ m.to = Outcome(handlers[h].spec)
      /\ m.spec = handlers[h].spec /\ HandlerRpc(h, m, r, next)
  BY <1>3 DEF StoreRequest, Message
<1> HIDE DEF m, next
<1>6. /\ Sent(m) /\ Called(m, r) /\ m.rpc # "none" /\ ~ Claims(m)
      /\ UNCHANGED workers /\ handlers'[h] = next
  BY <1>5, RpcOfHandler DEF Claims
<1>7. LinksOK'
  BY <1>1, <1>4, <1>5, RpcKeepsLinks DEF FetchPcs, ReportPcs, Refused
<1>8. CASE Serve(m) /\ r = ReplyTo(m) /\ SameFaults /\ LateClaims' \subseteq LateClaims
  <2>1. jobs' = jobs
    BY <1>5, <1>8, ServedRpc
  <2>2. Running(j)' => next.pc = "finish"
    <3>1. handlers[h].spec = jobs[j].spec
      BY <1>1, <1>2 DEF DebtInv, OutcomesOK, HandlerTells, Tells, Reported, ReportPcs
    <3>2. Running(j)' => handlers[h].spec \notin BigSpecs
      BY <2>1, <3>1 DEF Running
    <3>3. r = StoreResultReply(j, Outcome(handlers[h].spec), handlers[h].spec \in BigSpecs)
      BY <1>5, <1>8 DEF ReplyTo
    <3>4. Running(j)' => r.code = "OK"
      BY <3>2, <3>3, OutcomeFields DEF StoreResultReply, Acceptable, StatusReply, TerminalStatuses
    <3> QED BY <1>4, <3>4
  <2>3. \A i \in JobIds : Serves(h, i) /\ Running(i)' => Serves(h, i)'
    BY <1>2, <1>4, <1>6, <2>2 DEF Serves, ReportPcs
  <2>4. h \notin Debtors'
    <3>1. next.pc # "dequeue" /\ next.pc # "claim"
      BY <1>4 DEF Refused
    <3>2. \A i \in JobIds : Rejects(h, i)' => i = j /\ Refused(next)
      BY <1>2, <1>4, <1>6 DEF Rejects
    <3> QED BY <1>6, <2>2, <3>1, <3>2 DEF Debtors, Unheard, Refused
  <2> QED BY <1>5, <1>6, <1>7, <1>8, <2>3, <2>4, ServedCallDebts
<1>9. CASE UNCHANGED stores /\ r = RpcError /\ NewFault /\ LateClaims' \subseteq LateClaims
  BY <1>4, <1>5, <1>7, <1>9, LostCallDebts
<1> QED BY <1>6, <1>8, <1>9, CalledCosts DEF DebtInv, FormInv

LEMMA ReportFinishDebts ==
  ASSUME DebtInv, StepOK, NEW h \in Handlers, ReportFinish(h)
  PROVE  DebtStep /\ LinksOK'
<1>1. handlers[h] \in HandlerRecord /\ handlers[h].pc = "finish"
  BY DEF ReportFinish, DebtInv, FormInv, LifeInv, Inv, HandlersOK
<1>2. PICK j \in JobIds : j = handlers[h].job
  BY <1>1, HandlerIsNamed DEF DebtInv, FormInv
<1> DEFINE m == TransitionRequest(j, "RUNNING", Outcome(handlers[h].spec))
<1>3. PICK r : HandlerRpc(h, m, r, AfterFinish(handlers[h], r))
  BY <1>2, ReportFinishRpc DEF DebtInv, FormInv
<1> DEFINE next == AfterFinish(handlers[h], r)
<1>4. /\ next.job = handlers[h].job /\ next.pc = "answer"
      /\ next.ok => r.code = "OK"
      /\ r = RpcError => Refused(next)
  BY <1>1, RpcErrorFields DEF AfterFinish, HandlerRecord, Answer, Refused
<1>5. /\ m.rpc = "TransitionJobStatus" /\ m.job = j /\ m.from = "RUNNING"
      /\ m.to = Outcome(handlers[h].spec) /\ HandlerRpc(h, m, r, next)
  BY <1>3 DEF TransitionRequest, Message
<1> HIDE DEF m, next
<1>6. /\ Sent(m) /\ Called(m, r) /\ m.rpc # "none" /\ ~ Claims(m)
      /\ UNCHANGED workers /\ handlers'[h] = next
  BY <1>5, OutcomeFields, RpcOfHandler DEF Claims
<1>7. CASE Serve(m) /\ r = ReplyTo(m) /\ SameFaults /\ LateClaims' \subseteq LateClaims
  <2>1. jobs'[j].status # "RUNNING"
    <3>1. PICK now \in Times : TransitionJobStatus(j, "RUNNING", Outcome(handlers[h].spec), now)
      BY <1>5, <1>7, ServedRpc
    <3>2. CASE jobs[j].status = "RUNNING"
      <4>1. /\ Matches(j, "RUNNING", Outcome(handlers[h].spec))
            /\ <<"RUNNING", Outcome(handlers[h].spec)>> \in AllowedTransitions
        BY <3>2, OutcomeFields DEF Matches, UNSPECIFIED, Known, AllowedTransitions
      <4>2. jobs \in [JobIds -> JobRecord \cup {NoRecord}] /\ jobs[j] \in JobRecord
        BY <3>2, KnownRecord
        DEF DebtInv, FormInv, LifeInv, Inv, StoresOK, JobTypeOK, Known, UNSPECIFIED
      <4>3. jobs'[j] = Transitioned(jobs[j], Outcome(handlers[h].spec), now)
        BY <3>1, <4>1, <4>2 DEF TransitionJobStatus
      <4>4. Transitioned(jobs[j], Outcome(handlers[h].spec), now).status = Outcome(handlers[h].spec)
        BY <4>2 DEF Transitioned, JobRecord
      <4> QED BY <4>3, <4>4, OutcomeFields
    <3>3. CASE jobs[j].status # "RUNNING"
      BY <3>1, <3>3 DEF TransitionJobStatus, Matches
    <3> QED BY <3>2, <3>3
  <2>2. \A i \in JobIds : Serves(h, i) => ~ Running(i)'
    BY <1>2, <2>1 DEF Serves, Running, Status
  <2>3. h \notin Debtors'
    <3>1. \A i \in JobIds : Rejects(h, i)' => i = j
      BY <1>2, <1>4, <1>6 DEF Rejects
    <3> QED BY <1>4, <1>6, <2>1, <3>1 DEF Debtors, Unheard, Running, Status
  <2>4. LinksOK'
    BY <1>1, <1>2, <1>4, <1>5, <2>1, RpcKeepsLinks DEF FetchPcs, ReportPcs
  <2> QED BY <1>5, <1>6, <1>7, <2>2, <2>3, <2>4, ServedCallDebts
<1>8. CASE UNCHANGED stores /\ r = RpcError /\ NewFault /\ LateClaims' \subseteq LateClaims
  <2>1. LinksOK'
    BY <1>1, <1>4, <1>5, <1>8, RpcKeepsLinks DEF FetchPcs, ReportPcs, Refused
  <2> QED BY <1>4, <1>5, <1>8, <2>1, LostCallDebts DEF Refused
<1> QED BY <1>6, <1>7, <1>8, CalledCosts DEF DebtInv, FormInv
-----------------------------------------------------------------------------
(***************************************************************************)
(* The debts in the other steps, and the theorem.                          *)
(***************************************************************************)
LEMMA LinkStays ==
  ASSUME DebtInv, StepOK, NEW w \in Workers, workers'[w] = workers[w],
         \A g \in Handlers : workers[w].via = g => handlers'[g] = handlers[g]
  PROVE  LinkOK(w)'
<1>1. PICK j : j = workers[w].job
  OBVIOUS
<1>2. workers[w].pc = "waiting" /\ jobs[j].status # "RUNNING" => jobs'[j].status # "RUNNING"
  BY <1>1, WaitingJobWasRunning DEF Status
<1> QED BY <1>1, <1>2 DEF DebtInv, LinksOK, LinkOK, Expects, Status

\* Steps of nobody but the stores, which leave handlers and workers alone.
LEMMA StoreStepDebts ==
  ASSUME DebtInv, StepOK, UNCHANGED <<handlers, workers>>
  PROVE  /\ LinksOK' /\ Debtors' \subseteq Debtors
         /\ \A j \in JobIds : Stranded(j)' => Running(j)' /\ (Running(j) => Stranded(j))
<1>1. LinksOK'
  BY LinkStays DEF LinksOK
<1>2. \A g \in Handlers : g \in Debtors' => g \in Debtors
  BY DebtorBefore DEF Listened, Expects
<1>3. ASSUME NEW j \in JobIds, Stranded(j)'
      PROVE  Running(j)' /\ (Running(j) => Stranded(j))
  <2>1. \A h \in Handlers : Serves(h, j) => Serves(h, j)'
    BY DEF Serves, Listened
  <2> QED BY <1>3, <2>1, StrandedIs, StrandedBefore
<1> QED BY <1>1, <1>2, <1>3 DEF Debtors

LEMMA GatewayDebts ==
  ASSUME DebtInv, StepOK, NEW c \in Calls, NEW m, NEW r, NEW call, GatewayMoves(c, m, r, call)
  PROVE  DebtStep /\ LinksOK'
<1>1. Sent(m) /\ Called(m, r) /\ UNCHANGED <<handlers, workers>>
  BY DEF GatewayMoves, CallStep
<1>2. ~ Claims(m)
  BY DEF GatewayMoves, Begins, Looks, Goes, ReadRpcs, Claims
<1>3. \A j \in JobIds : Running(j)' => Running(j)
  <2>1. CASE Serve(m)
    BY <1>1, <1>2, <2>1, ServedRunning DEF DebtInv
  <2>2. CASE UNCHANGED stores
    BY <2>2 DEF stores, Running, Status
  <2> QED BY <1>1, <2>1, <2>2 DEF Called
<1>4. (SameFaults \/ NewFault) /\ LateClaims' \subseteq LateClaims
  <2>1. CASE m.rpc # "none"
    BY <1>1, <1>2, <2>1, CalledCosts DEF DebtInv, FormInv
  <2>2. CASE m.rpc = "none"
    <3>1. \A f \in Faults : late'[f] = late[f] \/ late'[f] = m
      BY <1>1, LateAfter DEF DebtInv, FormInv
    <3>2. ~ Serve(m)
      BY <2>2 DEF Serve, ServeJob, ServeQueue, ReadRpcs
    <3>3. PICK f \in Faults : Available(f) /\ late' = [late EXCEPT ![f] = m]
      BY <1>1, <3>2 DEF Called, Lose
    <3>4. \A g \in Faults : Available(g)' <=> Available(g)
      BY <2>2, <3>3 DEF Available, DebtInv, FormInv, LifeInv, Inv, LateOK
    <3> QED BY <1>2, <3>1, <3>4 DEF SameFaults, UsedFaults, LateClaims, Claims
  <2> QED BY <2>1, <2>2
<1>5. StrandedJobs' \subseteq StrandedJobs
  BY <1>1, <1>3, StoreStepDebts DEF StrandedJobs
<1> QED BY <1>1, <1>4, <1>5, StoreStepDebts DEF DebtStep, NoNewDebt

LEMMA ExecuteLateDebts ==
  ASSUME DebtInv, StepOK, NEW f \in Faults, ExecuteLate(f)
  PROVE  DebtStep /\ LinksOK'
<1>1. PICK m : m = late[f]
  OBVIOUS
<1>2. Sent(m) /\ Serve(m) /\ UNCHANGED <<handlers, workers>> /\ m.rpc # "none"
  BY <1>1 DEF ExecuteLate, DebtInv, FormInv, LifeInv, Inv, LateOK, NamesOK, Sent, WriteRpcs
<1>3. late'[f] = Spent /\ \A g \in Faults : g # f => late'[g] = late[g]
  BY DEF ExecuteLate, DebtInv, FormInv, LifeInv, Inv, LateOK
<1>4. SameFaults /\ LateClaims' \subseteq LateClaims \ {f} /\ (f \in LateClaims <=> Claims(m))
  BY <1>1, <1>2, <1>3, SpentRpc DEF SameFaults, UsedFaults, Available, LateClaims, Claims
<1>5. \A j \in JobIds : Stranded(j)' => Stranded(j) \/ (Claims(m) /\ m.job = j)
  BY <1>2, StoreStepDebts, ServedRunning DEF DebtInv
<1>6. CASE Claims(m)
  <2>1. StrandedJobs' \subseteq StrandedJobs \cup {m.job}
    BY <1>5 DEF StrandedJobs
  <2>2. Gains(StrandedJobs, StrandedJobs') /\ Sheds(LateClaims, LateClaims')
    BY <1>4, <1>6, <2>1 DEF Gains, Sheds
  <2> QED BY <1>2, <1>4, <2>2, StoreStepDebts DEF DebtStep, DebtMoves
<1>7. CASE ~ Claims(m)
  <2>1. StrandedJobs' \subseteq StrandedJobs
    BY <1>5, <1>7 DEF StrandedJobs
  <2> QED BY <1>2, <1>4, <2>1, StoreStepDebts DEF DebtStep, NoNewDebt
<1> QED BY <1>6, <1>7

\* A worker that goes on without listening to anybody leaves at most its job,
\* or the handler that it listened to.
LEMMA WorkerMoveDebts ==
  ASSUME DebtInv, StepOK, NEW w \in Workers, NEW worker, WorkerUnchanged, UNCHANGED handlers,
         workers' = [workers EXCEPT ![w] = worker], worker.pc \notin {"fetching", "waiting"},
         worker.pc \in {"idle", "stopped"} => worker.job = NoJob
  PROVE  /\ LinksOK'
         /\ \/ StrandedJobs' \subseteq StrandedJobs /\ Gains(Debtors, Debtors')
            \/ Gains(StrandedJobs, StrandedJobs') /\ Debtors' \subseteq Debtors
         /\ workers[w].pc # "fetching" /\ worker.job = workers[w].job =>
              StrandedJobs' \subseteq StrandedJobs /\ Debtors' \subseteq Debtors
<1>1. workers'[w] = worker /\ \A v \in Workers : v # w => workers'[v] = workers[v]
  BY DEF DebtInv, FormInv, LifeInv, Inv, WorkersOK
<1>2. LinksOK'
  <2>1. LinkOK(w)'
    BY <1>1 DEF LinkOK, Expects
  <2>2. ASSUME NEW v \in Workers, v # w PROVE LinkOK(v)'
    BY <1>1, <2>2, LinkStays
  <2> QED BY <2>1, <2>2 DEF LinksOK
<1>3. /\ \A j \in JobIds : Stranded(j)' => Running(j)' /\ Running(j)
      /\ \A v \in Workers, g \in Handlers : Expects(v, g)' => Expects(v, g)
  <2>1. \A v \in Workers, g \in Handlers : Expects(v, g)' => Expects(v, g)
    BY <1>1 DEF Expects
  <2>2. \A j \in JobIds : Running(j)' => Running(j)
    BY DEF WorkerUnchanged, Running, Status
  <2> QED BY <2>1, <2>2, StrandedIs
<1>4. CASE workers[w].pc # "fetching"
  <2>1. \A g \in Handlers : Listened(g) => Listened(g)'
    BY <1>1, <1>4 DEF Listened
  <2>2. \A g \in Handlers : g \in Debtors' => g \in Debtors
    BY <1>3, <2>1, DebtorBefore
  <2>3. \A j \in JobIds, g \in Handlers : Serves(g, j) => Serves(g, j)'
    BY <2>1 DEF Serves
  <2>4. ASSUME NEW j \in JobIds, Stranded(j)', j # workers[w].job \/ worker.job = workers[w].job
        PROVE  Stranded(j)
    <3>1. \A v \in Workers : workers[v].job = j => workers'[v].job = j
      BY <1>1, <2>4
    <3> QED BY <1>3, <2>3, <2>4, <3>1, StrandedBefore
  <2>5. StrandedJobs' \subseteq StrandedJobs \cup {workers[w].job} /\ Debtors' \subseteq Debtors
    BY <2>2, <2>4 DEF StrandedJobs, Debtors
  <2>6. worker.job = workers[w].job => StrandedJobs' \subseteq StrandedJobs
    BY <2>4 DEF StrandedJobs
  <2> QED BY <1>2, <2>5, <2>6 DEF Gains
<1>5. CASE workers[w].pc = "fetching"
  <2> DEFINE h == workers[w].via
  <2>1. workers[w].job = NoJob
    BY <1>5 DEF DebtInv, LinksOK, LinkOK
  <2>2. \A g \in Handlers : g # h => (Listened(g) => Listened(g)')
    BY <1>1 DEF Listened
  <2>3. \A g \in Handlers : g # h /\ g \in Debtors' => g \in Debtors
    BY <1>3, <2>2, DebtorBefore
  <2>4. \A j \in JobIds, g \in Handlers : g # h => (Serves(g, j) => Serves(g, j)')
    BY <2>2 DEF Serves
  <2>5. \A j \in JobIds : \A v \in Workers : workers[v].job = j => workers'[v].job = j
    BY <1>1, <2>1, NullsAssumption
  <2>6. CASE h \in Handlers /\ handlers[h].pc \in {"dequeue", "claim"}
    <3>1. ASSUME NEW j \in JobIds, Stranded(j)'
          PROVE  Stranded(j)
      <4>1. \A g \in Handlers : Serves(g, j) => Serves(g, j)'
        BY <2>4, <2>6 DEF Serves, ReportPcs
      <4> QED BY <1>3, <2>5, <3>1, <4>1, StrandedBefore
    <3>2. StrandedJobs' \subseteq StrandedJobs
      BY <3>1 DEF StrandedJobs
    <3>3. Debtors' \subseteq Debtors \cup {h}
      BY <2>3 DEF Debtors
    <3> QED BY <1>2, <1>5, <3>2, <3>3 DEF Gains
  <2>7. CASE ~ (h \in Handlers /\ handlers[h].pc \in {"dequeue", "claim"})
    <3>1. ASSUME NEW g \in Handlers, g \in Debtors'
          PROVE  g \in Debtors
      <4>1. CASE g # h
        BY <2>3, <3>1, <4>1
      <4>2. CASE g = h
        <5>1. PICK j \in JobIds : Rejects(g, j)' /\ Running(j)'
          BY <2>7, <3>1, <4>2 DEF Debtors, Unheard
        <5>2. Rejects(g, j) /\ Running(j)
          BY <1>3, <5>1 DEF Rejects, WorkerUnchanged, Running, Status
        <5> QED BY <5>2 DEF Debtors
      <4> QED BY <4>1, <4>2
    <3>2. ASSUME NEW j \in JobIds, Stranded(j)', j # handlers[h].job
          PROVE  Stranded(j)
      <4>1. \A g \in Handlers : Serves(g, j) => Serves(g, j)'
        BY <2>4, <3>2 DEF Serves
      <4> QED BY <1>3, <2>5, <3>2, <4>1, StrandedBefore
    <3>3. StrandedJobs' \subseteq StrandedJobs \cup {handlers[h].job}
      BY <3>2 DEF StrandedJobs
    <3>4. Debtors' \subseteq Debtors
      BY <3>1 DEF Debtors
    <3> QED BY <1>2, <1>5, <3>3, <3>4 DEF Gains
  <2> QED BY <2>6, <2>7
<1> QED BY <1>4, <1>5

\* Nobody listens to a free handler, and it starts to serve w at once.
LEMMA OpenDebts ==
  ASSUME DebtInv, StepOK, NEW w \in Workers, NEW h \in Handlers,
         NEW worker \in WorkerRecord, NEW handler \in HandlerRecord, Open(w, h, worker, handler),
         workers[w].pc \in {"idle", "reporting"}, worker.job = workers[w].job,
         \/ worker.pc = "fetching" /\ handler.pc = "dequeue" /\ worker.job = NoJob
         \/ worker.pc = "waiting" /\ handler.pc = "store" /\ handler.job = worker.job
  PROVE  DebtStep /\ LinksOK'
<1> DEFINE nextWorker == [worker EXCEPT !.via = h]
           nextHandler == [handler EXCEPT !.worker = w]
<1>1. workers \in [Workers -> WorkerRecord] /\ handlers \in [Handlers -> HandlerRecord]
  BY DEF DebtInv, FormInv, LifeInv, Inv, WorkersOK, HandlersOK
<1>2. nextWorker.pc = worker.pc /\ nextWorker.job = worker.job /\ nextWorker.via = h
  BY DEF WorkerRecord
<1>3. nextHandler.pc = handler.pc /\ nextHandler.job = handler.job
  BY DEF HandlerRecord
<1>4. /\ workers'[w] = nextWorker /\ \A v \in Workers : v # w => workers'[v] = workers[v]
      /\ handlers'[h] = nextHandler /\ \A g \in Handlers : g # h => handlers'[g] = handlers[g]
      /\ handlers[h] = IdleHandler /\ WorkerUnchanged /\ UNCHANGED late
  BY <1>1 DEF Open
<1> HIDE DEF nextWorker, nextHandler
<1>5. /\ handlers[h].pc = "idle"
      /\ \A v \in Workers : workers[v].via # h
  <2>1. handlers[h].pc = "idle"
    BY <1>4 DEF IdleHandler
  <2> QED BY <2>1 DEF DebtInv, FormInv, ClaimsOK, ListenOK, FetchPcs, ReportPcs
<1>6. LinksOK'
  <2>1. LinkOK(w)'
    BY <1>2, <1>3, <1>4 DEF LinkOK, Expects
  <2>2. ASSUME NEW v \in Workers, v # w PROVE LinkOK(v)'
    BY <1>4, <1>5, <2>2, LinkStays
  <2> QED BY <2>1, <2>2 DEF LinksOK
<1>7. \A g \in Handlers : g # h => /\ Listened(g) => Listened(g)'
                                   /\ \A v \in Workers : Expects(v, g)' => Expects(v, g)
  BY <1>2, <1>4 DEF Listened, Expects
<1>8. ASSUME NEW g \in Handlers, g \in Debtors'
      PROVE  g \in Debtors
  <2>1. CASE g # h
    BY <1>4, <1>7, <1>8, <2>1, DebtorBefore
  <2>2. CASE g = h
    <3>1. handler.pc = "dequeue" => Listened(h)'
      BY <1>2, <1>4 DEF Listened
    <3> QED BY <1>3, <1>4, <1>8, <2>2, <3>1 DEF Debtors, Unheard, Rejects, Refused
  <2> QED BY <2>1, <2>2
<1>9. ASSUME NEW j \in JobIds, Stranded(j)'
      PROVE  Stranded(j)
  <2>1. \A v \in Workers : workers[v].job = j => workers'[v].job = j
    BY <1>2, <1>4
  <2>2. \A g \in Handlers : Serves(g, j) => Serves(g, j)'
    BY <1>4, <1>5, <1>7 DEF Serves, ReportPcs
  <2>3. Running(j)
    BY <1>4, <1>9, StrandedIs DEF WorkerUnchanged, Running, Status
  <2> QED BY <1>9, <2>1, <2>2, <2>3, StrandedBefore
<1>10. SameFaults /\ LateClaims' \subseteq LateClaims
  BY <1>4 DEF SameFaults, UsedFaults, LateClaims, Claims, Available
<1>11. StrandedJobs' \subseteq StrandedJobs /\ Debtors' \subseteq Debtors
  BY <1>8, <1>9 DEF StrandedJobs, Debtors
<1> QED BY <1>6, <1>10, <1>11 DEF DebtStep, NoNewDebt

LEMMA AnsweredJob ==
  ASSUME NEW worker \in WorkerRecord, NEW handler
  PROVE  /\ IdleWorker.job = NoJob /\ StoppedWorker.job = NoJob /\ StoppedWorker.pc = "stopped"
         /\ IdleWorker.pc = "idle"
         /\ RetryReport(worker).pc = "idle" => RetryReport(worker).job = NoJob
         /\ Answered(worker, handler).pc = "idle" => Answered(worker, handler).job = NoJob
<1>1. /\ IdleWorker.job = NoJob /\ StoppedWorker.job = NoJob /\ StoppedWorker.pc = "stopped"
      /\ IdleWorker.pc = "idle"
  BY DEF IdleWorker, StoppedWorker
<1>2. RetryReport(worker).pc = "idle" => RetryReport(worker).job = NoJob
  BY <1>1 DEF RetryReport, WorkerRecord
<1>3. Answered(worker, handler).pc = "idle" => Answered(worker, handler).job = NoJob
  <2>1. CASE worker.pc = "fetching" /\ handler.ok
    BY <2>1 DEF Answered, IdleWorker
  <2>2. CASE ~ (worker.pc = "fetching" /\ handler.ok)
    BY <1>1, <1>2, <2>2 DEF Answered
  <2> QED BY <2>1, <2>2
<1> QED BY <1>1, <1>2, <1>3

LEMMA UseFaultCosts ==
  ASSUME LifeInv, UseFault
  PROVE  NewFault /\ LateClaims' \subseteq LateClaims
BY LoseCosts, SpentRpc DEF UseFault, Claims

LEMMA WorkersDebts ==
  ASSUME DebtInv, StepOK, NEW w \in Workers,
         WorkerStep(w) \/ Expire(w) \/ GiveUp(w) \/ Stop(w)
  PROVE  DebtStep /\ LinksOK'
<1>1. workers \in [Workers -> WorkerRecord] /\ workers[w] \in WorkerRecord
  BY DEF DebtInv, FormInv, LifeInv, Inv, WorkersOK
<1>2. CASE Heartbeat(w) \/ Expire(w)
  <2>1. UNCHANGED <<handlers, workers>> /\ WorkerUnchanged
    BY <1>2 DEF Heartbeat, Expire
  <2>2. (SameFaults \/ NewFault) /\ LateClaims' \subseteq LateClaims
    <3>1. CASE UNCHANGED late
      BY <3>1 DEF SameFaults, UsedFaults, LateClaims, Claims, Available
    <3>2. CASE UseFault
      BY <3>2, UseFaultCosts DEF DebtInv, FormInv
    <3> QED BY <1>2, <3>1, <3>2 DEF Heartbeat, Expire
  <2>3. \A j \in JobIds : Running(j)' => Running(j)
    BY <2>1 DEF WorkerUnchanged, Running, Status
  <2>4. StrandedJobs' \subseteq StrandedJobs
    BY <2>1, <2>3, StoreStepDebts DEF StrandedJobs
  <2> QED BY <2>1, <2>2, <2>4, StoreStepDebts DEF DebtStep, NoNewDebt
<1>3. CASE Execute(w)
  <2> DEFINE worker == [workers[w] EXCEPT !.pc = "reporting", !.attempt = 1]
  <2>1. worker.pc = "reporting" /\ worker.job = workers[w].job
    BY <1>1 DEF WorkerRecord
  <2>2. /\ workers' = [workers EXCEPT ![w] = worker] /\ UNCHANGED <<handlers, late>>
        /\ WorkerUnchanged /\ workers[w].pc = "executing"
    BY <1>1, <1>3 DEF Execute
  <2> HIDE DEF worker
  <2>3. LinksOK' /\ StrandedJobs' \subseteq StrandedJobs /\ Debtors' \subseteq Debtors
    BY <2>1, <2>2, WorkerMoveDebts
  <2>4. SameFaults /\ LateClaims' \subseteq LateClaims
    BY <2>2 DEF SameFaults, UsedFaults, LateClaims, Claims, Available
  <2> QED BY <2>3, <2>4 DEF DebtStep, NoNewDebt
<1>4. CASE GiveUp(w) \/ Stop(w)
  <2>1. PICK worker : /\ workers' = [workers EXCEPT ![w] = worker]
                      /\ worker \in {IdleWorker, StoppedWorker, RetryReport(workers[w])}
    <3>1. CASE GiveUp(w)
      <4> DEFINE worker == IF workers[w].pc = "fetching" THEN IdleWorker
                                                         ELSE RetryReport(workers[w])
      <4>1. workers' = [workers EXCEPT ![w] = worker]
        BY <1>1, <3>1 DEF GiveUp
      <4>2. worker \in {IdleWorker, StoppedWorker, RetryReport(workers[w])}
        OBVIOUS
      <4> QED BY <4>1, <4>2
    <3>2. CASE Stop(w)
      BY <3>2 DEF Stop
    <3> QED BY <1>4, <3>1, <3>2
  <2>2. /\ worker.pc \notin {"fetching", "waiting"}
        /\ worker.pc \in {"idle", "stopped"} => worker.job = NoJob
    BY <1>1, <2>1, AnsweredJob, RetryReportFields
  <2>3. UseFault /\ WorkerUnchanged /\ UNCHANGED handlers
    BY <1>4 DEF GiveUp, Stop
  <2>4. NewFault /\ LateClaims' \subseteq LateClaims
    BY <2>3, UseFaultCosts DEF DebtInv, FormInv
  <2>5. /\ LinksOK'
        /\ \/ StrandedJobs' \subseteq StrandedJobs /\ Gains(Debtors, Debtors')
           \/ Gains(StrandedJobs, StrandedJobs') /\ Debtors' \subseteq Debtors
    BY <2>1, <2>2, <2>3, WorkerMoveDebts
  <2> QED BY <2>4, <2>5 DEF DebtStep, OneNewDebt
<1>5. ASSUME NEW h \in Handlers, FetchWork(w, h)
      PROVE  DebtStep /\ LinksOK'
  <2> DEFINE worker == [IdleWorker EXCEPT !.pc = "fetching"]
             handler == [IdleHandler EXCEPT !.pc = "dequeue"]
  <2>1. worker \in WorkerRecord /\ worker.pc = "fetching" /\ worker.job = NoJob
    <3>1. IdleWorker.job = NoJob
      BY DEF IdleWorker
    <3> QED BY <3>1, IdleWorkerIsGood DEF WorkerRecord
  <2>2. handler \in HandlerRecord /\ handler.pc = "dequeue"
    BY DEF IdleHandler, HandlerRecord, AnyJob, AnySpec, FetchPcs
  <2>3. Open(w, h, worker, handler) /\ workers[w].pc = "idle"
    BY <1>5 DEF FetchWork
  <2>4. workers[w].job = NoJob
    BY <2>3 DEF DebtInv, LinksOK, LinkOK
  <2> HIDE DEF worker, handler
  <2> QED BY <2>1, <2>2, <2>3, <2>4, OpenDebts
<1>6. ASSUME NEW h \in Handlers, ReportWorkOutcome(w, h)
      PROVE  DebtStep /\ LinksOK'
  <2> DEFINE worker == [workers[w] EXCEPT !.pc = "waiting"]
             handler == [IdleHandler EXCEPT !.pc = "store", !.job = workers[w].job,
                                            !.spec = workers[w].spec]
  <2>1. worker \in WorkerRecord /\ worker.pc = "waiting" /\ worker.job = workers[w].job
    BY <1>1 DEF WorkerRecord
  <2>2. IdleHandler \in HandlerRecord
    BY DEF IdleHandler, HandlerRecord, AnyJob, AnySpec
  <2>3. handler \in HandlerRecord /\ handler.pc = "store" /\ handler.job = workers[w].job
    BY <1>1, <2>2 DEF HandlerRecord, WorkerRecord, ReportPcs
  <2>4. Open(w, h, worker, handler) /\ workers[w].pc = "reporting"
    BY <1>6 DEF ReportWorkOutcome
  <2> HIDE DEF worker, handler
  <2> QED BY <2>1, <2>3, <2>4, OpenDebts
<1> QED BY <1>2, <1>3, <1>4, <1>5, <1>6 DEF WorkerStep

\* An answer that brings a job hands it on; one that refuses a report may be
\* the last that the worker waits for, which was a debt before.
LEMMA DeliverAnswerDebts ==
  ASSUME DebtInv, StepOK, NEW h \in Handlers, DeliverAnswer(h)
  PROVE  DebtStep /\ LinksOK'
<1>1. workers \in [Workers -> WorkerRecord] /\ handlers \in [Handlers -> HandlerRecord]
  BY DEF DebtInv, FormInv, LifeInv, Inv, WorkersOK, HandlersOK
<1>2. /\ handlers'[h] = IdleHandler /\ \A g \in Handlers : g # h => handlers'[g] = handlers[g]
      /\ \A w \in Workers : workers'[w] = IF workers[w].via = h
                                           THEN Answered(workers[w], handlers[h]) ELSE workers[w]
      /\ handlers[h].pc = "answer" /\ WorkerUnchanged /\ UNCHANGED late
  BY <1>1 DEF DeliverAnswer
<1>3. ASSUME NEW w \in Workers, workers[w].via = h
      PROVE  /\ workers[w].pc \in {"fetching", "waiting"}
             /\ workers'[w].pc \in {"executing", "reporting", "idle"}
             /\ workers'[w].pc = "idle" => workers'[w].job = NoJob
             /\ workers[w].pc = "fetching" /\ handlers[h].ok => workers'[w].job = handlers[h].job
  <2>1. workers[w].pc \in {"fetching", "waiting"} /\ workers'[w] = Answered(workers[w], handlers[h])
    BY <1>2, <1>3, ListenersAre DEF DebtInv
  <2>2. workers[w] \in WorkerRecord
    BY <1>1
  <2>3. Answered(workers[w], handlers[h]).pc \in {"executing", "reporting", "idle"}
    BY <2>1, <2>2, AnsweredFields
  <2>4. workers'[w].pc = "idle" => workers'[w].job = NoJob
    BY <2>1, <2>2, AnsweredJob
  <2>5. workers[w].pc = "fetching" /\ handlers[h].ok => workers'[w].job = handlers[h].job
    BY <2>1, <2>2, AnsweredFields
  <2> QED BY <2>1, <2>3, <2>4, <2>5
<1>4. LinksOK'
  <2>1. ASSUME NEW w \in Workers, workers[w].via = h PROVE LinkOK(w)'
    BY <1>3, <2>1 DEF LinkOK, Expects
  <2>2. ASSUME NEW w \in Workers, workers[w].via # h PROVE LinkOK(w)'
    BY <1>2, <2>2, LinkStays
  <2> QED BY <2>1, <2>2 DEF LinksOK
<1>5. \A g \in Handlers : g # h => /\ Listened(g) => Listened(g)'
                                   /\ \A w \in Workers : Expects(w, g)' => Expects(w, g)
  BY <1>2, <1>3 DEF Listened, Expects
<1>6. ASSUME NEW g \in Handlers, g \in Debtors'
      PROVE  g \in Debtors /\ g # h
  <2>1. g # h
    <3>1. IdleHandler.pc = "idle"
      BY DEF IdleHandler
    <3> QED BY <1>2, <1>6, <3>1 DEF Debtors, Unheard, Rejects, Refused
  <2> QED BY <1>2, <1>5, <1>6, <2>1, DebtorBefore
<1>7. ASSUME NEW j \in JobIds, Stranded(j)', ~ Stranded(j)
      PROVE  j = handlers[h].job /\ h \in Debtors
  <2>1. Running(j)
    BY <1>2, <1>7, StrandedIs DEF WorkerUnchanged, Running, Status
  <2>2. \A w \in Workers : workers'[w].job # j
    BY <1>7, StrandedIs
  <2>3. ASSUME NEW g \in Handlers, Serves(g, j) PROVE Serves(g, j)'
    <3>1. CASE g # h
      BY <1>2, <1>5, <2>3, <3>1 DEF Serves
    <3>2. CASE g = h
      <4>1. PICK w \in Workers : workers[w].via = h /\ workers[w].pc = "fetching"
        BY <1>2, <2>3, <3>2 DEF Serves, Listened, ReportPcs
      <4> QED BY <1>2, <1>3, <2>2, <2>3, <3>2, <4>1 DEF Serves, ReportPcs
    <3> QED BY <3>1, <3>2
  <2>4. PICK w \in Workers : workers[w].job = j /\ workers'[w].job # j
    BY <1>7, <2>1, <2>3, StrandedBefore
  <2>5. workers[w].via = h
    BY <1>2, <2>4
  <2>6. Expects(w, h)
    <3>1. workers[w].pc # "fetching"
      BY <2>4, NullsAssumption DEF DebtInv, LinksOK, LinkOK
    <3> QED BY <1>3, <2>5, <3>1 DEF Expects
  <2>7. Rejects(h, j)
    BY <1>2, <2>1, <2>4, <2>6 DEF DebtInv, LinksOK, LinkOK, Rejects, Refused, Running
  <2> QED BY <2>1, <2>7 DEF Debtors, Rejects
<1>8. SameFaults /\ LateClaims' \subseteq LateClaims
  BY <1>2 DEF SameFaults, UsedFaults, LateClaims, Claims, Available
<1>9. CASE h \in Debtors
  <2>1. /\ StrandedJobs' \subseteq StrandedJobs \cup {handlers[h].job}
        /\ Debtors' \subseteq Debtors \ {h}
    BY <1>6, <1>7 DEF StrandedJobs, Debtors
  <2>2. Gains(StrandedJobs, StrandedJobs') /\ Sheds(Debtors, Debtors')
    BY <1>9, <2>1 DEF Gains, Sheds
  <2> QED BY <1>4, <1>8, <2>2 DEF DebtStep, DebtMoves
<1>10. CASE h \notin Debtors
  <2>1. StrandedJobs' \subseteq StrandedJobs /\ Debtors' \subseteq Debtors
    BY <1>6, <1>7, <1>10 DEF StrandedJobs, Debtors
  <2> QED BY <1>4, <1>8, <2>1 DEF DebtStep, NoNewDebt
<1> QED BY <1>9, <1>10

LEMMA NextDebts ==
  ASSUME DebtInv, [Next]_vars
  PROVE  DebtStep /\ LinksOK'
<1>1. StepOK
  BY NextIsOK DEF DebtInv, FormInv
<1>2. ASSUME NEW c \in Calls, SubmitJob(c) \/ CancelJob(c) \/ GetJobResult(c) \/ ContinueCall(c)
      PROVE  DebtStep /\ LinksOK'
  <2>1. PICK m, r, call : GatewayMoves(c, m, r, call)
    BY <1>2, GatewayIsAMove DEF DebtInv, FormInv
  <2> QED BY <1>1, <2>1, GatewayDebts
<1>3. ASSUME NEW h \in Handlers, HandlerStep(h)
      PROVE  DebtStep /\ LinksOK'
  BY <1>1, <1>3, FetchDequeueDebts, FetchClaimDebts, FetchRescueDebts, FetchReadDebts,
     ReportStoreDebts, ReportFinishDebts, DeliverAnswerDebts DEF HandlerStep
<1>4. CASE UNCHANGED vars
  <2>1. UNCHANGED <<handlers, workers, late>> /\ UNCHANGED jobs
    BY <1>4 DEF vars
  <2>2. LinksOK' /\ Debtors' \subseteq Debtors
    BY <1>1, <2>1, StoreStepDebts
  <2>3. StrandedJobs' \subseteq StrandedJobs
    BY <1>1, <2>1, StoreStepDebts DEF StrandedJobs, Running, Status
  <2>4. SameFaults /\ LateClaims' \subseteq LateClaims
    BY <2>1 DEF SameFaults, UsedFaults, LateClaims, Claims, Available
  <2> QED BY <2>2, <2>3, <2>4 DEF DebtStep, NoNewDebt
<1> QED BY <1>1, <1>2, <1>3, <1>4, WorkersDebts, ExecuteLateDebts DEF Next

LEMMA NoDebtsAtFirst ==
  ASSUME Init
  PROVE  LinksOK /\ DebtsAreCovered
<1>1. IdleHandler.pc = "idle" /\ IdleWorker.pc = "idle" /\ IdleWorker.job = NoJob
  BY DEF IdleHandler, IdleWorker
<1>2. LinksOK
  BY <1>1 DEF Init, LinksOK, LinkOK, Expects
<1>3. Debtors = {}
  BY <1>1 DEF Init, Debtors, Unheard, Rejects, Refused
<1>4. LateClaims = {} /\ UsedFaults = {}
  <2>1. NoMessage.rpc = "none"
    BY DEF NoMessage, Request, Message
  <2> QED BY <2>1 DEF Init, LateClaims, Claims, UsedFaults, Available
<1>5. StrandedJobs = {}
  BY DEF Init, JobInit, StrandedJobs, Stranded, Status, NoRecord, UNSPECIFIED
<1> QED BY <1>2, <1>3, <1>4, <1>5, FS_EmptySet DEF DebtsAreCovered

\* A claimed job that nobody works on is RUNNING for ever, as the coordinator
\* never gives one back.  But each failure, a request or an answer that is lost,
\* a deadline that passes, a worker that expires or stops, leaves at most one.
THEOREM FailuresStrandOneJobEach == Spec => []EachFailureStrandsOneJob
<1>1. Init => LinksOK /\ DebtsAreCovered
  BY NoDebtsAtFirst
<1>2. FormInv /\ OutcomesOK /\ LinksOK /\ DebtsAreCovered /\ [Next]_vars
        => LinksOK' /\ DebtsAreCovered'
  BY NextDebts, DebtStepKeepsCover DEF DebtInv
<1>3. DebtsAreCovered => EachFailureStrandsOneJob
  <2> SUFFICES ASSUME DebtsAreCovered PROVE EachFailureStrandsOneJob
    OBVIOUS
  <2>1. /\ Cardinality(StrandedJobs) \in Nat /\ Cardinality(Debtors) \in Nat
        /\ Cardinality(LateClaims) \in Nat /\ Cardinality(UsedFaults) \in Nat
    BY SubsetCounts DEF DebtsAreCovered
  <2>2. Cardinality(StrandedJobs) <= Cardinality(UsedFaults)
    BY <2>1 DEF DebtsAreCovered
  <2> QED BY <2>2 DEF EachFailureStrandsOneJob, StrandedJobs, UsedFaults
<1> QED BY <1>1, <1>2, <1>3, FormInvariant, OutcomeInvariant, PTL DEF Spec
=============================================================================
