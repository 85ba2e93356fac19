----------------------------- MODULE TaskQueue -----------------------------
(***************************************************************************)
(* The distributed task queue: clients' calls on the gateway, the          *)
(* coordinator's handlers, the workers, and the Job, Queue and Result      *)
(* services they share.                                                    *)
(*                                                                         *)
(* Every handler is a sequence of RPCs, each a request to one store        *)
(* service.  One step of a handler sends its next request, and either the  *)
(* service executes it and the reply takes the handler to its next point,  *)
(* or the caller sees an RpcError.  In the second case the request may     *)
(* never arrive, may have been executed, or may be executed at any later   *)
(* time: the servicer runs to completion whatever the caller's deadline.   *)
(* Each failure uses up one member of Faults, which bounds them.           *)
(***************************************************************************)
EXTENDS JobService, QueueService, ResultService

CONSTANTS Workers,
          Handlers,     \* threads of the coordinator's server
          Faults,       \* failures that may still happen: the bound on them
          FailSpecs,    \* specs whose job_type contains "force-fail"
          BigSpecs,     \* specs whose output exceeds the Result service's cap
          MaxAttempts,  \* attempts a worker makes to report an outcome
          NoJob, NoSpec, NoWorker, NoHandler

ASSUME SpecsAssumption == FailSpecs \subseteq Specs /\ BigSpecs \subseteq Specs
ASSUME AttemptsAssumption == MaxAttempts \in Nat \ {0}
ASSUME NullsAssumption ==
  /\ NoJob \notin JobIds
  /\ NoSpec \notin Specs
  /\ NoWorker \notin Workers
  /\ NoHandler \notin Handlers

VARIABLES live,                 \* coordinator: workers whose heartbeat is fresh
          handlers,             \* coordinator: handler -> its progress
          workers,              \* worker -> its progress
          calls,                \* gateway: call -> its progress, then its response
          late,                 \* fault -> the request it failed, until executed
          runs                  \* job -> number of times a worker ran it

stores == <<jobs, dedup, issued, queue, results>>
vars == <<jobs, dedup, issued, queue, results,
          live, handlers, workers, calls, late, runs>>

\* The client RPCs on the gateway, each made at most once.  A job's id is a
\* UUID drawn by the CreateJob a call makes, and a call makes at most one: the
\* id it may draw names the call.
Calls == JobIds

AnyJob == JobIds \cup {NoJob}
AnySpec == Specs \cup {NoSpec}
AnyKey == Keys \cup {NoKey}
-----------------------------------------------------------------------------
(***************************************************************************)
(* Requests to the store services, their execution and their replies.      *)
(***************************************************************************)
ReadRpcs == {"GetJobRecord", "GetResult"}
WriteRpcs == {"CreateJob", "DeleteJobIfStatus", "TransitionJobStatus",
              "SetCancelRequested", "EnqueueJob", "DequeueJob",
              "RemoveJobIfPresent", "StoreResult"}

Messages == [rpc : ReadRpcs \cup WriteRpcs \cup {"none", "spent"}, job : AnyJob,
             spec : AnySpec, key : AnyKey, from : AnyStatus, to : AnyStatus]

Message(rpc, j, spec, key, from, to) ==
  [rpc |-> rpc, job |-> j, spec |-> spec, key |-> key, from |-> from, to |-> to]

\* A request with no argument but the job's id.
Request(rpc, j) == Message(rpc, j, NoSpec, NoKey, UNSPECIFIED, UNSPECIFIED)

NoMessage == Request("none", NoJob)

Spent == Request("spent", NoJob)

CreateRequest(j, spec, key) ==
  Message("CreateJob", j, spec, key, UNSPECIFIED, UNSPECIFIED)

DeleteRequest(j, expected) ==
  Message("DeleteJobIfStatus", j, NoSpec, NoKey, expected, UNSPECIFIED)

TransitionRequest(j, from, to) ==
  Message("TransitionJobStatus", j, NoSpec, NoKey, from, to)

\* spec tells how large the output is; a cancel envelope has no output.
StoreRequest(j, status, spec) ==
  Message("StoreResult", j, spec, NoKey, UNSPECIFIED, status)

ServeJob(m) ==
  \/ m.rpc = "CreateJob" /\ CreateJob(m.spec, m.key, m.job)
  \/ m.rpc = "DeleteJobIfStatus" /\ DeleteJobIfStatus(m.job, m.from)
  \/ m.rpc = "TransitionJobStatus" /\ \E now \in Times : TransitionJobStatus(m.job, m.from, m.to, now)
  \/ m.rpc = "SetCancelRequested" /\ SetCancelRequested(m.job, TRUE)

ServeQueue(m) ==
  \/ m.rpc = "EnqueueJob" /\ EnqueueJob(m.job)
  \/ m.rpc = "DequeueJob" /\ DequeueJob
  \/ m.rpc = "RemoveJobIfPresent" /\ RemoveJobIfPresent(m.job)

Serve(m) ==
  \/ ServeJob(m) /\ UNCHANGED <<queue, results>>
  \/ ServeQueue(m) /\ UNCHANGED <<jobs, dedup, issued, results>>
  \/ /\ m.rpc = "StoreResult"
     /\ StoreResult(m.job, m.to, m.spec \in BigSpecs)
     /\ UNCHANGED <<jobs, dedup, issued, queue>>
  \/ m.rpc \in ReadRpcs /\ UNCHANGED stores

ReplyTo(m) ==
  CASE m.rpc = "CreateJob"           -> CreateJobReply(m.spec, m.key, m.job)
    [] m.rpc = "DeleteJobIfStatus"   -> DeleteJobIfStatusReply(m.job, m.from)
    [] m.rpc = "GetJobRecord"        -> GetJobRecordReply(m.job)
    [] m.rpc = "TransitionJobStatus" -> TransitionJobStatusReply(m.job, m.from, m.to)
    [] m.rpc = "SetCancelRequested"  -> SetCancelRequestedReply(m.job, TRUE)
    [] m.rpc = "EnqueueJob"          -> [code |-> "OK"]
    [] m.rpc = "DequeueJob"          -> DequeueJobReply
    [] m.rpc = "RemoveJobIfPresent"  -> RemoveJobIfPresentReply(m.job)
    [] m.rpc = "StoreResult"         -> StoreResultReply(m.job, m.to, m.spec \in BigSpecs)
    [] m.rpc = "GetResult"           -> GetResultReply(m.job)

Available(f) == late[f].rpc = "none"

\* The caller of m gives up on it; m may still be executed.
Lose(m) == \E f \in Faults : Available(f) /\ late' = [late EXCEPT ![f] = m]

RpcError == ErrorReply("DEADLINE_EXCEEDED")

\* A request whose caller is gone is executed after all.  Reads that come late
\* have no effect and no reader.
ExecuteLate(f) ==
  /\ late[f].rpc \in WriteRpcs
  /\ Serve(late[f])
  /\ late' = [late EXCEPT ![f] = Spent]
  /\ UNCHANGED <<live, handlers, workers, calls, runs>>
-----------------------------------------------------------------------------
(***************************************************************************)
(* The gateway (services/gateway/servicer.py).  A call's record holds its  *)
(* point of control, the request, the first status it read, and, once      *)
(* done, the response the client gets.                                     *)
(***************************************************************************)
CallPcs == {"idle", "enqueue", "compensate", "remove", "store", "transition",
            "flag", "result", "done"}

Codes == {"NONE", "OK", "INVALID_ARGUMENT", "NOT_FOUND", "FAILED_PRECONDITION",
          "UNAVAILABLE", "INTERNAL"}

CallRecord == [pc : CallPcs, op : {"none", "submit", "cancel", "read"},
               key : AnyKey, spec : AnySpec, job : AnyJob, seen : AnyStatus,
               code : Codes, status : AnyStatus, already : BOOLEAN]

IdleCall == [pc |-> "idle", op |-> "none", key |-> NoKey, spec |-> NoSpec,
             job |-> NoJob, seen |-> UNSPECIFIED,
             code |-> "NONE", status |-> UNSPECIFIED, already |-> FALSE]

\* The status a downstream failure becomes for the client.
Mapped(code) ==
  IF code \in {"INVALID_ARGUMENT", "NOT_FOUND", "FAILED_PRECONDITION"} THEN code
  ELSE IF code \in {"UNAVAILABLE", "DEADLINE_EXCEEDED", "RESOURCE_EXHAUSTED"}
    THEN "UNAVAILABLE"
  ELSE "INTERNAL"

Fail(call, code) == [call EXCEPT !.pc = "done", !.code = code]

Respond(call, status, already) ==
  [call EXCEPT !.pc = "done", !.code = "OK", !.status = status, !.already = already]

GatewayCall(c, m, After(_)) ==
  /\ \/ /\ Serve(m)
        /\ calls' = [calls EXCEPT ![c] = After(ReplyTo(m))]
        /\ UNCHANGED late
     \/ /\ Lose(m)
        /\ calls' = [calls EXCEPT ![c] = After(RpcError)]
        /\ UNCHANGED stores
  /\ UNCHANGED <<live, handlers, workers, runs>>

\* Slips of the gateway that TLC must notice: a removed job that is only
\* flagged, a cancel that does not look whether it removed the job, and a
\* rollback that tells the client its submission was accepted.
AfterRemoveOnlyFlags(call, r) ==
  IF r.code # "OK" THEN Fail(call, Mapped(r.code)) ELSE [call EXCEPT !.pc = "flag"]

AfterRemoveUnchecked(call, r) ==
  IF r.code # "OK" THEN Fail(call, Mapped(r.code)) ELSE [call EXCEPT !.pc = "store"]

SubmitCompensateAccepts(c) ==
  /\ calls[c].pc = "compensate"
  /\ GatewayCall(c, DeleteRequest(calls[c].job, "QUEUED"),
                 LAMBDA r : Respond(calls[c], "QUEUED", FALSE))

(* SubmitJob: create the record, enqueue it, and delete it if that fails.  *)

AfterCreate(call, r) ==
  IF r.code # "OK" THEN Fail(call, Mapped(r.code))
  ELSE IF r.status = "QUEUED"
    THEN [call EXCEPT !.job = r.job, !.status = r.status, !.pc = "enqueue"]
  ELSE Respond([call EXCEPT !.job = r.job], r.status, FALSE)

AfterEnqueue(call, r) ==
  IF r.code = "OK"
    THEN Respond(call, "QUEUED", FALSE)
    ELSE [call EXCEPT !.pc = "compensate"]

SubmitJob(c) ==
  /\ calls[c].pc = "idle"
  /\ \E spec \in Specs, key \in AnyKey :
       LET call == [calls[c] EXCEPT !.op = "submit", !.spec = spec, !.key = key]
       IN  GatewayCall(c, CreateRequest(c, spec, key), LAMBDA r : AfterCreate(call, r))

SubmitEnqueue(c) ==
  /\ calls[c].pc = "enqueue"
  /\ GatewayCall(c, Request("EnqueueJob", calls[c].job),
                 LAMBDA r : AfterEnqueue(calls[c], r))

\* Whatever the compensation does, the client is told UNAVAILABLE.
SubmitCompensate(c) ==
  /\ calls[c].pc = "compensate"
  /\ GatewayCall(c, DeleteRequest(calls[c].job, "QUEUED"),
                 LAMBDA r : Fail(calls[c], "UNAVAILABLE"))

(* CancelJob: a queued job is taken out of the queue, given its envelope   *)
(* and canceled; any other live job is only flagged.                       *)

AfterCancelRead(call, r) ==
  IF r.code # "OK" THEN Fail(call, Mapped(r.code))
  ELSE IF r.status \in TerminalStatuses
    THEN Respond([call EXCEPT !.seen = r.status], r.status, TRUE)
  ELSE [call EXCEPT !.seen = r.status,
                    !.pc = IF r.status = "QUEUED" THEN "remove" ELSE "flag"]

AfterRemove(call, r) ==
  IF r.code # "OK" THEN Fail(call, Mapped(r.code))
  ELSE [call EXCEPT !.pc = IF r.removed THEN "store" ELSE "flag"]

AfterCancelStore(call, r) ==
  IF r.code # "OK" THEN Fail(call, Mapped(r.code))
  ELSE IF r.status \notin TerminalStatuses THEN Fail(call, "INTERNAL")
  ELSE [call EXCEPT !.pc = "transition"]

AfterCancelTransition(call, r) ==
  IF r.code # "OK" THEN Fail(call, Mapped(r.code))
  ELSE IF r.applied THEN Respond(call, "CANCELED", FALSE)
  ELSE IF r.status \in TerminalStatuses THEN Respond(call, r.status, TRUE)
  ELSE [call EXCEPT !.pc = "flag"]

AfterFlag(call, r) ==
  IF r.code # "OK" THEN Fail(call, Mapped(r.code))
  ELSE Respond(call, r.status, r.status \in TerminalStatuses)

CancelJob(c) ==
  /\ calls[c].pc = "idle"
  /\ \E j \in issued :
       LET call == [calls[c] EXCEPT !.op = "cancel", !.job = j]
       IN  GatewayCall(c, Request("GetJobRecord", j), LAMBDA r : AfterCancelRead(call, r))

CancelRemove(c) ==
  /\ calls[c].pc = "remove"
  /\ GatewayCall(c, Request("RemoveJobIfPresent", calls[c].job),
                 LAMBDA r : AfterRemove(calls[c], r))

CancelStore(c) ==
  /\ calls[c].pc = "store"
  /\ GatewayCall(c, StoreRequest(calls[c].job, "CANCELED", NoSpec),
                 LAMBDA r : AfterCancelStore(calls[c], r))

CancelTransition(c) ==
  /\ calls[c].pc = "transition"
  /\ GatewayCall(c, TransitionRequest(calls[c].job, "QUEUED", "CANCELED"),
                 LAMBDA r : AfterCancelTransition(calls[c], r))

CancelFlag(c) ==
  /\ calls[c].pc = "flag"
  /\ GatewayCall(c, Request("SetCancelRequested", calls[c].job),
                 LAMBDA r : AfterFlag(calls[c], r))

(* GetJobResult: the record first, and the envelope of a terminal job.     *)

AfterResultRead(call, r) ==
  IF r.code # "OK" THEN Fail(call, Mapped(r.code))
  ELSE IF r.status \notin TerminalStatuses THEN Respond(call, UNSPECIFIED, FALSE)
  ELSE [call EXCEPT !.seen = r.status, !.pc = "result"]

AfterGetResult(call, r) ==
  IF r.code # "OK" THEN Fail(call, Mapped(r.code))
  ELSE IF ~ r.found \/ r.status # call.seen THEN Fail(call, "UNAVAILABLE")
  ELSE Respond(call, r.status, FALSE)

GetJobResult(c) ==
  /\ calls[c].pc = "idle"
  /\ \E j \in issued :
       LET call == [calls[c] EXCEPT !.op = "read", !.job = j]
       IN  GatewayCall(c, Request("GetJobRecord", j), LAMBDA r : AfterResultRead(call, r))

ReadEnvelope(c) ==
  /\ calls[c].pc = "result"
  /\ GatewayCall(c, Request("GetResult", calls[c].job),
                 LAMBDA r : AfterGetResult(calls[c], r))

ContinueCall(c) ==
  \/ SubmitEnqueue(c) \/ SubmitCompensate(c)
  \/ CancelRemove(c) \/ CancelStore(c) \/ CancelTransition(c) \/ CancelFlag(c)
  \/ ReadEnvelope(c)
-----------------------------------------------------------------------------
(***************************************************************************)
(* The coordinator (services/coordinator/servicer.py).  A handler serves   *)
(* one FetchWork or ReportWorkOutcome of a worker.  At "answer" its        *)
(* response is on its way to the worker that waits for it, if one does.    *)
(***************************************************************************)
FetchPcs == {"dequeue", "claim", "recheck", "rescue", "read"}
ReportPcs == {"store", "finish"}

HandlerRecord == [pc : {"idle", "answer"} \cup FetchPcs \cup ReportPcs,
                  worker : Workers \cup {NoWorker}, job : AnyJob, spec : AnySpec,
                  ok : BOOLEAN]

IdleHandler == [pc |-> "idle", worker |-> NoWorker, job |-> NoJob,
                spec |-> NoSpec, ok |-> FALSE]

Outcome(spec) == IF spec \in FailSpecs THEN "FAILED" ELSE "DONE"

Answer(handler, ok) == [handler EXCEPT !.pc = "answer", !.ok = ok]

HandlerCall(h, m, After(_)) ==
  /\ \/ /\ Serve(m)
        /\ handlers' = [handlers EXCEPT ![h] = After(ReplyTo(m))]
        /\ UNCHANGED late
     \/ /\ Lose(m)
        /\ handlers' = [handlers EXCEPT ![h] = After(RpcError)]
        /\ UNCHANGED stores
  /\ UNCHANGED <<live, workers, calls, runs>>

\* Slips of the coordinator that TLC must notice: a claim that failed taken for
\* one that was not applied, and a report that goes on when the envelope could not
\* be stored, or is refused when the job already had one.
AfterClaimRechecksErrors(handler, r) ==
  [handler EXCEPT !.pc = IF r.code = "OK" /\ r.applied THEN "read" ELSE "recheck"]

AfterStoreUnchecked(handler, r) == [handler EXCEPT !.pc = "finish"]

AfterStoreOnlyNew(handler, r) ==
  IF r.code # "OK" \/ ~ r.applied THEN Answer(handler, FALSE)
  ELSE [handler EXCEPT !.pc = "finish"]

AfterDequeue(handler, r) ==
  IF r.code = "OK" /\ r.found
    THEN [handler EXCEPT !.pc = "claim", !.job = r.job]
    ELSE Answer(handler, FALSE)

AfterClaim(handler, r) ==
  IF r.code # "OK" THEN Answer(handler, FALSE)
  ELSE [handler EXCEPT !.pc = IF r.applied THEN "read" ELSE "recheck"]

AfterRecheck(handler, r) ==
  IF r.code = "OK" /\ r.status = "QUEUED"
    THEN [handler EXCEPT !.pc = "rescue"]
    ELSE Answer(handler, FALSE)

AfterRead(handler, r) ==
  IF r.code # "OK" THEN Answer(handler, FALSE)
  ELSE Answer([handler EXCEPT !.spec = r.spec], TRUE)

AfterStore(handler, r) ==
  IF r.code # "OK" THEN Answer(handler, FALSE)
  ELSE [handler EXCEPT !.pc = "finish"]

AfterFinish(handler, r) ==
  Answer(handler, r.code = "OK" /\ (r.applied \/ r.status \in TerminalStatuses))

FetchDequeue(h) ==
  /\ handlers[h].pc = "dequeue"
  /\ HandlerCall(h, Request("DequeueJob", NoJob), LAMBDA r : AfterDequeue(handlers[h], r))

FetchClaim(h) ==
  /\ handlers[h].pc = "claim"
  /\ HandlerCall(h, TransitionRequest(handlers[h].job, "QUEUED", "RUNNING"),
                 LAMBDA r : AfterClaim(handlers[h], r))

\* A claim that was not applied re-reads the record, and would put the job
\* back into the queue if it were QUEUED after all.
FetchRescue(h) ==
  /\ handlers[h].pc \in {"recheck", "rescue"}
  /\ LET rechecks == handlers[h].pc = "recheck"
         m == Request(IF rechecks THEN "GetJobRecord" ELSE "EnqueueJob", handlers[h].job)
         After(r) == IF rechecks THEN AfterRecheck(handlers[h], r)
                                 ELSE Answer(handlers[h], FALSE)
     IN  HandlerCall(h, m, After)

FetchRead(h) ==
  /\ handlers[h].pc = "read"
  /\ HandlerCall(h, Request("GetJobRecord", handlers[h].job),
                 LAMBDA r : AfterRead(handlers[h], r))

ReportStore(h) ==
  /\ handlers[h].pc = "store"
  /\ HandlerCall(h, StoreRequest(handlers[h].job, Outcome(handlers[h].spec), handlers[h].spec),
                 LAMBDA r : AfterStore(handlers[h], r))

ReportFinish(h) ==
  /\ handlers[h].pc = "finish"
  /\ HandlerCall(h, TransitionRequest(handlers[h].job, "RUNNING", Outcome(handlers[h].spec)),
                 LAMBDA r : AfterFinish(handlers[h], r))
-----------------------------------------------------------------------------
(***************************************************************************)
(* The workers (services/worker/worker.py).  via is the handler a waiting  *)
(* worker listens to: when it gives up or stops, the handler goes on, and  *)
(* its answer reaches nobody.                                              *)
(***************************************************************************)
WorkerRecord == [pc : {"idle", "fetching", "executing", "reporting", "waiting", "stopped"},
                 via : Handlers \cup {NoHandler}, job : AnyJob, spec : AnySpec,
                 attempt : 0..MaxAttempts]

IdleWorker == [pc |-> "idle", via |-> NoHandler, job |-> NoJob, spec |-> NoSpec,
               attempt |-> 0]

StoppedWorker == [IdleWorker EXCEPT !.pc = "stopped"]

WorkerUnchanged == UNCHANGED <<jobs, dedup, issued, queue, results, calls>>

Heartbeat(w) ==
  /\ workers[w].pc = "idle"
  /\ live' = live \cup {w}
  /\ WorkerUnchanged /\ UNCHANGED <<handlers, workers, late, runs>>

\* Worker w's call starts on handler h.
Open(w, h, worker, handler) ==
  /\ handlers[h] = IdleHandler
  /\ handlers' = [handlers EXCEPT ![h] = [handler EXCEPT !.worker = w]]
  /\ workers' = [workers EXCEPT ![w] = [worker EXCEPT !.via = h]]
  /\ WorkerUnchanged /\ UNCHANGED <<live, late, runs>>

\* A FetchWork of a worker without a fresh heartbeat is refused at once.
FetchWork(w, h) ==
  /\ workers[w].pc = "idle"
  /\ w \in live
  /\ Open(w, h, [IdleWorker EXCEPT !.pc = "fetching"], [IdleHandler EXCEPT !.pc = "dequeue"])

Execute(w) ==
  /\ workers[w].pc = "executing"
  /\ workers' = [workers EXCEPT ![w].pc = "reporting", ![w].attempt = 1]
  /\ runs' = [runs EXCEPT ![workers[w].job] = @ + 1]
  /\ WorkerUnchanged /\ UNCHANGED <<live, handlers, late>>

ReportWorkOutcome(w, h) ==
  /\ workers[w].pc = "reporting"
  /\ Open(w, h, [workers[w] EXCEPT !.pc = "waiting"],
          [IdleHandler EXCEPT !.pc = "store", !.job = workers[w].job, !.spec = workers[w].spec])

\* A slip of the worker that TLC must notice: one attempt too many.
RetryReportOnceMore(worker) ==
  IF worker.attempt <= MaxAttempts
    THEN [worker EXCEPT !.pc = "reporting", !.via = NoHandler, !.attempt = @ + 1]
    ELSE IdleWorker

\* The worker after a report that was not accepted: it tries again, until its
\* attempts are used up and it drops the outcome.
RetryReport(worker) ==
  IF worker.attempt < MaxAttempts
    THEN [worker EXCEPT !.pc = "reporting", !.via = NoHandler, !.attempt = @ + 1]
    ELSE IdleWorker

\* The worker after an answer of handler to the call it waits for.
Answered(worker, handler) ==
  IF worker.pc = "fetching" THEN
    IF handler.ok
      THEN [IdleWorker EXCEPT !.pc = "executing", !.job = handler.job, !.spec = handler.spec]
      ELSE IdleWorker
  ELSE IF handler.ok THEN IdleWorker ELSE RetryReport(worker)

DeliverAnswer(h) ==
  /\ handlers[h].pc = "answer"
  /\ workers' = [w \in Workers |-> IF workers[w].via = h
                                     THEN Answered(workers[w], handlers[h])
                                     ELSE workers[w]]
  /\ handlers' = [handlers EXCEPT ![h] = IdleHandler]
  /\ WorkerUnchanged /\ UNCHANGED <<live, late, runs>>

\* A failure of a worker, counted with the failures of requests.
UseFault == Lose(Spent)

\* The coordinator drops a worker whose heartbeats did not arrive in time.
Expire(w) ==
  /\ w \in live
  /\ UseFault
  /\ live' = live \ {w}
  /\ WorkerUnchanged /\ UNCHANGED <<handlers, workers, runs>>

\* The worker's deadline passes before its call is answered.
GiveUp(w) ==
  /\ workers[w].pc \in {"fetching", "waiting"}
  /\ UseFault
  /\ workers' = [workers EXCEPT ![w] = IF @.pc = "fetching" THEN IdleWorker
                                                            ELSE RetryReport(@)]
  /\ WorkerUnchanged /\ UNCHANGED <<live, handlers, runs>>

\* A stopped worker forgets its job, also in the middle of executing it.
Stop(w) ==
  /\ workers[w].pc # "stopped"
  /\ UseFault
  /\ workers' = [workers EXCEPT ![w] = StoppedWorker]
  /\ WorkerUnchanged /\ UNCHANGED <<live, handlers, runs>>
-----------------------------------------------------------------------------
Init ==
  /\ JobInit /\ QueueInit /\ ResultInit
  /\ live = {}
  /\ handlers = [h \in Handlers |-> IdleHandler]
  /\ workers = [w \in Workers |-> IdleWorker]
  /\ calls = [c \in Calls |-> IdleCall]
  /\ late = [f \in Faults |-> NoMessage]
  /\ runs = [j \in JobIds |-> 0]

HandlerStep(h) ==
  \/ FetchDequeue(h) \/ FetchClaim(h) \/ FetchRescue(h) \/ FetchRead(h)
  \/ ReportStore(h) \/ ReportFinish(h) \/ DeliverAnswer(h)

WorkerStep(w) ==
  \/ Heartbeat(w) \/ Execute(w)
  \/ \E h \in Handlers : FetchWork(w, h) \/ ReportWorkOutcome(w, h)

Next ==
  \/ \E c \in Calls : SubmitJob(c) \/ CancelJob(c) \/ GetJobResult(c) \/ ContinueCall(c)
  \/ \E h \in Handlers : HandlerStep(h)
  \/ \E w \in Workers : WorkerStep(w) \/ Expire(w) \/ GiveUp(w) \/ Stop(w)
  \/ \E f \in Faults : ExecuteLate(f)

Spec == Init /\ [][Next]_vars

\* Handler threads that have started run on, and a worker's loop keeps turning.
\* Nothing forces a client to call.
Fairness ==
  /\ \A c \in Calls : WF_vars(ContinueCall(c))
  /\ \A h \in Handlers : WF_vars(HandlerStep(h))
  /\ \A w \in Workers :
       /\ WF_vars(Heartbeat(w))
       /\ WF_vars(Execute(w))
       /\ WF_vars(\E h \in Handlers : FetchWork(w, h))
       /\ WF_vars(\E h \in Handlers : ReportWorkOutcome(w, h))

FairSpec == Spec /\ Fairness
-----------------------------------------------------------------------------
TypeOK ==
  /\ JobTypeOK /\ QueueTypeOK /\ ResultTypeOK
  /\ live \subseteq Workers
  /\ handlers \in [Handlers -> HandlerRecord]
  /\ workers \in [Workers -> WorkerRecord]
  /\ calls \in [Calls -> CallRecord]
  /\ late \in [Faults -> Messages]
  /\ runs \in [JobIds -> Nat]

Status(j) == jobs[j].status
Terminal(j) == Status(j) \in TerminalStatuses

\* A job whose record is terminal has an envelope in the Result service: both
\* writers of a terminal status store the envelope first, and no lost,
\* late or repeated request, abandoned handler or stopped worker breaks that.
TerminalHasEnvelope == \A j \in JobIds : Terminal(j) => HasEnvelope(j)

\* No other submission was made under the key of the one that created j.
SoleSubmission(j) ==
  \A c \in Calls \ {j} :
    calls[c].op = "submit" /\ calls[c].key = calls[j].key => calls[c].key = NoKey

\* The envelope of a terminal job carries the status of its record, so that
\* GetJobResult can serve it, unless the job's submission was repeated: then
\* a job being canceled can enter the queue again and be run.
EnvelopeMatchesStatus ==
  \A j \in JobIds : Terminal(j) /\ SoleSubmission(j) => results[j] = Status(j)

\* A job is run at most once: the claim is a compare-and-set that no retried
\* fetch, duplicate queue entry or late request can repeat.  It is what the code
\* does; the documents fix at-least-once, which AssignedJobsAreExecuted states.
RunsAtMostOnce == \A j \in JobIds : runs[j] <= 1

\* Somebody still works on j: a worker has it, a handler reports it, or a worker
\* waits for the fetch that brings it.
Attended(j) ==
  \/ \E w \in Workers : workers[w].job = j
  \/ \E h \in Handlers :
       /\ handlers[h].job = j
       /\ \/ handlers[h].pc \in ReportPcs
          \/ /\ handlers[h].pc = "read" \/ (handlers[h].pc = "answer" /\ handlers[h].ok)
             /\ \E w \in Workers : workers[w].via = h /\ workers[w].pc = "fetching"

\* A job that is RUNNING for ever.  One whose output the Result service refuses
\* ends that way without any failure, and is left out.
Stranded(j) ==
  /\ Status(j) = "RUNNING" /\ ~ Attended(j)
  /\ jobs[j].spec \notin BigSpecs

\* Nothing gives a claimed job back: a failure can leave it RUNNING with nobody
\* working on it.  But it takes a failure of its own: a lost request or answer, a
\* deadline or a stop strands at most one job, and without them none is.
EachFailureStrandsOneJob ==
  Cardinality({j \in JobIds : Stranded(j)}) <=
    Cardinality({f \in Faults : ~ Available(f)})

\* A canceled job was not run and is in no worker's hands.
CanceledNeverRuns ==
  \A j \in JobIds : Status(j) = "CANCELED" =>
    /\ runs[j] = 0
    /\ \A w \in Workers : workers[w].job # j

\* FetchWork's rescue branch, which would put a job it failed to claim back
\* into the queue, is never taken: no job returns to QUEUED.
RescueIsDead == \A h \in Handlers : handlers[h].pc # "rescue"

\* Some handler still has to enqueue, claim or cancel j, or to delete it.
InHand(j) ==
  \/ \E c \in Calls : calls[c].job = j /\ calls[c].pc \in {"enqueue", "compensate",
                                                          "store", "transition"}
  \/ \E h \in Handlers : handlers[h].job = j /\ handlers[h].pc = "claim"

\* As long as nothing has failed, a job that is QUEUED is in the queue, or some
\* handler is about to put it there, to claim it or to cancel it: repeated
\* submissions, claims and cancels never drop it between the two services.
NoQueuedJobIsDropped ==
  (\A f \in Faults : Available(f)) =>
    \A j \in JobIds : Status(j) = "QUEUED" => Queued(j) \/ InHand(j)

Accepted(c) == calls[c].op = "submit" /\ calls[c].code = "OK"

\* The same of the jobs a client was told are accepted.
NoAcceptedJobIsDropped ==
  \A c \in Calls : Accepted(c) /\ Status(calls[c].job) = "QUEUED" =>
    Queued(calls[c].job) \/ InHand(calls[c].job)

\* Submissions under one key that are accepted name one job.
OneJobPerKey ==
  \A c, d \in Calls :
    Accepted(c) /\ Accepted(d) /\ calls[c].key = calls[d].key /\ calls[c].key # NoKey
      => calls[c].job = calls[d].job

\* The record of a job whose submission was accepted is never deleted: the
\* rollback of a submission leaves it alone, unless the submission was repeated:
\* then the rollback of one submission can delete what another was told of.
SoleAcceptedJobIsKept ==
  \A c \in Calls : Accepted(c) /\ SoleSubmission(calls[c].job)
    => Known(calls[c].job)

\* Repeating a submission, key and payload, is answered with the job it
\* created first and never with an internal error.
RepeatedSubmitSucceeds ==
  \A c \in Calls : calls[c].op = "submit" => calls[c].code # "INTERNAL"

\* GetJobResult never finds a terminal job without a matching envelope.
TerminalResultIsServed ==
  \A c \in Calls : calls[c].op = "read" => calls[c].code # "UNAVAILABLE"

\* Job by job, the system implements the lifecycle it promises.
Lifecycle == INSTANCE JobLifecycle
  WITH status <- [j \in JobIds |-> jobs[j].status], envelope <- results, used <- issued

ImplementsLifecycle == Lifecycle!Spec

\* Without failures every accepted job ends, unless the Result service refuses
\* its output: such a job stays RUNNING, without holding up the others.
AcceptedJobsEnd ==
  \A c \in Calls, j \in JobIds :
    (Accepted(c) /\ calls[c].job = j /\ calls[c].spec \notin BigSpecs) ~> Terminal(j)

\* Processing is at least once: a job that is claimed for a worker is run.
AssignedJobsAreExecuted ==
  \A j \in JobIds : Status(j) = "RUNNING" ~> runs[j] > 0
=============================================================================
