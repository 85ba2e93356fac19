------------------------------ MODULE Traffic ------------------------------
(***************************************************************************)
(* The live traffic of one benchmark phase (common/loadgen_contracts.py):  *)
(* the threads LiveTrafficEngine.run_phase starts, the calls               *)
(* GrpcPublicApiAdapter makes for them, their retries and their rows.      *)
(*                                                                         *)
(* A thread computes in no time; a call takes at least one tick of the     *)
(* clock and at most its deadline.  A call that fails may never reach the  *)
(* server, or be executed there at any later time.  A row stands for the   *)
(* fields the summary reads; a run's rows are a set, since every operation *)
(* adds one of its own and the final sort only fixes their order.          *)
(***************************************************************************)
EXTENDS DesignBRouting, FiniteSetsExt

CONSTANTS Threads,       \* the scenario's concurrency
          Designs, Modes,\* the scenarios' designs and client_request_id modes
          Mixes,         \* phase -> the shuffles its seed may give the request mix
          Deadline,      \* of one attempt, in ticks
          Interval,      \* between a thread's operations at the set rate; 0: none
          MaxAttempts,   \* RETRY_MAX_ATTEMPTS
          MaxFailures    \* calls that may fail: the bound on them

JobScopedMethods == {"GetJobStatus", "GetJobResult", "CancelJob"}
Methods == JobScopedMethods \cup {"SubmitJob", "ListJobs"}

ASSUME TrafficAssumption ==
  /\ Designs \subseteq {"A_microservices", "B_monolith"}
  /\ Modes \subseteq {"empty", "unique_non_empty"}
  /\ \A p \in {"warmup", "measure", "cooldown"} : \A mix \in Mixes[p] :
       mix \in Seq(Methods) /\ mix # <<>>
  /\ {Deadline, MaxAttempts} \subseteq Nat \ {0}
  /\ {Interval, MaxFailures} \subseteq Nat

VARIABLES scenario,   \* the scenario's design and mode
          clock,
          phase,      \* the phase the threads run, its run, its end, its request mix
          threads,    \* thread -> its progress
          known,      \* the run's job ids, from answered submissions
          rows,       \* the rows measured in this run
          failures,   \* calls that failed
          late,       \* requests of failed calls, not executed so far
          ended,      \* jobs that are terminal at their server
          author,     \* job -> the operation that created it
          begun       \* operations begun in the measured phase

traffic == <<scenario, clock, phase, threads, known, rows, failures, late,
             ended, author, begun>>
-----------------------------------------------------------------------------
\* An operation's name: in which phase, by whom, its index there, of which run.
Operation(t) == <<phase.name, t, threads[t].op, phase.run>>

NoThread == [pc |-> "done", method |-> "none", job |-> NoJob, key |-> NoKey,
             target |-> Gateway, attempt |-> 0, sent |-> 0, op |-> 0, due |-> 0]

Request(t) == [method |-> threads[t].method, target |-> threads[t].target,
               job |-> threads[t].job, key |-> threads[t].key, of |-> Operation(t)]

NoPhase == [name |-> "none", run |-> <<0, 0>>, recorded |-> FALSE, stop |-> 0,
            mix |-> <<>>, next |-> 1]

Replies == [code : {"OK", "NOT_FOUND", "INTERNAL"}, job : JobIds \cup {NoJob},
            terminal : BOOLEAN]

Reply(code, j, terminal) == [code |-> code, job |-> j, terminal |-> terminal]

Set(t, thread) == threads' = [threads EXCEPT ![t] = thread]
-----------------------------------------------------------------------------
(***************************************************************************)
(* The servers: the public API as a client sees it.                        *)
(***************************************************************************)
ServeSubmit(req, reply) ==
  /\ req.method = "SubmitJob"
  /\ \/ /\ Deduplicate(req.target, req.key, reply.job)
        /\ reply = Reply("OK", reply.job, FALSE)
        /\ UNCHANGED author
     \/ /\ Create(req.target, req.key, reply.job)
        /\ reply = Reply("OK", reply.job, FALSE)
        /\ author' = [author EXCEPT ![reply.job] = @ \cup {req.of}]
     \/ /\ DrawFails(req.target, req.key)
        /\ reply = Reply("INTERNAL", NoJob, FALSE)
        /\ UNCHANGED author
  /\ UNCHANGED <<order, rr, ended>>

\* A slip TLC must notice: a cancellation that is accepted counts as an end.
ServeJobCallAccepted(req, reply) ==
  /\ req.method \in JobScopedMethods
  /\ IF req.job \in created[req.target]
       THEN /\ \/ UNCHANGED ended
               \/ req.method = "CancelJob" /\ ended' = ended \cup {req.job}
            /\ reply = Reply("OK", req.job, req.method = "CancelJob" \/ req.job \in ended')
       ELSE UNCHANGED ended /\ reply = Reply("NOT_FOUND", req.job, FALSE)
  /\ UNCHANGED <<routing, author>>

\* A cancellation ends a queued job; a running one only hears of it.
ServeJobCall(req, reply) ==
  /\ req.method \in JobScopedMethods
  /\ IF req.job \in created[req.target]
       THEN /\ \/ UNCHANGED ended
               \/ req.method = "CancelJob" /\ ended' = ended \cup {req.job}
            /\ reply = Reply("OK", req.job, req.job \in ended')
       ELSE UNCHANGED ended /\ reply = Reply("NOT_FOUND", req.job, FALSE)
  /\ UNCHANGED <<routing, author>>

ServeList(req, reply) ==
  /\ req.method = "ListJobs"
  /\ reply = Reply("OK", NoJob, FALSE)
  /\ UNCHANGED <<routing, author, ended>>

Serve(req, reply) ==
  ServeSubmit(req, reply) \/ ServeJobCall(req, reply) \/ ServeList(req, reply)

\* A request whose caller gave it up is executed: nobody sees the reply.
ServeLate ==
  \E req \in late, reply \in Replies :
    /\ Serve(req, reply)
    /\ late' = late \ {req}
    /\ UNCHANGED <<scenario, clock, phase, threads, known, rows, failures, begun>>

\* A worker of the server finishes the job.
EndJob(j) ==
  /\ j \in Issued \ ended
  /\ ended' = ended \cup {j}
  /\ UNCHANGED <<routing, scenario, clock, phase, threads, known, rows, failures,
                 late, author, begun>>
-----------------------------------------------------------------------------
(***************************************************************************)
(* A thread's loop.                                                        *)
(***************************************************************************)
\* A slip TLC must notice: a job counts before its id is registered.
UsableIfIssued(method) ==
  IF method \in JobScopedMethods /\ Issued = {} THEN "SubmitJob" ELSE method

\* The method an operation uses: no job, no call about a job.
Usable(method) == IF method \in JobScopedMethods /\ known = {} THEN "SubmitJob" ELSE method

TakeMethod == phase' = [phase EXCEPT !.next = 1 + (@ % Len(phase.mix))]

Begin(t) ==
  /\ threads[t].pc = "loop"
  /\ clock < phase.stop
  /\ Interval > 0 => clock >= threads[t].due
  /\ Set(t, [threads[t] EXCEPT !.pc = "begin", !.due = @ + Interval,
                               !.method = Usable(phase.mix[phase.next])])
  /\ TakeMethod
  /\ begun' = IF phase.recorded THEN begun + 1 ELSE begun
  /\ UNCHANGED <<routing, scenario, clock, known, rows, failures, late, ended, author>>

\* A slip TLC must notice: the loop looks for the very end of the phase.
EndLoopAtStop(t) ==
  /\ threads[t].pc = "loop"
  /\ clock = phase.stop
  /\ Set(t, [threads[t] EXCEPT !.pc = "done"])
  /\ UNCHANGED <<routing, scenario, clock, phase, known, rows, failures, late, ended,
                 author, begun>>

EndLoop(t) ==
  /\ threads[t].pc = "loop"
  /\ clock >= phase.stop
  /\ Set(t, [threads[t] EXCEPT !.pc = "done"])
  /\ UNCHANGED <<routing, scenario, clock, phase, known, rows, failures, late, ended,
                 author, begun>>

CallUnchanged == UNCHANGED <<order, created, bound, scenario, clock, phase, known, rows,
                             failures, late, ended, author, begun>>

\* The first attempt of t's call.
Call(t, method, target, j, key) ==
  Set(t, [threads[t] EXCEPT !.pc = "call", !.method = method, !.target = target,
                            !.job = j, !.key = key, !.attempt = 1, !.sent = clock])

\* A slip TLC must notice: a key without the time.
BuildKeyWithoutTime(w, op) ==
  IF scenario.mode = "empty" THEN NoKey ELSE <<w, op, 0>>

\* The key of an operation: the thread, the operation's index, the time.  The
\* run_id in it is left out: every invocation gives its runs the same ones.
BuildKey(w, op) ==
  IF scenario.mode = "empty" THEN NoKey ELSE <<w, op, clock>>

ResolveSubmitTarget(key, target) ==
  \/ scenario.design = "A_microservices" /\ target = Gateway /\ UNCHANGED rr
  \/ scenario.design = "B_monolith" /\ SubmitTarget(key, target)

ResolveJobTarget(j) ==
  IF scenario.design = "A_microservices" THEN Gateway ELSE JobTarget(j)

Submit(t, w, op) ==
  \E target \in Servers :
    /\ ResolveSubmitTarget(BuildKey(w, op), target)
    /\ Call(t, "SubmitJob", target, NoJob, BuildKey(w, op))
    /\ CallUnchanged

ExecuteSubmit(t) ==
  /\ threads[t].pc = "begin" /\ threads[t].method = "SubmitJob"
  /\ Submit(t, t, threads[t].op)

\* Picks a job the run knows.
ExecuteJobCall(t, method) ==
  /\ threads[t].pc = "begin" /\ threads[t].method = method
  /\ \E j \in known : Call(t, method, ResolveJobTarget(j), j, NoKey)
  /\ CallUnchanged /\ UNCHANGED rr

ExecuteGetStatus(t) == ExecuteJobCall(t, "GetJobStatus")
ExecuteGetResult(t) == ExecuteJobCall(t, "GetJobResult")
ExecuteCancel(t) == ExecuteJobCall(t, "CancelJob")

\* A call about a job when there is none to pick: a submission in the name of
\* thread 0, with operation index -1.
Stranded(t) ==
  /\ threads[t].pc = "begin"
  /\ threads[t].method \in JobScopedMethods
  /\ known = {}

ExecuteListJobs(t) ==
  /\ threads[t].pc = "begin" /\ threads[t].method = "ListJobs"
  /\ Call(t, "ListJobs", IF scenario.design = "A_microservices" THEN Gateway ELSE Targets[1],
          NoJob, NoKey)
  /\ CallUnchanged /\ UNCHANGED rr

\* A slip TLC must notice: a submission without a key is repeated too.
AlwaysRetries(thread) == TRUE

MayRetry(thread) == thread.method = "SubmitJob" => thread.key # NoKey

Row(t, code, j, terminal) == [op |-> Operation(t), method |-> threads[t].method,
                              code |-> code, job |-> j, terminal |-> terminal]

\* t's operation is over: its row is recorded in the measured phase.
Finish(t, code, j, terminal) ==
  /\ Set(t, [NoThread EXCEPT !.pc = "loop", !.op = threads[t].op + 1, !.due = threads[t].due])
  /\ rows' = IF phase.recorded THEN rows \cup {Row(t, code, j, terminal)} ELSE rows

\* The answer of an attempt; the job id of a submission is registered.
Answer(t) ==
  /\ threads[t].pc = "call" /\ clock > threads[t].sent
  /\ \E reply \in Replies :
       /\ Serve(Request(t), reply)
       /\ known' = IF threads[t].method = "SubmitJob" /\ reply.code = "OK"
                     THEN known \cup {reply.job} ELSE known
       /\ Finish(t, reply.code, reply.job, reply.terminal)
  /\ UNCHANGED <<scenario, clock, phase, failures, late, begun>>

\* An attempt fails with a retryable code: a lost request or answer, a
\* deadline, a refusal.
Fail(t) ==
  /\ threads[t].pc = "call" /\ clock > threads[t].sent
  /\ failures < MaxFailures
  /\ failures' = failures + 1
  /\ late' = late \cup {Request(t)}
  /\ IF MayRetry(threads[t]) /\ threads[t].attempt < MaxAttempts
       THEN Set(t, [threads[t] EXCEPT !.pc = "backoff"]) /\ UNCHANGED rows
       ELSE Finish(t, "UNAVAILABLE", threads[t].job, FALSE)
  /\ UNCHANGED <<routing, scenario, clock, phase, known, ended, author, begun>>

\* After a random pause the same request is sent to the same target.
Retry(t) ==
  /\ threads[t].pc = "backoff"
  /\ Set(t, [threads[t] EXCEPT !.pc = "call", !.attempt = @ + 1, !.sent = clock])
  /\ CallUnchanged /\ UNCHANGED rr

ThreadStep(t) ==
  \/ Begin(t) \/ EndLoop(t) \/ ExecuteSubmit(t) \/ ExecuteGetStatus(t) \/ ExecuteGetResult(t)
  \/ ExecuteCancel(t) \/ ExecuteListJobs(t) \/ Answer(t) \/ Fail(t) \/ Retry(t)

\* The loop sleeps until t's next operation is due.
Sleeps(t) == threads[t].pc = "loop" /\ clock < threads[t].due /\ clock < phase.stop

Waits(t) == threads[t].pc = "call" /\ clock < threads[t].sent + Deadline

Tick ==
  /\ \A t \in Threads : threads[t].pc = "done" \/ Sleeps(t) \/ Waits(t)
  /\ \E t \in Threads : threads[t].pc # "done"
  /\ clock' = clock + 1
  /\ UNCHANGED <<routing, scenario, phase, threads, known, rows, failures, late, ended,
                 author, begun>>
=============================================================================
