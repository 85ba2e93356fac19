# TLA+ verification of the distributed task queue

This directory holds the specification, the model-checking configurations and
the machine-checked proofs for the task queue in `src/`. Every definition is
translated from the Python services; `PROJECT.json` maps each one to the lines
it stands for, lists the runs, the hazards of the code, the findings and the
theorems.

## 1. The system

Clients talk gRPC to a **gateway**. Behind it are three stores, each a
single-process service that keeps its state in memory under one lock: the **Job
service** (canonical records), the **Queue service** (a FIFO set of job ids) and
the **Result service** (terminal envelopes). **Workers** pull work from a
**coordinator**, which moves jobs between the stores on their behalf. No
transaction spans two services: gateway and coordinator are straight-line
sequences of RPCs, each of which can fail or be answered too late.

| Component (source) | State | Operations | Talks to |
|---|---|---|---|
| Job service (`services/job/servicer.py`) | records; bounded LRU index of deduplication keys | CreateJob, DeleteJobIfStatus, GetJobRecord, ListJobRecords, TransitionJobStatus (compare-and-set), SetCancelRequested | nobody |
| Queue service (`services/queue/servicer.py`) | insertion-ordered dictionary of ids | EnqueueJob, DequeueJob (destructive), RemoveJobIfPresent | nobody |
| Result service (`services/result/servicer.py`) | envelopes, first write wins, output cap | StoreResult, GetResult | nobody |
| Coordinator (`services/coordinator/servicer.py`) | last heartbeat of each worker; per call: its progress | WorkerHeartbeat, FetchWork, ReportWorkOutcome | Job, Queue, Result |
| Gateway (`services/gateway/servicer.py`) | per call: its progress | SubmitJob, CancelJob, GetJobResult, GetJobStatus, ListJobs | Job, Queue, Result |
| Worker (`services/worker/worker.py`) | its job, the attempts of its report | heartbeat, fetch, execute, report with retries, stop | coordinator |
| Monolith node (`services/monolith/node.py`, `common/owner_routing.py`) | all of these services and a worker in one process; its node order and index | issue of job ids it owns, start, stop | itself, over loopback |
| Design B router (`common/design_b_routing.py`) | round-robin index | target of a key, of a job, of any submission | nodes, for the load generator |
| Server process (`services/*/server.py`, `common/config.py`) | configuration, pool of threads, calls in hand | configure, bind, serve, graceful stop | |
| Load generator (`common/loadgen_contracts.py`) | phases, threads, known jobs, rows, files of a run | submit, cancel, read, list, with retries; write the artifacts | gateway, or nodes |
| Benchmark scripts (`scripts/loadgen/`) | files | invoke the load generator; aggregate its runs | |

Design A runs each service in a process of its own; Design B runs nodes, each
with all services, and clients choose the node.

### What is hard about it, and what makes it correct

* *One handler against another.* A submission may be repeated under its key, or
  its job canceled, while it is being enqueued, claimed or rolled back. Promises:
  a canceled job is not run, a key names one job, the queue holds a job once and in
  order.
* *Two services, no transaction.* A terminal record in the Job service needs its
  envelope in the Result service, and the same status in both; a QUEUED record
  needs its place in the Queue service.
* *Failing and late RPCs.* An RPC that fails at its caller may have been executed,
  may be executed later, or never. Retries, compensation and first-write-wins have
  to cope with all three.
* *Workers that vanish* between claim, execution and report. The documents lock
  at-least-once processing (`docs/spec/governance.md:20`, `architecture.md:214`,
  `constants.md:190`, `error-idempotency.md:79`). The code does not give it, and
  gives the opposite: a job is claimed by a compare-and-set before anybody runs
  it, the claim is never taken back, and so a job is run at most once and, when
  something fails, not at all. This disagreement is finding `assigned_not_executed` of
  section 5. What can be asked of the code, and is checked and proved, is that a
  failure costs no more than one job (`EachFailureStrandsOneJob`).
* *Bounded state*: the deduplication index evicts, and outlives the records.
* *Progress*: a job whose report is always refused must not hold up the others.
* *Reads outside the lock*: ListJobRecords sorts and summarises live records, and
  its pages are offsets into a list that changes.
* *Time*: a worker is live as long as its stamps are young, while its own loop,
  its calls' deadlines and the coordinator's lock all delay them.
* *Threads that wait for each other*: in a monolith node a handler's nested calls
  need threads of the handler's own pool.
* *Agreement without communication*: nodes and clients compute owners from lists
  that nothing compares.
* *Measurements*: a row for each operation, a job for each submission, files of
  one invocation, across retries, phases, crashes and repeated invocations.

`PROJECT.json` "hazards" lists each place with the properties that watch it.

## 2. Modules

| Module | What it models |
|---|---|
| `JobStatuses` | statuses, terminal statuses, transition relation, replies |
| `JobService` | the Job service: one action and one reply per RPC |
| `QueueService` | the Queue service |
| `ResultService` | the Result service |
| `TaskQueue` | gateway, coordinator and workers, composed with the three stores |
| `JobLifecycle` | the abstract specification of a single job's life |
| `JobListing` | ListJobRecords and a client's walk over its pages; extends `JobService` |
| `WorkerLiveness` | the coordinator's registry of heartbeats and the worker's loop, in time |
| `DesignBRouting` | owners of keys and job ids, the client's router, the ids a node issues |
| `Traffic` | threads of a benchmark phase, their calls, retries and rows; extends `DesignBRouting` |
| `Benchmark` | runs, invocations and files of the load generator; extends `Traffic` |
| `ServiceConfig` | how a process makes a configuration of its environment |
| `ServerProcess` | one server process and its pool of threads; extends `ServiceConfig` |
| `MCJobService`, `MCTaskQueue`, `MCJobListing`, `MCWorkerLiveness`, `MCBenchmark`, `MCServerProcess` | instances for TLC |
| `StoreServices_proofs` | theorems about the three stores, each under every sequence of its RPCs |
| `TaskQueue_proofs` | types of the system, envelopes of terminal jobs, the queue's order |
| `TaskQueueJobs_proofs` | the stores inside the system; names and life cycle of jobs; who may run a job |
| `TaskQueueSubmissions_proofs` | submissions: drops, keys, rollbacks, outcomes; what a failure may cost |
| `JobListing_proofs`, `WorkerLiveness_proofs`, `Benchmark_proofs`, `ServerProcess_proofs` | theorems about the modules they are named after |

Some operators are marked as *slips*: mutated forms of the definition that
follows them (a dropped guard, an off-by-one). They are used by no
specification; replacing the definition by its slip must break the property that
`PROJECT.json` "mutants" names, which shows that the property can fail.

### How code becomes actions

*Stores.* Every modelled RPC holds its service's lock for its whole body, so it
is one step. It is written as an action (`CreateJob(spec, key, id)`: what it does
to the state) and an operator (`CreateJobReply`: what it answers, evaluated in
the state in which it executes). A reply whose code is not `OK` is what the
caller sees as an `RpcError`; the Job service sets a code *and* returns a message,
but gRPC delivers only the code.

*Handlers.* A gateway call or a coordinator handler has a point of control `pc`
and the few values it carries. One step sends the next request `m`: either the
service serves it (`Serve(m)`) and the handler continues with `After...(ReplyTo(m))`,
or the request fails (`Lose(m)`), the handler continues with
`After...(RpcError)`, and `m` is kept in `late`, from where `ExecuteLate` may
serve it at any later time, or never. Executed-but-unanswered is the case where
that happens next. Each `After...` operator is the code between two RPCs, with all
of its branches. Because the reply is computed when the request is served, other
handlers run between any two RPCs of a handler, as in the code.

*Workers.* A worker's call is served by any free handler. `via` is the handler it
listens to; when the worker gives up (`GiveUp`) or stops (`Stop`), the handler
keeps running and its answer reaches nobody. A worker that stops forgets its job,
also in the middle of executing it (`Execute` may not have happened yet).

*Failures* are tickets, the members of `Faults`: each lost request, give-up,
expired heartbeat or stop takes one. This bounds them, and only them: what
happens after a failure is unrestricted.

*Data.* A job's spec stands for its fingerprint. `FailSpecs` are specs whose job
type contains `force-fail`, `BigSpecs` those whose output exceeds the cap of the
Result service. An envelope is its terminal status. Time stamps are members of
`Times`; what matters of them is whether they are set. A job id is a UUID: it is
drawn fresh, so the id that a call's CreateJob may draw is named after the call
(`Calls == JobIds`), and no id is drawn twice. A call is made at most once, so
the number of calls bounds the clients.

*The rescue branch.* FetchWork, after a claim that was not applied, re-reads the
record and enqueues the job again if it is QUEUED. The two steps are one action
(`FetchRescue`) with two points of control: the second is never reached, which
is what `RescueIsDead` says.

*Listing.* A `reader` is a ListJobRecords handler. It takes the references to all
records in one step, under the lock; it filters in a second and summarises in a
third, each with the statuses of that moment, while writes go on. `held` is the
status in a record object, which a reader can still see after the record was
deleted. The `walk` is the client: the filter and sort it asked for, the pages it
has, and what happened since it began (records deleted, equal time stamps).

*Heartbeats.* Time is an integer. A handler reads the clock (`ReadClock`) and,
at most `MaxStall` later, takes the lock (`WorkerHeartbeat`, `FetchWork`); a call
given up by its worker stays in `calls` and may be executed at any later time.
The worker's loop is `top`, `heartbeat`, `fetch`, `busy` (a job or the idle sleep).

*Design B and the load generator.* `DesignBRouting` has the routing tables and what a
SubmitJob does at the server it is sent to. `Traffic` adds the threads: a call is
sent at one tick and answered at a later one; a call that fails puts its request
in `late`, from where it may be executed at any time (`ServeLate`). `Benchmark`
adds the runner: phases, the five artifacts of a run written one after the other
(`MakeRunDir`, `OpenFile`, `CloseFile`), `Crash` at any point and `Invoke` with or without
`--overwrite`, which takes a tick: keys hold milliseconds, and a process takes longer to
start. `dirs` says whether a run's directory is there: an empty one counts, as it does
for `run_dir.exists()`. `PrepareRunDir` refuses an earlier directory or begins its
removal, and `shutil.rmtree` is one step for each file, in any order (`RemoveFile`), and
one for the directory (`RemoveRunDir`), so that a crash can come between any two of
them and leave any part of the old run; such a directory is `"partial"`. Hashes are
constants; TLC takes small ones.

*Server process.* A task is a call or one of its nested calls, and is queued,
computing (`running`), waiting for a nested call, or done. The pool has
`config.threads` threads; a computing or waiting task holds one. In a monolith
node the nested calls are queued at the same pool; elsewhere they are `upstream`,
at a store that may never answer. Ticks bound computing, time-outs and the grace.
The five `server.py` files differ in names and default ports only; `PROJECT.json`
maps steps they share to one or another of them, and each one's resolution of
its configuration to a definition of its own.

## 3. Runs

Sizes are distinct states under symmetry; times are for two workers of TLC.

| Run (cfg) | Bounds | Shows |
|---|---|---|
| `job_service` (`JobService.cfg`) | 3 jobs, 3 keys, 2 specs, index of 2 | 9 131 states. The Job service under *every* sequence of RPCs with arbitrary arguments: types, the stamps tell a record's history, terminal records are frozen, edges of the life cycle, the index is sound and evicts the least recently used key |
| `faults` (`TaskQueueFaults.cfg`) | 3 calls, 1 worker, 2 handlers, 2 failures, 1 key | 869 000 states, 90 s. A terminal job has an envelope, of its own status unless its submission was repeated; the rollback of a sole submission never deletes an accepted job; the whole implements `JobLifecycle` |
| `workers` (`TaskQueueWorkers.cfg`) | 3 calls, 2 workers, 2 handlers, at most 1 failure, 1 key, 2 specs of which 1 fails | 1 542 000 states, 115 s. A job is left RUNNING with nobody working on it only by a failure, and each failure leaves at most one; a canceled job is never run; the rescue branch is dead; the first envelope wins; a key names one job; the queue holds a job once and nobody overtakes; while nothing has failed, no queued job is dropped |
| `live` (`TaskQueueLive.cfg`) | 2 calls, 2 workers, 2 handlers, no failure, specs `ok` and `big` | 36 000 states. Every accepted job whose output fits ends |
| `listing` (`JobListing.cfg`) | 3 jobs, pages of 1, 3 filters, 2 times, 2 writes during a walk | 4 000 000 states, 100 s. What a walk without a snapshot still gives: with a filter that jobs never leave nothing is skipped and each page is exact; in ascending order nothing is repeated |
| `heartbeats` (`WorkerLiveness.cfg`) | 1 worker, interval 2, deadlines 1, time-out 3, stall 1, time up to 6, 3 calls under way | 1 780 000 states, 25 s. No fetch of a worker with an accepted heartbeat finds it dead |
| `benchmark` (`Benchmark.cfg`) | 2 nodes, 2 threads, 3 jobs, 1 failed call, deadline 1, 2 attempts, both designs, keys or none; 2 repetitions without traffic, 1 with; up to 3 invocations without traffic | 430 000 states, 100 s. Jobs, rows, files and operations agree; every invocation ends |
| `process` (`ServerProcess.cfg`) | gateway, coordinator, job, monolith; 7 environments; 2 calls with 2 nested calls each; pools of 1 to 3; time-out 3, grace 2 | 318 000 states, 105 s. Nested calls of a big enough pool are in time; a bad environment is noticed by callers only as it should be; accepted calls end |
| `result_unserved`, `job_dropped`, `key_poisoned`, `assigned_not_executed` | 1 to 4 calls, at most 1 failure | violations, see section 5 |

*Why these bounds.* Three calls are a submission, its repetition and a cancel, or
two submissions and a cancel, or a submission, a cancel and a read: all pairs of
calls that act on one job, and a third. Two handlers are two FetchWorks at once, or
a report retried while its first attempt still runs. Two workers compete for a
job. Two failures are, for instance, a lost enqueue that arrives late plus a lost
rollback, or a lost report and a worker that gives up on its retry. Three keys
and an index of two make evictions with a choice of victim. `MaxAttempts = 2` has
a first, a last and no further attempt.

Pages of one make every job a page border; the filters of `listing` are none, one
that jobs only enter (the terminal statuses) and one that they enter and leave.
Two writes are, for instance, a deletion and a creation between two pages, or two
moves of one job within a page. In `heartbeats` the durations satisfy the
condition of the property with equality, so that each is needed; time 6 is three
intervals, with room for a restart. In `benchmark` the second node may be told of
itself only, so that nodes and client may disagree; one failed call is a lost
request, a late one or an unanswered one (an executed request whose answer is lost
is the late one executed at once). In `process` pools of 1, 2 and 3 threads stand
below, at and above the number of calls, and a time-out of 3 is just longer than a
nested call can take in the queue of a big enough pool.

*Deadlock.* `faults`, `workers` and the violations that need a failure switch the
deadlock check off: a worker may stop there, and with all workers stopped and all
calls made the system rests.
`heartbeats` ends with its bounded clock, `benchmark` with its last invocation,
`process` with the end of the process. The other runs keep the check on: an idle
worker can always send a heartbeat, a client can always begin another walk.

*Fairness* (`live`). A gRPC handler that has started runs on to its end
(`ContinueCall`, `HandlerStep`), and a worker's loop sends heartbeats, fetches
work, executes it and reports it as long as the process runs: each is weakly
fair, because the code loops on them and waits for nothing but an answer. No
fairness is assumed of clients, and none of failures. There are as many handlers
as workers, and a worker has one call open at a time, so that a handler is always
free for it; the code's thread pool has eight or more. The run has no failures:
with them the property is false (section 5, `job_dropped` and `assigned_not_executed`), by
design of the destructive dequeue. `assigned_not_executed` has the same fairness: its
counterexample is not a system that merely stops. A job whose output exceeds the cap is refused by
StoreResult on each attempt and stays RUNNING; the property says that it does not
hold up others.

*Fairness* (`benchmark`). The runner, each thread of a phase and the clock go on:
loops of one process whose every call has a deadline, as `run_phase` and
`_invoke_with_retry` are written. That a server answers, that a job ends, or that
a late request is executed is not assumed: `InvocationsEnd` rests on deadlines and
counted attempts alone.

*Fairness* (`process`). Idle threads take tasks, handlers and nested tasks that
hold a thread compute on, timeouts expire, time passes and a process that was
told to stop carries on stopping. No fairness is given to callers, to signals or to a
store at another address. `AcceptedCallsEnd` needs it all: the threads of a monolith
node can all wait for each other, and only the timeouts free them. The timeouts
are in the code: no client stub is called without one.

## 4. Proofs

All are for every number of calls, jobs, workers, handlers, keys, specs and
failures, every capacity of the index and every limit of attempts. The
assumptions are those the modules name: the null values are not members of the
sets they complete, `Times` has no zero, index and attempts are at least 1, and
`FailSpecs` and `BigSpecs` are specs. TLC evaluates them in the runs.

| Theorem | States |
|---|---|
| `StoreServices_proofs!JobTypeCorrect` | `JobSpec => []JobTypeOK` |
| `StoreServices_proofs!RecordsAreStamped` | `JobSpec => []StampsTellHistory` |
| `StoreServices_proofs!RecordsFollowTheLifecycle` | `JobSpec => LifecycleEdges` |
| `StoreServices_proofs!TerminalRecordsAreFrozen` | `JobSpec => TerminalIsFrozen` |
| `StoreServices_proofs!RetriesFindTheirJob` | `JobSpec => []DedupIsSound` |
| `StoreServices_proofs!OnlyTheOldestKeyIsEvicted` | `JobSpec => EvictsLeastRecentlyUsed` |
| `StoreServices_proofs!QueueIsASetOfJobs` | `QueueSpec => []NoDuplicates` |
| `StoreServices_proofs!QueueIsFair` | `QueueSpec => NoOvertaking` |
| `StoreServices_proofs!EnvelopesAreFinal` | `ResultSpec => FirstWriteWins` |
| `TaskQueue_proofs!TypeCorrect` | `Spec => []TypeOK` |
| `TaskQueue_proofs!TerminalJobsHaveEnvelopes` | `Spec => []TerminalHasEnvelope` |
| `TaskQueue_proofs!QueueHasNoDuplicates` | `Spec => []NoDuplicates` |
| `TaskQueueJobs_proofs!ServicesRunInTheSystem` | `Spec => JobSpec /\ QueueSpec /\ ResultSpec` |
| `TaskQueueJobs_proofs!JobsFollowTheLifecycle` | `Spec => ImplementsLifecycle` |
| `TaskQueueJobs_proofs!JobsRunAtMostOnce` | `Spec => []RunsAtMostOnce` |
| `TaskQueueJobs_proofs!CanceledJobsNeverRun` | `Spec => []CanceledNeverRuns` |
| `TaskQueueJobs_proofs!TheRescueIsNeverTaken` | `Spec => []RescueIsDead` |
| `TaskQueueSubmissions_proofs!QueuedJobsAreNotDropped` | `Spec => []NoQueuedJobIsDropped` |
| `TaskQueueSubmissions_proofs!RepeatsGetOneJob` | `Spec => []OneJobPerKey`, if the keys fit the index |
| `TaskQueueSubmissions_proofs!SoleAcceptedJobsAreKept` | `Spec => []SoleAcceptedJobIsKept` |
| `TaskQueueSubmissions_proofs!EnvelopesMatchStatuses` | `Spec => []EnvelopeMatchesStatus` |
| `TaskQueueSubmissions_proofs!FailuresStrandOneJobEach` | `Spec => []EachFailureStrandsOneJob` |
| `JobListing_proofs!ListingsAreWellTyped` | `ListingSpec => []ListingTypeOK` |
| `JobListing_proofs!StableFiltersAreExact` | `ListingSpec => []StableFilterIsExact` |
| `JobListing_proofs!WalksSkipNothing` | `ListingSpec => []WalkSkipsNothing` |
| `JobListing_proofs!AscendingWalksRepeatNothing` | `ListingSpec => []AscendingWalkRepeatsNothing` |
| `WorkerLiveness_proofs!LivenessTypeCorrect` | `LivenessSpec => []LivenessTypeOK` |
| `WorkerLiveness_proofs!AcceptedWorkersAreLive` | `LivenessSpec => []AcceptedWorkerIsLive` |
| `Benchmark_proofs!FollowUpsAreRouted` | `Spec => []FollowUpsFindTheirJob` |
| `Benchmark_proofs!JobsStayWithTheirOwner` | `Spec => []JobsAreAtTheirOwner` |
| `Benchmark_proofs!BenchmarkTypeCorrect` | `Spec => []TypeOK` |
| `Benchmark_proofs!OperationsCreateOneJob` | `Spec => []OneJobPerOperation` |
| `Benchmark_proofs!SubmissionsHaveTheirOwnJobs` | `Spec => []SubmissionsAreNotMerged` |
| `Benchmark_proofs!OperationsHaveTheirRows` | `Spec => []EveryOperationHasItsRow` |
| `Benchmark_proofs!CountedJobsEnded` | `Spec => []CountedJobsHaveEnded` |
| `Benchmark_proofs!TheFallbackIsNeverTaken` | `Spec => []FallbackIsDead` |
| `Benchmark_proofs!AggregatedRunsAreOfOneInvocation` | `Spec => []AggregatedRunsAgree` |
| `Benchmark_proofs!EarlierFilesStay` | `Spec => EarlierFilesAreKept` |
| `ServerProcess_proofs!ProcessTypeCorrect` | `Spec => []TypeOK` |
| `ServerProcess_proofs!EnvironmentsAreFollowed` | `Spec => []UpstreamsFollowTheEnvironment` |
| `ServerProcess_proofs!LoopbackCallsEndInTime` | `Spec => []LoopbackCallsAreInTime`, if `Timeout > Cardinality(Calls)` |

*Stores.* `JobInv` adds to the types that a known record has an issued id
and is stamped. The first part is what makes the rest inductive: it is why a
CreateJob, which draws an id not issued before, overwrites no record. Lemma
`EveryStepIsARecordStep` reduces all RPCs to five things that may happen to a
record (nothing, creation, deletion, an allowed move, a change of its flag), from
which the theorems about records follow. The index is a sequence of entries: no
key is in it twice, so that a hit moves one entry to the end, and a miss drops the
head only if the index is full. The queue's positions only ever move towards the
front.

*System.* `TerminalHasEnvelope` is not inductive: a TransitionJobStatus to a
terminal status may be about to be sent. `Inv` says where such a request can be
and that the envelope is there already: at a cancel's point `transition`, at a
report's point `finish`, or among the lost requests in `late`. It is kept because
a StoreResult that is *answered OK* leaves an envelope
(`AnsweredStoreLeavesEnvelope`), because only then do `AfterCancelStore` and
`AfterStore` move on, and because envelopes are never removed (`EnvelopesStay`).
`Inv` also says that handlers, workers and requests that need a job have one,
without which the types are not inductive either. One lemma per action shows
that it keeps `Inv`; the lemmas `GatewayStep` and `CoordinatorStep` share what a
request does to the stores and to `late`, whether it is served or lost.

*Life of a job.* Every request that is served, on time or late, is an RPC of one
store, with arguments that the store's own specification allows
(`ServicesRunInTheSystem`); the only thing to show is that a CreateJob draws an
id that was not issued, which holds because an id is named after its call and a
call creates once. The refinement then follows from the stores' own theorems:
under the mapping of the run each step moves a job along the transition relation,
deletes it or leaves it alone. As no transition enters QUEUED, a job that has left
it never returns, which is all that `TheRescueIsNeverTaken` needs.
`RunsAtMostOnce` is no promise of the documents, which want at-least-once, but
what the code's claim amounts to; no run checks it. It rests on a token: an
*applied* claim, of which a job has one at most because it takes the job out of
QUEUED. The handler that was answered "applied", or the worker that handler
answers, holds it; running the job, a worker that gives up and a worker that stops
all consume it. A canceled job has no token, as it left QUEUED otherwise.

*Submissions.* `NoQueuedJobIsDropped` is shown by following a QUEUED job from the
submission that created it through the queue to the handler that took it out:
while `failed` is FALSE each of them either hands it on or ends it. The other
three are properties of whole histories, and need invariants on what calls and
late requests look like (`CallForms`): which points a call can be at and with
which values, which ids its own CreateJob may have been answered, and that a late
request was lost by a call of the right kind. Where the keys in use fit the index,
an entry is never evicted, so that all answers to one key name the entry's job. A
sole accepted job is safe because a rollback is sent only by a call whose own
enqueue was refused, for an id that its own CreateJob was answered; that call
would have to be the accepted one. For `EnvelopeMatchesStatus`, everything that
reports DONE or FAILED knows the spec its job was created with, so that all that
is ever said of the end of a run agrees (`OutcomesOK`). And of the two sides that
may write an envelope, the one that runs the job and the one that cancels it, at
most one has the job (`SidesOK`): a sole submission enqueues once, now or late;
while the job is in the queue, or that request is on its way, neither side has it;
and whoever takes it out of the queue, a fetch or a cancel, is the only one. A
repeated submission enqueues a second time, which is exactly how finding
`result_unserved` comes about.

*Debts.* A job is stranded if it is RUNNING, no worker has it, no handler reports
it or brings it to a worker that waits, and its output would fit. `EachFailureStrandsOneJob`
compares the number of stranded jobs with the number of failures, and is not
inductive: a failure may strand a job much later. What it leaves at once is a debt
(`DebtsAreCovered`): a handler that will claim a job although nobody waits for it
any more; the refusal of a report of a job that is still RUNNING, on its way to a
worker that may drop the outcome on it; or a claim whose sender gave up, which may be
executed late. Debts and stranded jobs together are never more than the failures.
A step either makes no debt, or makes one and takes a failure, or turns one debt
into one stranded job (`DebtStep`), which is shown action by action. A worker that
waits for an answer waits for that of its own job (`LinksOK`). Without failures the
bound is zero: no job is stranded.

*Listing.* `Before` is a strict total order on records, so that the place of a
job in a sorted list is its rank: the number of members before it. All three
properties are statements about ranks. Under a filter that no job leaves and
without deletions the matching set only grows, so the rank of a job that is still to
be listed can only grow, never fall behind the offset (`NotPassed`, `Covered`).
In ascending order and without a filter the rank of a listed job never grows,
because new jobs sort after all others and deletions only lower ranks (`Passed`). A
write is summarised once (`WriteStep`): issued jobs keep their stamp and move
along the life cycle, new ones are later unless `tied`.

*Heartbeats.* `AcceptedWorkerIsLive` speaks of one moment, the one at which a fetch
looks its worker up. `LivenessInv` carries it there in three parts: stamps are never
from the future and at most `MaxStall` old when they are used (`StampsInv`); the
worker's calls end by their deadlines, and a fetch follows its heartbeat by
`MaxAge` at the most (`LoopInv`); and an accepted heartbeat leaves an entry that is
at most `MaxStall` older than the heartbeat, whichever handlers prune the registry
or store an older stamp over it, until it expires (`EntryInv`). The theorem holds
for any number of workers and calls and any bound on the clock, for all
durations with `MaxAge + FetchTimeout + MaxStall <= WorkerTimeout`. The defaults of
the code satisfy it with room for a stall: 1000 ms, 1000 or 1500 ms and 4000 ms.

*Routing.* `FollowUpsFindTheirJob` speaks of recorded answers; `Inv` follows a job id
on its way there. A server has only jobs whose calls the client takes to it, if
it is a node that orders the nodes as the client does (`ServersInv`, from the
arithmetic of `OwnedIsTargeted`: the node's own index and the client's index of the
job's owner are the same number); the ids the run knows exist; and each call in
hand, waiting for its retry, or late was addressed by the router, which no later
step changes (`Routed`). The two theorems assume in addition to the modules'
assumptions that the hash of every key is a natural number, which TLC, with keys
from an infinite set, could not evaluate. They hold for any nodes, orders, hashes,
threads, mixes, failures, crashes and invocations.

*Benchmark runs.* `TypesInv` adds to the types that the phase that runs is the stage of
the invocation, and that without a phase every thread is done (`PhaseInv`). The files of a
run are written in a fixed order into an empty directory: while they are, those before
the current one are whole and of this invocation, those after it are absent
(`FilesInv`). As `metadata.json` is the last, a whole one vouches for the others. A removal
takes files away and mixes none in: what it leaves when it is cut off is of one
invocation still, and the directory stays `"partial"` until a later removal ends it.
A job that counts has ended because an answer that says so came from a server where
it had (`CountedInv`), and no job ends twice. The fallback is dead because
`known` only grows while a thread handles an operation (`ChosenInv`). For
`EveryOperationHasItsRow` the operations begun in the measured phase are the rows
plus the operations that threads have in hand (`CountInv`), with rows of
operations before the threads' current ones only, so that each row is new.

*One job per submission.* A key holds the thread, the index and the time at which its
operation began to submit, and phases do not overlap in time (`TimeInv`): so all
that was ever signed with a key, late requests and deduplication entries included,
is of one operation (`SignedInv`). After a crash the next invocation starts at a
later time, which is what `Invoke` says. An answer under a key is therefore the job of the
same operation (`AcceptedInv`), for any number of invocations and repetitions.
`OneJobPerOperation` is about the executions of one operation's requests, and has to
be inductive over all that may still be executed (`OneJobInv`): requests of one operation are the
same request; one without a key is gone once executed, because it is not
retried (`UnkeyedInv`); and one with a key whose job exists finds it in the
deduplication map (`RequestsInv`), which in this model does not fill: it has 10000
keys by default, and what eviction does is `JobService`'s subject. An operation is
named by its run, its phase, its thread and its index there. One that begins to call
has no request and no job yet (`UsedInv`): invocations, the runs of an invocation,
the stages of a run and a thread's index within a phase only grow (`RunsGoBy`,
`TurnsGrow`). The theorem holds for any number of invocations and repetitions.

*Server process.* `ProcessInv` says that once configured a process has what
`ConfigOf` makes of its environment, that nothing is accepted before the port is
bound, that a call is turned away as unconfigured only where an address is
missing, and that a store is called only by a process that has upstreams. A
configuration with one store address was made for a service that requires them
all; the rest of `UpstreamsFollowTheEnvironment` is about `ConfigOf`.

*The pool.* `LoopbackCallsAreInTime` is about a pool with more threads than there
are calls in hand (`Roomy`), and needs a count. A handler has at most one nested
call under way and waits for it (`NestedOK`), so if no thread is idle some nested
call runs (`NestedRunsWhenFull`), and the queue is shorter than the number of
calls (`QueueIsShort`). A tick is the longest time that a thread computes without
waiting for a call, so what runs at a tick ends before the next, and a thread is
given back in between (`Freeing`). So
the place of a nested call in the queue and the ticks its handler has waited never
add up to more than the number of calls (`QueuedInTime`, `RunningInTime`), and a
time-out that is longer is not reached. With a shorter one the statement is false:
a nested call may queue behind those of all other handlers.

*Only model-checked:* liveness (`AcceptedJobsEnd`, `InvocationsEnd`,
`AcceptedCallsEnd`), which is out of the proof system's reach. All invariants and
action properties that the runs check are proved.

## 5. Findings

Each is a run that must find a violation of what the documentation says.

* `result_unserved`: no failure needed. A submission repeated under its key while
  the job is being canceled enqueues the job again; a worker claims it between the
  cancel's StoreResult(CANCELED) and its compare-and-set. The record ends DONE, the
  envelope stays CANCELED, and GetJobResult answers UNAVAILABLE from then on.
* `job_dropped`: one failed StoreResult (or compare-and-set) in CancelJob, or one
  lost answer to a DequeueJob, leaves an accepted job QUEUED and in no queue.
* `key_poisoned`: DeleteJobIfStatus leaves the deduplication entry, so after a
  rolled back submission each retry under its key is answered INTERNAL, until the
  key is evicted.
* `assigned_not_executed`: processing is documented as at-least-once. A claim that
  is executed while its answer is lost, a record that cannot be read after the claim, a
  worker that gives up on its fetch, or one that stops before it runs its job: each
  leaves the job RUNNING for ever, never run. The documents also say that dequeue is
  destructive, "with no lease/ack/requeue recovery guarantee" (`governance.md:51`); the
  two cannot both be had, and the code has the second.

The dead rescue branch (`RescueIsDead`) is a property that holds: the transition
relation never leads back to QUEUED, so a claim that was not applied can not be
followed by a read of QUEUED. The case it is meant for, a claim whose RPC fails,
returns before the branch.

### Observations

Met while modelling; no run checks them as violations.

* Each `server.py` swallows the ConfigError that `common/config.py` raises to
  "Fail fast" (its line 7). A gateway whose environment has one bad variable
  starts, announces `startup.ready`, and answers UNAVAILABLE to each call, or serves
  on another service's port when SERVICE_NAME names a service that loads. The
  fallback takes default port and pool also where the variables are valid.
  `UpstreamsFollowTheEnvironment` says what can still be relied on.
* Pages of ListJobs are documented as no snapshot (`docs/spec/api-contracts.md:314`).
  `listing` shows what they do promise. A summary that is made while its job moves
  can also mix stamps of two moments.
* A node that is told of an order it is not in takes index 0 if the default order
  does not name it either; `FollowUpsFindTheirJob` holds only where the orders agree.
* While a node drains, the nested calls of handlers it lets finish are refused by
  its own server (`CallStoppedStore`): a job can be created and not enqueued.
* When the enqueue of a *repeated* submission fails, its rollback deletes the job that
  the first submission's client was told is accepted. The delete is the compensation
  `docs/spec/state-machine.md:80-86` prescribes; that an earlier call may have accepted
  the job is not considered there. `SoleAcceptedJobIsKept` is about the other jobs.
* `--overwrite` removes the old directory entry by entry. A crash in the middle may
  leave a whole `summary.json` and `metadata.json` without `rows.jsonl` or `rows.csv`,
  and the aggregation takes such a run. `AggregatedRunsAgree` allows exactly that: files
  may be missing from a directory whose removal was cut off, and from no other.
* `metadata.json` is written in place; a crash in the middle of it makes the whole
  aggregation fail, not only that run (`AggregatedRunsAgree` excludes such a run).

## 6. Plan

Done: all modules of section 2, their runs and the theorems of section 4. Left:
more of the worker's and the load generator's code, where it keeps state.

## 7. Not modelled

* `common/grpc_server.py`: `serve_grpc` and its health service are called by nobody.
* Logging, time utilities, generated stubs, notebooks, recorded results, smoke
  scripts and container files: no state that the behaviour depends on.
* Of the worker: the length of the pause between two report attempts, and what a
  job computes. Of the load generator: the validation of a scenario, payloads,
  latencies and percentiles. Of the servers: the search for a servicer class that
  fits, which has one outcome in this repository.
* Payload, labels, checksums and runtime of an envelope are opaque data. Requests
  with an empty id are refused before any state is read. GetJobStatus of the
  gateway forwards one read.
* Crashes of the stores: they lose all of their state, nothing is persisted, and
  nothing in the code recovers from it.
* A monolith node's services are those of Design A, and `TaskQueue` is their model.
  That their RPCs share a pool is in `ServerProcess`, which in turn leaves open what
  the handlers do.
