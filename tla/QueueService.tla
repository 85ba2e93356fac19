--------------------------- MODULE QueueService ----------------------------
(***************************************************************************)
(* The Queue service (services/queue/servicer.py): an insertion-ordered    *)
(* dictionary keyed by job id, used as a FIFO set.  Each RPC takes the     *)
(* service's lock for its whole body, so each is one step.  For every RPC  *)
(* there is an action (its effect on the queue) and a reply, a function of *)
(* the state in which the RPC executes.                                    *)
(***************************************************************************)
EXTENDS Sequences, SequencesExt, Integers, JobStatuses

VARIABLE queue

queueVars == <<queue>>

Queued(j) == Contains(queue, j)

QueueInit == queue = <<>>

\* Slips of Enqueue that TLC must notice: a repeated id is added again, or
\* moved to the back.
EnqueueJobAgain(j) == queue' = Append(queue, j)

EnqueueJobRequeues(j) == queue' = Append(SelectSeq(queue, LAMBDA k : k # j), j)

\* Enqueueing an id that is already present changes nothing and succeeds.
EnqueueJob(j) ==
  queue' = IF Queued(j) THEN queue ELSE Append(queue, j)

\* Dequeueing is destructive: the head leaves before anyone else knows of it.
DequeueJob == queue' = IF queue = <<>> THEN queue ELSE Tail(queue)

DequeueJobReply ==
  IF queue = <<>>
    THEN [code |-> "OK", found |-> FALSE]
    ELSE [code |-> "OK", found |-> TRUE, job |-> Head(queue)]

RemoveJobIfPresent(j) ==
  IF Queued(j)
    THEN \E i \in DOMAIN queue : queue[i] = j /\ queue' = RemoveAt(queue, i)
    ELSE UNCHANGED queue

RemoveJobIfPresentReply(j) == [code |-> "OK", removed |-> Queued(j)]

QueueNext ==
  \/ \E j \in JobIds : EnqueueJob(j)
  \/ DequeueJob
  \/ \E j \in JobIds : RemoveJobIfPresent(j)

QueueSpec == QueueInit /\ [][QueueNext]_queueVars
-----------------------------------------------------------------------------
QueueTypeOK == queue \in Seq(JobIds)

\* No job id is ever in the queue twice, whatever Enqueue calls are repeated:
\* Enqueue is idempotent by job id, and neither removal can create a copy.
NoDuplicates ==
  \A i, k \in DOMAIN queue : queue[i] = queue[k] => i = k

Before(q, a, b) == \E i, k \in DOMAIN q : i < k /\ q[i] = a /\ q[k] = b

\* No RPC lets a job overtake another: of two jobs that are both queued before
\* and after a step, the one ahead stays ahead.  A repeated Enqueue does not
\* move the job to the back, and a removal does not disturb the others.
NoOvertaking ==
  [][\A a, b \in JobIds : Before(queue, a, b) => ~ Before(queue', b, a)]_queue
=============================================================================
