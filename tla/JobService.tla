----------------------------- MODULE JobService ----------------------------
(***************************************************************************)
(* The Job service (services/job/servicer.py): the authority for job       *)
(* records and the bounded index that deduplicates submissions.  Every RPC *)
(* modelled here holds the service's lock for its whole body, so each is   *)
(* one step: an action, and a reply that is a function of the state in     *)
(* which the RPC executes.                                                 *)
(*                                                                         *)
(* A job's spec stands for its fingerprint (job type, duration, payload    *)
(* size and labels).  A record keeps its spec, status, time stamps and     *)
(* cancel flag.  Stamps are taken from Times by the caller of an action:   *)
(* the service reads the wall clock while it holds the lock.               *)
(***************************************************************************)
EXTENDS Integers, Sequences, SequencesExt, JobStatuses

CONSTANTS Specs, Keys,
          NoKey,        \* an empty client_request_id: no deduplication
          Times,        \* possible readings of the wall clock
          MaxDedupKeys  \* capacity of the deduplication index

ASSUME NoKeyAssumption == NoKey \notin Keys
ASSUME TimesAssumption == Times \subseteq Nat \ {0}
ASSUME CapacityAssumption == MaxDedupKeys \in Nat \ {0}

VARIABLES jobs,   \* job id -> record, or NoRecord
          dedup,  \* index entries, least recently used first
          issued  \* ids that have been handed out: a UUID is never drawn twice

jobVars == <<jobs, dedup, issued>>

JobRecord == [status : JobStatus, spec : Specs,
              started : Times \cup {0}, finished : Times \cup {0},
              cancel_requested : BOOLEAN]

NoRecord == [status |-> UNSPECIFIED]

Known(j) == jobs[j].status # UNSPECIFIED

DedupEntry == [key : Keys, spec : Specs, job : JobIds]

Indexed(key) == \E i \in DOMAIN dedup : dedup[i].key = key
IndexOf(key) == CHOOSE i \in DOMAIN dedup : dedup[i].key = key
EntryOf(key) == dedup[IndexOf(key)]

JobInit ==
  /\ jobs = [j \in JobIds |-> NoRecord]
  /\ dedup = <<>>
  /\ issued = {}
-----------------------------------------------------------------------------
\* Slips that TLC must notice: a record without a status, an index that evicts
\* before it is over capacity or only when it is beyond it, ...
NewRecordWithoutStatus(spec) ==
  [status |-> UNSPECIFIED, spec |-> spec, started |-> 0, finished |-> 0,
   cancel_requested |-> FALSE]

EvictEarly(s) ==
  IF Len(s) >= MaxDedupKeys
    THEN SubSeq(s, Len(s) - MaxDedupKeys + 2, Len(s))
    ELSE s

EvictLate(s) ==
  IF Len(s) > MaxDedupKeys + 1
    THEN SubSeq(s, Len(s) - MaxDedupKeys + 1, Len(s))
    ELSE s

\* ... a compare-and-set that ignores the expected status, one that does not
\* consult the transition relation, finished_at set for DONE only, and a
\* cancel flag that can still change when the job has ended.
MatchesAnyStatus(j, from, to) ==
  from # UNSPECIFIED /\ to # UNSPECIFIED /\ Known(j)

TransitionedToDoneOnly(rec, to, now) ==
  [rec EXCEPT
     !.status = to,
     !.started = IF to = "RUNNING" /\ @ = 0 THEN now ELSE @,
     !.finished = IF to = "DONE" THEN now ELSE @,
     !.cancel_requested = (to = "CANCELED") \/ @]

TransitionJobStatusFreely(j, from, to, now) ==
  /\ jobs' = IF Known(j) /\ to # UNSPECIFIED /\ jobs[j].status = from
               THEN [jobs EXCEPT ![j].status = to]
               ELSE jobs
  /\ UNCHANGED <<dedup, issued>>

SetCancelRequestedAlways(j, requested) ==
  /\ jobs' = IF Known(j) THEN [jobs EXCEPT ![j].cancel_requested = requested] ELSE jobs
  /\ UNCHANGED <<dedup, issued>>

NewRecord(spec) ==
  [status |-> "QUEUED", spec |-> spec, started |-> 0, finished |-> 0,
   cancel_requested |-> FALSE]

\* The index after an entry was used or added: it moves to the back, and the
\* least recently used entries are dropped until the index fits.
Touch(key) == Append(RemoveAt(dedup, IndexOf(key)), EntryOf(key))

Evict(s) ==
  IF Len(s) > MaxDedupKeys
    THEN SubSeq(s, Len(s) - MaxDedupKeys + 1, Len(s))
    ELSE s

\* A hit on the index that returns the job it names.
Repeats(spec, key) ==
  Indexed(key) /\ EntryOf(key).spec = spec /\ Known(EntryOf(key).job)

\* CreateJob.  A hit never creates a record: it returns the job as it is now,
\* or fails when the payload differs or the record is gone.  Otherwise the
\* record is created under the fresh id the caller of this action picks.
CreateJob(spec, key, id) ==
  \/ /\ Indexed(key)
     /\ dedup' = IF Repeats(spec, key) THEN Touch(key) ELSE dedup
     /\ UNCHANGED <<jobs, issued>>
  \/ /\ ~ Indexed(key)
     /\ id \notin issued
     /\ issued' = issued \cup {id}
     /\ jobs' = [jobs EXCEPT ![id] = NewRecord(spec)]
     /\ dedup' = IF key = NoKey
                   THEN dedup
                   ELSE Evict(Append(dedup, [key |-> key, spec |-> spec, job |-> id]))

CreateJobReply(spec, key, id) ==
  IF ~ Indexed(key) THEN
    [code |-> "OK", job |-> id, status |-> "QUEUED"]
  ELSE IF EntryOf(key).spec # spec THEN
    ErrorReply("FAILED_PRECONDITION")
  ELSE IF ~ Known(EntryOf(key).job) THEN
    ErrorReply("INTERNAL")
  ELSE
    [code |-> "OK", job |-> EntryOf(key).job, status |-> jobs[EntryOf(key).job].status]

\* Deleting a record leaves its deduplication entry behind.
DeleteJobIfStatus(j, expected) ==
  /\ jobs' = IF Known(j) /\ jobs[j].status = expected
               THEN [jobs EXCEPT ![j] = NoRecord]
               ELSE jobs
  /\ UNCHANGED <<dedup, issued>>

DeleteJobIfStatusReply(j, expected) ==
  StatusReply(Known(j) /\ jobs[j].status = expected, jobs[j].status)

GetJobRecordReply(j) ==
  IF Known(j)
    THEN [code |-> "OK", status |-> jobs[j].status, spec |-> jobs[j].spec]
    ELSE ErrorReply("NOT_FOUND")

\* The arguments are well formed and the job is known and in status from.
Matches(j, from, to) ==
  /\ from # UNSPECIFIED
  /\ to # UNSPECIFIED
  /\ Known(j)
  /\ jobs[j].status = from

Transitioned(rec, to, now) ==
  [rec EXCEPT
     !.status = to,
     !.started = IF to = "RUNNING" /\ @ = 0 THEN now ELSE @,
     !.finished = IF to \in TerminalStatuses THEN now ELSE @,
     !.cancel_requested = (to = "CANCELED") \/ @]

\* TransitionJobStatus is a compare-and-set over the allowed transitions.
TransitionJobStatus(j, from, to, now) ==
  /\ jobs' = IF Matches(j, from, to) /\ <<from, to>> \in AllowedTransitions
               THEN [jobs EXCEPT ![j] = Transitioned(@, to, now)]
               ELSE jobs
  /\ UNCHANGED <<dedup, issued>>

TransitionJobStatusReply(j, from, to) ==
  IF from = UNSPECIFIED \/ to = UNSPECIFIED THEN ErrorReply("INVALID_ARGUMENT")
  ELSE IF ~ Known(j) THEN ErrorReply("NOT_FOUND")
  ELSE IF jobs[j].status # from THEN StatusReply(FALSE, jobs[j].status)
  ELSE IF <<from, to>> \notin AllowedTransitions THEN ErrorReply("INVALID_ARGUMENT")
  ELSE StatusReply(TRUE, to)

\* SetCancelRequested leaves a finished job alone.
SetCancelRequested(j, requested) ==
  /\ jobs' = IF Known(j) /\ jobs[j].status \notin TerminalStatuses
               THEN [jobs EXCEPT ![j].cancel_requested = requested]
               ELSE jobs
  /\ UNCHANGED <<dedup, issued>>

SetCancelRequestedReply(j, requested) ==
  IF ~ Known(j) THEN ErrorReply("NOT_FOUND")
  ELSE IF jobs[j].status \in TerminalStatuses THEN StatusReply(FALSE, jobs[j].status)
  ELSE StatusReply(jobs[j].cancel_requested # requested, jobs[j].status)
-----------------------------------------------------------------------------
JobNext ==
  \/ \E spec \in Specs, key \in Keys \cup {NoKey}, id \in JobIds : CreateJob(spec, key, id)
  \/ \E j \in JobIds :
       \/ \E expected \in AnyStatus : DeleteJobIfStatus(j, expected)
       \/ \E from, to \in AnyStatus, now \in Times : TransitionJobStatus(j, from, to, now)
       \/ \E requested \in BOOLEAN : SetCancelRequested(j, requested)

JobSpec == JobInit /\ [][JobNext]_jobVars
-----------------------------------------------------------------------------
JobTypeOK ==
  /\ jobs \in [JobIds -> JobRecord \cup {NoRecord}]
  /\ dedup \in Seq(DedupEntry)
  /\ issued \subseteq JobIds

Finished(j) == jobs[j].status \in TerminalStatuses

\* The stamps tell a record's history: finished_at is set exactly when the job
\* is terminal, a QUEUED job never started, a job that ran to DONE or FAILED
\* did start, and a canceled job carries the cancel flag.
StampsTellHistory ==
  \A j \in JobIds : Known(j) =>
    /\ (jobs[j].finished # 0) <=> Finished(j)
    /\ jobs[j].status = "QUEUED" => jobs[j].started = 0
    /\ jobs[j].status \in {"RUNNING", "DONE", "FAILED"} => jobs[j].started # 0
    /\ jobs[j].status = "CANCELED" => jobs[j].cancel_requested

\* A terminal record is frozen: no sequence of transitions, cancel requests or
\* repeated submissions changes its status, its stamps or its cancel flag.
TerminalIsFrozen ==
  [][\A j \in JobIds : Finished(j) /\ jobs'[j].status # UNSPECIFIED
       => jobs'[j] = jobs[j]]_jobVars

\* A record that changes status follows the transition relation; it starts as
\* QUEUED under an id never used before, and an id whose record is deleted
\* stays unused for ever.
LifecycleEdges ==
  [][\A j \in JobIds : jobs'[j].status # jobs[j].status =>
       \/ <<jobs[j].status, jobs'[j].status>> \in AllowedTransitions
       \/ ~ Known(j) /\ j \notin issued /\ jobs'[j].status = "QUEUED"
       \/ Known(j) /\ jobs'[j] = NoRecord]_jobVars

\* The index holds at most one entry per key, within its capacity, and an
\* entry names a job that was created for this key's payload: a retry is never
\* answered with the job of another payload.
DedupIsSound ==
  /\ Len(dedup) <= MaxDedupKeys
  /\ \A i, k \in DOMAIN dedup : dedup[i].key = dedup[k].key => i = k
  /\ \A i \in DOMAIN dedup :
       /\ dedup[i].job \in issued
       /\ Known(dedup[i].job) => jobs[dedup[i].job].spec = dedup[i].spec

\* Only the least recently used key is forgotten, and only when a new key
\* enters a full index: a key just retried cannot be the victim.
EvictsLeastRecentlyUsed ==
  [][\A i \in DOMAIN dedup :
       (~ \E k \in DOMAIN dedup' : dedup'[k].key = dedup[i].key) =>
          i = 1 /\ Len(dedup) = MaxDedupKeys]_jobVars
=============================================================================
