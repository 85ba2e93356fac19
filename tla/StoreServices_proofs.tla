------------------------ MODULE StoreServices_proofs -----------------------
(***************************************************************************)
(* Proofs about the three services that keep the system's state, each on   *)
(* its own, under every sequence of RPCs: the Job service, for every       *)
(* number of jobs, keys and specs and every capacity of the deduplication  *)
(* index, the Queue service, for a queue of any length, and the Result     *)
(* service.  What is shown of each RPC is what the proofs about the whole  *)
(* system start from.                                                      *)
(***************************************************************************)
EXTENDS JobService, QueueService, ResultService, SequenceTheorems, TLAPS

-----------------------------------------------------------------------------
(***************************************************************************)
(* Sequences.                                                              *)
(***************************************************************************)
\* What removing one position of a sequence leaves: a shorter sequence of the
\* same elements, with the elements behind the position moved up by one.
LEMMA RemoveAtProperties ==
  ASSUME NEW S, NEW s \in Seq(S), NEW i \in 1..Len(s)
  PROVE  /\ RemoveAt(s, i) \in Seq(S)
         /\ Len(RemoveAt(s, i)) = Len(s) - 1
         /\ \A k \in 1..(Len(s) - 1) :
              RemoveAt(s, i)[k] = IF k < i THEN s[k] ELSE s[k + 1]
<1> DEFINE front == SubSeq(s, 1, i - 1)
           back == SubSeq(s, i + 1, Len(s))
<1>1. Len(s) \in Nat /\ \A k \in 1..Len(s) : s[k] \in S
  BY LenProperties, ElementOfSeq
<1>2. /\ front \in Seq(S)
      /\ Len(front) = i - 1
      /\ \A k \in 1..(i - 1) : front[k] = s[k]
  <2>1. \A k \in 1..(i - 1) : s[k] \in S
    BY <1>1
  <2> QED BY <1>1, <2>1, SubSeqProperties
<1>3. /\ back \in Seq(S)
      /\ Len(back) = Len(s) - i
      /\ \A k \in 1..(Len(s) - i) : back[k] = s[i + k]
  <2>1. \A k \in (i + 1)..Len(s) : s[k] \in S
    BY <1>1
  <2> QED BY <1>1, <2>1, SubSeqProperties
<1>4. /\ front \o back \in Seq(S)
      /\ Len(front \o back) = Len(front) + Len(back)
      /\ \A k \in 1..(Len(front) + Len(back)) :
           (front \o back)[k] = IF k <= Len(front) THEN front[k] ELSE back[k - Len(front)]
  BY <1>2, <1>3, ConcatProperties
<1>5. RemoveAt(s, i) = front \o back
  BY DEF RemoveAt
<1> HIDE DEF front, back
<1>6. ASSUME NEW k \in 1..(Len(s) - 1)
      PROVE  RemoveAt(s, i)[k] = IF k < i THEN s[k] ELSE s[k + 1]
  <2>1. CASE k < i
    BY <1>1, <1>2, <1>3, <1>4, <1>5, <2>1
  <2>2. CASE ~ (k < i)
    <3>1. k - (i - 1) \in 1..(Len(s) - i)
      BY <1>1, <2>2
    <3>2. (front \o back)[k] = back[k - (i - 1)]
      BY <1>1, <1>2, <1>3, <1>4, <2>2
    <3> QED BY <1>1, <1>3, <1>5, <2>2, <3>1, <3>2
  <2> QED BY <2>1, <2>2
<1>7. RemoveAt(s, i) \in Seq(S)
  BY <1>4, <1>5
<1>8. Len(RemoveAt(s, i)) = Len(s) - 1
  <2>1. (i - 1) + (Len(s) - i) = Len(s) - 1
    BY <1>1
  <2>2. Len(RemoveAt(s, i)) = (i - 1) + (Len(s) - i)
    <3>1. Len(front) = i - 1 /\ Len(back) = Len(s) - i
      BY <1>2, <1>3
    <3>2. Len(front \o back) = Len(front) + Len(back)
      BY <1>4
    <3> QED BY <1>5, <3>1, <3>2
  <2> QED BY <2>1, <2>2
<1> QED BY <1>6, <1>7, <1>8
-----------------------------------------------------------------------------
(***************************************************************************)
(* What the operations on the deduplication index return.                  *)
(***************************************************************************)

\* A key that is indexed has a position in the index and an entry there.
LEMMA EntryOfType ==
  ASSUME dedup \in Seq(DedupEntry), NEW key, Indexed(key)
  PROVE  /\ IndexOf(key) \in DOMAIN dedup
         /\ dedup[IndexOf(key)].key = key
         /\ EntryOf(key) \in DedupEntry
<1>1. IndexOf(key) \in DOMAIN dedup /\ dedup[IndexOf(key)].key = key
  BY DEF Indexed, IndexOf
<1>2. EntryOf(key) \in DedupEntry
  BY <1>1, ElementOfSeq DEF EntryOf
<1> QED BY <1>1, <1>2

\* Moving an entry to the back yields an index.
LEMMA TouchType ==
  ASSUME dedup \in Seq(DedupEntry), NEW key, Indexed(key)
  PROVE  Touch(key) \in Seq(DedupEntry)
<1> DEFINE i == IndexOf(key)
<1>1. i \in 1..Len(dedup) /\ EntryOf(key) \in DedupEntry
  BY EntryOfType
<1>2. SubSeq(dedup, 1, i - 1) \in Seq(DedupEntry)
  BY <1>1, SubSeqProperties
<1>3. SubSeq(dedup, i + 1, Len(dedup)) \in Seq(DedupEntry)
  BY <1>1, SubSeqProperties
<1>4. RemoveAt(dedup, i) \in Seq(DedupEntry)
  BY <1>2, <1>3, ConcatProperties DEF RemoveAt
<1> QED BY <1>1, <1>4, AppendProperties DEF Touch

\* Evicting entries yields an index.
LEMMA EvictType ==
  ASSUME NEW s \in Seq(DedupEntry)
  PROVE  Evict(s) \in Seq(DedupEntry)
<1>1. CASE Len(s) > MaxDedupKeys
  <2>1. Len(s) - MaxDedupKeys + 1 \in 1..Len(s)
    BY <1>1, CapacityAssumption, LenProperties
  <2> QED BY <1>1, <2>1, LenProperties, SubSeqProperties DEF Evict
<1>2. CASE ~ (Len(s) > MaxDedupKeys)
  BY <1>2 DEF Evict
<1> QED BY <1>1, <1>2
-----------------------------------------------------------------------------
\* A record keeps its type when it changes status.
LEMMA TransitionedType ==
  ASSUME NEW rec \in JobRecord, NEW to \in JobStatus, NEW now \in Times
  PROVE  Transitioned(rec, to, now) \in JobRecord
BY DEF Transitioned, JobRecord

\* A job that is known has a record.
LEMMA KnownRecord ==
  ASSUME JobTypeOK, NEW j \in JobIds, Known(j)
  PROVE  jobs[j] \in JobRecord
BY DEF JobTypeOK, Known, NoRecord
-----------------------------------------------------------------------------
(***************************************************************************)
(* Type correctness.  Each RPC gets a lemma of its own: the system that    *)
(* uses the service calls them one by one.                                 *)
(***************************************************************************)
LEMMA CreateJobType ==
  ASSUME JobTypeOK, NEW spec \in Specs, NEW key \in Keys \cup {NoKey}, NEW id \in JobIds,
         CreateJob(spec, key, id)
  PROVE  JobTypeOK'
<1>1. CASE /\ Indexed(key)
           /\ dedup' = IF Repeats(spec, key) THEN Touch(key) ELSE dedup
           /\ UNCHANGED <<jobs, issued>>
  <2>1. dedup' \in Seq(DedupEntry)
    BY <1>1, TouchType DEF JobTypeOK
  <2> QED BY <1>1, <2>1 DEF JobTypeOK
<1>2. CASE /\ ~ Indexed(key)
           /\ id \notin issued
           /\ issued' = issued \cup {id}
           /\ jobs' = [jobs EXCEPT ![id] = NewRecord(spec)]
           /\ dedup' = IF key = NoKey
                         THEN dedup
                         ELSE Evict(Append(dedup, [key |-> key, spec |-> spec, job |-> id]))
  <2>1. NewRecord(spec) \in JobRecord
    BY DEF NewRecord, JobRecord, JobStatus
  <2>2. jobs' \in [JobIds -> JobRecord \cup {NoRecord}]
    BY <1>2, <2>1 DEF JobTypeOK
  <2>3. CASE key = NoKey
    BY <1>2, <2>2, <2>3 DEF JobTypeOK
  <2>4. CASE key \in Keys
    <3> DEFINE entry == [key |-> key, spec |-> spec, job |-> id]
    <3>1. entry \in DedupEntry
      BY <2>4 DEF DedupEntry
    <3>2. Append(dedup, entry) \in Seq(DedupEntry)
      BY <3>1, AppendProperties DEF JobTypeOK
    <3>3. dedup' \in Seq(DedupEntry)
      BY <1>2, <2>4, <3>2, NoKeyAssumption, EvictType
    <3> QED BY <1>2, <2>2, <3>3 DEF JobTypeOK
  <2> QED BY <2>3, <2>4
<1> QED BY <1>1, <1>2 DEF CreateJob

LEMMA DeleteJobIfStatusType ==
  ASSUME JobTypeOK, NEW j \in JobIds, NEW expected, DeleteJobIfStatus(j, expected)
  PROVE  JobTypeOK'
BY DEF JobTypeOK, DeleteJobIfStatus

LEMMA TransitionJobStatusType ==
  ASSUME JobTypeOK, NEW j \in JobIds, NEW from, NEW to, NEW now \in Times,
         TransitionJobStatus(j, from, to, now)
  PROVE  JobTypeOK'
<1>1. CASE Matches(j, from, to) /\ <<from, to>> \in AllowedTransitions
  <2>1. to \in JobStatus
    BY <1>1 DEF AllowedTransitions, JobStatus, TerminalStatuses
  <2>2. jobs[j] \in JobRecord
    BY <1>1, KnownRecord DEF Matches
  <2>3. Transitioned(jobs[j], to, now) \in JobRecord
    BY <2>1, <2>2, TransitionedType
  <2> QED BY <1>1, <2>3 DEF JobTypeOK, TransitionJobStatus
<1>2. CASE ~ (Matches(j, from, to) /\ <<from, to>> \in AllowedTransitions)
  BY <1>2 DEF JobTypeOK, TransitionJobStatus
<1> QED BY <1>1, <1>2

LEMMA SetCancelRequestedType ==
  ASSUME JobTypeOK, NEW j \in JobIds, NEW requested \in BOOLEAN,
         SetCancelRequested(j, requested)
  PROVE  JobTypeOK'
<1>1. CASE Known(j) /\ jobs[j].status \notin TerminalStatuses
  <2>1. jobs[j] \in JobRecord
    BY <1>1, KnownRecord
  <2>2. [jobs[j] EXCEPT !.cancel_requested = requested] \in JobRecord
    BY <2>1 DEF JobRecord
  <2> QED BY <1>1, <2>2 DEF JobTypeOK, SetCancelRequested
<1>2. CASE ~ (Known(j) /\ jobs[j].status \notin TerminalStatuses)
  BY <1>2 DEF JobTypeOK, SetCancelRequested
<1> QED BY <1>1, <1>2

\* The records, the index and the issued ids keep their types under every
\* sequence of RPCs.
THEOREM JobTypeCorrect == JobSpec => []JobTypeOK
<1>1. JobInit => JobTypeOK
  BY EmptySeq DEF JobInit, JobTypeOK
<1>2. JobTypeOK /\ [JobNext]_jobVars => JobTypeOK'
  <2> SUFFICES ASSUME JobTypeOK, [JobNext]_jobVars PROVE JobTypeOK'
    OBVIOUS
  <2>1. ASSUME NEW spec \in Specs, NEW key \in Keys \cup {NoKey}, NEW id \in JobIds,
               CreateJob(spec, key, id)
        PROVE  JobTypeOK'
    BY <2>1, CreateJobType
  <2>2. ASSUME NEW j \in JobIds, NEW expected \in AnyStatus, DeleteJobIfStatus(j, expected)
        PROVE  JobTypeOK'
    BY <2>2, DeleteJobIfStatusType
  <2>3. ASSUME NEW j \in JobIds, NEW from \in AnyStatus, NEW to \in AnyStatus,
               NEW now \in Times, TransitionJobStatus(j, from, to, now)
        PROVE  JobTypeOK'
    BY <2>3, TransitionJobStatusType
  <2>4. ASSUME NEW j \in JobIds, NEW requested \in BOOLEAN, SetCancelRequested(j, requested)
        PROVE  JobTypeOK'
    BY <2>4, SetCancelRequestedType
  <2>5. CASE UNCHANGED jobVars
    BY <2>5 DEF jobVars, JobTypeOK
  <2> QED BY <2>1, <2>2, <2>3, <2>4, <2>5 DEF JobNext
<1> QED BY <1>1, <1>2, PTL DEF JobSpec
-----------------------------------------------------------------------------
(***************************************************************************)
(* The life of a record.  A record is known only under an id that was      *)
(* issued: this is why a CreateJob, which draws a fresh id, can overwrite  *)
(* no record, and what makes the properties below inductive.               *)
(***************************************************************************)
\* What the stamps of a record say of its status.
Stamped(rec) ==
  /\ (rec.finished # 0) <=> rec.status \in TerminalStatuses
  /\ rec.status = "QUEUED" => rec.started = 0
  /\ rec.status \in {"RUNNING", "DONE", "FAILED"} => rec.started # 0
  /\ rec.status = "CANCELED" => rec.cancel_requested

JobInv ==
  /\ JobTypeOK
  /\ \A j \in JobIds : Known(j) => j \in issued /\ Stamped(jobs[j])

Created(j) ==
  ~ Known(j) /\ j \notin issued /\ j \in issued' /\ \E spec \in Specs : jobs'[j] = NewRecord(spec)

Deleted(j) == Known(j) /\ jobs'[j] = NoRecord

Moved(j) ==
  /\ Known(j)
  /\ \E to \in JobStatus, now \in Times :
       /\ <<jobs[j].status, to>> \in AllowedTransitions
       /\ jobs'[j] = Transitioned(jobs[j], to, now)

Flagged(j) ==
  /\ Known(j)
  /\ jobs[j].status \notin TerminalStatuses
  /\ \E requested \in BOOLEAN : jobs'[j] = [jobs[j] EXCEPT !.cancel_requested = requested]

\* All that a step may do to the record of a job.
RecordStep(j) == jobs'[j] = jobs[j] \/ Created(j) \/ Deleted(j) \/ Moved(j) \/ Flagged(j)

LEMMA EveryStepIsARecordStep ==
  ASSUME JobInv, [JobNext]_jobVars, NEW j \in JobIds
  PROVE  RecordStep(j) /\ issued \subseteq issued'
<1> USE DEF JobInv
<1>1. ASSUME NEW spec \in Specs, NEW key \in Keys \cup {NoKey}, NEW id \in JobIds,
             CreateJob(spec, key, id)
      PROVE  RecordStep(j) /\ issued \subseteq issued'
  <2>1. CASE UNCHANGED <<jobs, issued>>
    BY <2>1 DEF RecordStep
  <2>2. CASE /\ id \notin issued
             /\ issued' = issued \cup {id}
             /\ jobs' = [jobs EXCEPT ![id] = NewRecord(spec)]
    <3>1. CASE j = id
      BY <2>2, <3>1 DEF RecordStep, Created, JobTypeOK
    <3>2. CASE j # id
      BY <2>2, <3>2 DEF RecordStep, JobTypeOK
    <3> QED BY <2>2, <3>1, <3>2
  <2> QED BY <1>1, <2>1, <2>2 DEF CreateJob
<1>2. ASSUME NEW k \in JobIds, NEW expected \in AnyStatus, DeleteJobIfStatus(k, expected)
      PROVE  RecordStep(j) /\ issued \subseteq issued'
  BY <1>2 DEF DeleteJobIfStatus, RecordStep, Deleted, JobTypeOK
<1>3. ASSUME NEW k \in JobIds, NEW from \in AnyStatus, NEW to \in AnyStatus,
             NEW now \in Times, TransitionJobStatus(k, from, to, now)
      PROVE  RecordStep(j) /\ issued \subseteq issued'
  <2>1. CASE Matches(k, from, to) /\ <<from, to>> \in AllowedTransitions /\ k = j
    <3>1. jobs'[j] = Transitioned(jobs[j], to, now)
      BY <1>3, <2>1 DEF TransitionJobStatus, JobTypeOK
    <3>2. to \in JobStatus
      BY <2>1 DEF AllowedTransitions, JobStatus, TerminalStatuses
    <3> QED BY <1>3, <2>1, <3>1, <3>2 DEF RecordStep, Moved, Matches, TransitionJobStatus
  <2>2. CASE ~ (Matches(k, from, to) /\ <<from, to>> \in AllowedTransitions /\ k = j)
    BY <1>3, <2>2 DEF TransitionJobStatus, RecordStep, JobTypeOK
  <2> QED BY <2>1, <2>2
<1>4. ASSUME NEW k \in JobIds, NEW requested \in BOOLEAN, SetCancelRequested(k, requested)
      PROVE  RecordStep(j) /\ issued \subseteq issued'
  <2>1. CASE Known(k) /\ jobs[k].status \notin TerminalStatuses /\ k = j
    <3>1. jobs'[j] = [jobs[j] EXCEPT !.cancel_requested = requested]
      BY <1>4, <2>1 DEF SetCancelRequested, JobTypeOK
    <3> QED BY <1>4, <2>1, <3>1 DEF RecordStep, Flagged, SetCancelRequested
  <2>2. CASE ~ (Known(k) /\ jobs[k].status \notin TerminalStatuses /\ k = j)
    BY <1>4, <2>2 DEF SetCancelRequested, RecordStep, JobTypeOK
  <2> QED BY <2>1, <2>2
<1>5. CASE UNCHANGED jobVars
  BY <1>5 DEF jobVars, RecordStep
<1> QED BY <1>1, <1>2, <1>3, <1>4, <1>5 DEF JobNext

\* The fields of a record that changes status.
LEMMA TransitionedFields ==
  ASSUME NEW rec \in JobRecord, NEW to \in JobStatus, NEW now \in Times
  PROVE  LET next == Transitioned(rec, to, now) IN
         /\ next.status = to
         /\ next.started = IF to = "RUNNING" /\ rec.started = 0 THEN now ELSE rec.started
         /\ next.finished = IF to \in TerminalStatuses THEN now ELSE rec.finished
         /\ next.cancel_requested <=> (to = "CANCELED" \/ rec.cancel_requested)
BY DEF Transitioned, JobRecord

\* A stamped record that moves along an allowed transition is stamped again.
LEMMA MovedIsStamped ==
  ASSUME NEW rec \in JobRecord, Stamped(rec), NEW to \in JobStatus, NEW now \in Times,
         <<rec.status, to>> \in AllowedTransitions
  PROVE  Stamped(Transitioned(rec, to, now))
<1>1. now # 0
  BY TimesAssumption
<1>2. rec.status \in {"QUEUED", "RUNNING"} /\ to # "QUEUED"
  BY DEF AllowedTransitions
<1>3. rec.finished = 0
  BY <1>2 DEF Stamped, TerminalStatuses
<1>4. to \in {"DONE", "FAILED"} => rec.started # 0
  BY DEF Stamped, AllowedTransitions
<1> QED BY <1>1, <1>2, <1>3, <1>4, TransitionedFields DEF Stamped, TerminalStatuses

LEMMA JobInvIsInductive ==
  ASSUME JobInv, JobTypeOK', [JobNext]_jobVars
  PROVE  JobInv'
<1> SUFFICES ASSUME NEW j \in JobIds, Known(j)'
             PROVE  (j \in issued /\ Stamped(jobs[j]))'
  BY DEF JobInv
<1>1. RecordStep(j) /\ issued \subseteq issued'
  BY EveryStepIsARecordStep
<1>2. CASE jobs'[j] = jobs[j]
  BY <1>1, <1>2 DEF JobInv, Known
<1>3. CASE Created(j)
  BY <1>3 DEF Created, NewRecord, Stamped, TerminalStatuses
<1>4. CASE Deleted(j)
  BY <1>4 DEF Deleted, NoRecord, Known
<1>5. CASE Moved(j)
  <2>1. jobs[j] \in JobRecord /\ Stamped(jobs[j]) /\ j \in issued
    BY <1>5, KnownRecord DEF Moved, JobInv
  <2> QED BY <1>1, <1>5, <2>1, MovedIsStamped DEF Moved
<1>6. CASE Flagged(j)
  <2>1. jobs[j] \in JobRecord /\ Stamped(jobs[j]) /\ j \in issued
    BY <1>6, KnownRecord DEF Flagged, JobInv
  <2>2. PICK requested \in BOOLEAN : jobs'[j] = [jobs[j] EXCEPT !.cancel_requested = requested]
    BY <1>6 DEF Flagged
  <2>3. /\ jobs'[j].status = jobs[j].status
        /\ jobs'[j].started = jobs[j].started
        /\ jobs'[j].finished = jobs[j].finished
    BY <2>1, <2>2 DEF JobRecord
  <2>4. jobs[j].status \notin TerminalStatuses
    BY <1>6 DEF Flagged
  <2> QED BY <1>1, <2>1, <2>3, <2>4 DEF Stamped, TerminalStatuses
<1> QED BY <1>1, <1>2, <1>3, <1>4, <1>5, <1>6 DEF RecordStep

LEMMA JobInvariant == JobSpec => []JobInv
<1>1. JobInit => JobInv
  BY EmptySeq DEF JobInit, JobInv, JobTypeOK, Known, NoRecord
<1>2. JobInv /\ JobTypeOK' /\ [JobNext]_jobVars => JobInv'
  BY JobInvIsInductive
<1> QED BY <1>1, <1>2, JobTypeCorrect, PTL DEF JobSpec

\* Under every sequence of RPCs, with whatever arguments, the stamps of each
\* record tell its history.
THEOREM RecordsAreStamped == JobSpec => []StampsTellHistory
<1>1. JobInv => StampsTellHistory
  BY DEF JobInv, StampsTellHistory, Stamped, Finished
<1> QED BY <1>1, JobInvariant, PTL

\* No RPC moves a record off the transition relation, or recreates an id.
THEOREM RecordsFollowTheLifecycle == JobSpec => LifecycleEdges
<1>1. ASSUME JobInv, [JobNext]_jobVars, NEW j \in JobIds, jobs'[j].status # jobs[j].status
      PROVE  \/ <<jobs[j].status, jobs'[j].status>> \in AllowedTransitions
             \/ ~ Known(j) /\ j \notin issued /\ jobs'[j].status = "QUEUED"
             \/ Known(j) /\ jobs'[j] = NoRecord
  <2>1. RecordStep(j)
    BY <1>1, EveryStepIsARecordStep
  <2>2. CASE Created(j)
    BY <2>2 DEF Created, NewRecord
  <2>3. CASE Moved(j)
    <3>1. jobs[j] \in JobRecord
      BY <1>1, <2>3, KnownRecord DEF Moved, JobInv
    <3>2. PICK to \in JobStatus, now \in Times :
            /\ <<jobs[j].status, to>> \in AllowedTransitions
            /\ jobs'[j] = Transitioned(jobs[j], to, now)
      BY <2>3 DEF Moved
    <3>3. jobs'[j].status = to
      BY <3>1, <3>2, TransitionedFields
    <3> QED BY <3>2, <3>3
  <2>4. CASE Flagged(j)
    BY <1>1, <2>4, KnownRecord DEF Flagged, JobInv, JobRecord
  <2> QED BY <1>1, <2>1, <2>2, <2>3, <2>4 DEF RecordStep, Deleted
<1>2. JobInv /\ [JobNext]_jobVars =>
        [\A j \in JobIds : jobs'[j].status # jobs[j].status =>
           \/ <<jobs[j].status, jobs'[j].status>> \in AllowedTransitions
           \/ ~ Known(j) /\ j \notin issued /\ jobs'[j].status = "QUEUED"
           \/ Known(j) /\ jobs'[j] = NoRecord]_jobVars
  BY <1>1
<1> QED BY <1>2, JobInvariant, PTL DEF JobSpec, LifecycleEdges

\* No RPC changes anything of a record that is terminal, short of deleting it.
THEOREM TerminalRecordsAreFrozen == JobSpec => TerminalIsFrozen
<1>1. ASSUME JobInv, [JobNext]_jobVars, NEW j \in JobIds, Finished(j),
             jobs'[j].status # UNSPECIFIED
      PROVE  jobs'[j] = jobs[j]
  <2>1. RecordStep(j) /\ jobs[j].status \in TerminalStatuses
    BY <1>1, EveryStepIsARecordStep DEF Finished
  <2>2. ~ Created(j)
    BY <2>1 DEF Created, Known, TerminalStatuses, UNSPECIFIED
  <2>3. ~ Deleted(j)
    BY <1>1 DEF Deleted, NoRecord
  <2>4. ~ Moved(j)
    BY <2>1 DEF Moved, AllowedTransitions, TerminalStatuses
  <2>5. ~ Flagged(j)
    BY <2>1 DEF Flagged
  <2> QED BY <2>1, <2>2, <2>3, <2>4, <2>5 DEF RecordStep
<1>2. JobInv /\ [JobNext]_jobVars =>
        [\A j \in JobIds : Finished(j) /\ jobs'[j].status # UNSPECIFIED
           => jobs'[j] = jobs[j]]_jobVars
  BY <1>1
<1> QED BY <1>2, JobInvariant, PTL DEF JobSpec, TerminalIsFrozen
-----------------------------------------------------------------------------
(***************************************************************************)
(* The deduplication index.  Its entries are moved and dropped, never      *)
(* rewritten: what holds of every entry is shown position by position.     *)
(***************************************************************************)
\* Touching a key moves its entry to the back; those behind it move up.
LEMMA TouchProperties ==
  ASSUME dedup \in Seq(DedupEntry), NEW key, Indexed(key)
  PROVE  /\ Len(Touch(key)) = Len(dedup)
         /\ \A k \in 1..(Len(dedup) - 1) :
              Touch(key)[k] = IF k < IndexOf(key) THEN dedup[k] ELSE dedup[k + 1]
         /\ Touch(key)[Len(dedup)] = dedup[IndexOf(key)]
<1> DEFINE i == IndexOf(key)
           rest == RemoveAt(dedup, i)
<1>1. i \in 1..Len(dedup) /\ EntryOf(key) \in DedupEntry /\ Len(dedup) \in Nat
  BY EntryOfType, LenProperties
<1>2. /\ rest \in Seq(DedupEntry)
      /\ Len(rest) = Len(dedup) - 1
      /\ \A k \in 1..(Len(dedup) - 1) : rest[k] = IF k < i THEN dedup[k] ELSE dedup[k + 1]
  BY <1>1, RemoveAtProperties
<1>3. Touch(key) = Append(rest, EntryOf(key)) /\ EntryOf(key) = dedup[i]
  BY DEF Touch, EntryOf
<1> HIDE DEF i, rest
<1>4. /\ Len(Append(rest, EntryOf(key))) = Len(rest) + 1
      /\ \A k \in 1..Len(rest) : Append(rest, EntryOf(key))[k] = rest[k]
      /\ Append(rest, EntryOf(key))[Len(rest) + 1] = EntryOf(key)
  BY <1>1, <1>2, AppendProperties
<1>5. Len(rest) + 1 = Len(dedup)
  BY <1>1, <1>2
<1>6. \A k \in 1..(Len(dedup) - 1) : Touch(key)[k] = rest[k]
  BY <1>2, <1>3, <1>4
<1> QED BY <1>2, <1>3, <1>4, <1>5, <1>6 DEF i

\* Evicting keeps the entries at the back, as many as fit, in their order.
LEMMA EvictProperties ==
  ASSUME NEW s \in Seq(DedupEntry)
  PROVE  /\ Len(Evict(s)) = IF Len(s) > MaxDedupKeys THEN MaxDedupKeys ELSE Len(s)
         /\ \A k \in 1..Len(Evict(s)) : /\ k + (Len(s) - Len(Evict(s))) \in 1..Len(s)
                                        /\ Evict(s)[k] = s[k + (Len(s) - Len(Evict(s)))]
<1>1. Len(s) \in Nat /\ MaxDedupKeys \in Nat /\ MaxDedupKeys > 0
  BY LenProperties, CapacityAssumption
<1>2. CASE Len(s) > MaxDedupKeys
  <2> DEFINE from == Len(s) - MaxDedupKeys + 1
  <2>1. from \in 1..Len(s) /\ Len(s) - from + 1 = MaxDedupKeys
    BY <1>1, <1>2
  <2>2. Evict(s) = SubSeq(s, from, Len(s))
    BY <1>2 DEF Evict
  <2>3. /\ Len(SubSeq(s, from, Len(s))) = Len(s) - from + 1
        /\ \A k \in 1..(Len(s) - from + 1) : SubSeq(s, from, Len(s))[k] = s[from + k - 1]
    BY <1>1, <2>1, SubSeqProperties
  <2>4. Len(Evict(s)) = MaxDedupKeys
    BY <2>1, <2>2, <2>3
  <2>5. ASSUME NEW k \in 1..MaxDedupKeys
        PROVE  /\ k + (Len(s) - MaxDedupKeys) \in 1..Len(s)
               /\ from + k - 1 = k + (Len(s) - MaxDedupKeys)
               /\ Evict(s)[k] = s[from + k - 1]
    BY <1>1, <1>2, <2>1, <2>2, <2>3
  <2> QED BY <1>2, <2>4, <2>5
<1>3. CASE ~ (Len(s) > MaxDedupKeys)
  <2>1. Evict(s) = s
    BY <1>3 DEF Evict
  <2>2. \A k \in 1..Len(s) : k + (Len(s) - Len(s)) = k
    BY <1>1
  <2> QED BY <1>3, <2>1, <2>2
<1> QED BY <1>2, <1>3

\* All that a step may do to the index: nothing, use a key, or add one.
Used(key) == Indexed(key) /\ dedup' = Touch(key) /\ UNCHANGED <<jobs, issued>>

Added(entry) ==
  /\ entry \in DedupEntry
  /\ ~ Indexed(entry.key)
  /\ entry.job \in issued'
  /\ jobs'[entry.job].spec = entry.spec
  /\ dedup' = Evict(Append(dedup, entry))

IndexStep == UNCHANGED dedup \/ (\E key : Used(key)) \/ (\E entry : Added(entry))

LEMMA EveryStepIsAnIndexStep ==
  ASSUME JobInv, [JobNext]_jobVars
  PROVE  IndexStep
<1>1. ASSUME NEW spec \in Specs, NEW key \in Keys \cup {NoKey}, NEW id \in JobIds,
             CreateJob(spec, key, id)
      PROVE  IndexStep
  <2>1. CASE /\ Indexed(key)
             /\ dedup' = IF Repeats(spec, key) THEN Touch(key) ELSE dedup
             /\ UNCHANGED <<jobs, issued>>
    BY <2>1 DEF IndexStep, Used
  <2>2. CASE /\ ~ Indexed(key)
             /\ issued' = issued \cup {id}
             /\ jobs' = [jobs EXCEPT ![id] = NewRecord(spec)]
             /\ dedup' = IF key = NoKey
                           THEN dedup
                           ELSE Evict(Append(dedup, [key |-> key, spec |-> spec, job |-> id]))
    <3>1. CASE key = NoKey
      BY <2>2, <3>1 DEF IndexStep
    <3>2. CASE key # NoKey
      <4> DEFINE entry == [key |-> key, spec |-> spec, job |-> id]
      <4>1. entry \in DedupEntry
        BY <3>2 DEF DedupEntry
      <4>2. jobs'[id] = NewRecord(spec) /\ NewRecord(spec).spec = spec
        BY <2>2 DEF JobInv, JobTypeOK, NewRecord
      <4>3. Added(entry)
        BY <2>2, <3>2, <4>1, <4>2 DEF Added
      <4> QED BY <4>3 DEF IndexStep
    <3> QED BY <3>1, <3>2
  <2> QED BY <1>1, <2>1, <2>2 DEF CreateJob
<1>2. ASSUME NEW k \in JobIds, NEW expected \in AnyStatus, DeleteJobIfStatus(k, expected)
      PROVE  IndexStep
  BY <1>2 DEF DeleteJobIfStatus, IndexStep
<1>3. ASSUME NEW k \in JobIds, NEW from \in AnyStatus, NEW to \in AnyStatus,
             NEW now \in Times, TransitionJobStatus(k, from, to, now)
      PROVE  IndexStep
  BY <1>3 DEF TransitionJobStatus, IndexStep
<1>4. ASSUME NEW k \in JobIds, NEW requested \in BOOLEAN, SetCancelRequested(k, requested)
      PROVE  IndexStep
  BY <1>4 DEF SetCancelRequested, IndexStep
<1>5. CASE UNCHANGED jobVars
  BY <1>5 DEF jobVars, IndexStep
<1> QED BY <1>1, <1>2, <1>3, <1>4, <1>5 DEF JobNext

\* As long as it is known, an issued job keeps the spec it was created with.
LEMMA SpecStays ==
  ASSUME JobInv, NEW j \in JobIds, RecordStep(j), j \in issued, Known(j)'
  PROVE  Known(j) /\ jobs'[j].spec = jobs[j].spec
<1>1. CASE Created(j)
  BY <1>1 DEF Created
<1>2. CASE Deleted(j)
  BY <1>2 DEF Deleted, NoRecord, Known
<1>3. CASE Moved(j)
  <2>1. jobs[j] \in JobRecord
    BY <1>3, KnownRecord DEF Moved, JobInv
  <2> QED BY <1>3, <2>1 DEF Moved, Transitioned, JobRecord
<1>4. CASE Flagged(j)
  <2>1. jobs[j] \in JobRecord
    BY <1>4, KnownRecord DEF Flagged, JobInv
  <2> QED BY <1>4, <2>1 DEF Flagged, JobRecord
<1> QED BY <1>1, <1>2, <1>3, <1>4 DEF RecordStep, Known

\* What an entry of the index must be.
GoodEntry(entry) ==
  /\ entry.job \in issued
  /\ Known(entry.job) => jobs[entry.job].spec = entry.spec

Distinct(s) == \A i, k \in DOMAIN s : s[i].key = s[k].key => i = k

\* Where the entry at position i was before the one at n moved to the back.
Origin(i, n, len) == IF i = len THEN n ELSE IF i < n THEN i ELSE i + 1

LEMMA OriginIsOneToOne ==
  ASSUME NEW len \in Nat, NEW n \in 1..len
  PROVE  /\ \A i \in 1..len : Origin(i, n, len) \in 1..len
         /\ \A i \in 1..len : i # len => i \in 1..(len - 1)
         /\ \A i, k \in 1..len : Origin(i, n, len) = Origin(k, n, len) => i = k
BY DEF Origin

\* The index after a step: within its capacity, no key twice, and each entry
\* was there before, or is the one that was added.
LEMMA IndexAfterTouch ==
  ASSUME dedup \in Seq(DedupEntry), Distinct(dedup), NEW key, Indexed(key)
  PROVE  /\ Distinct(Touch(key))
         /\ \A i \in DOMAIN Touch(key) : \E k \in DOMAIN dedup : Touch(key)[i] = dedup[k]
<1>1. PICK len \in Nat, n \in Nat : n \in 1..len /\ len = Len(dedup) /\ n = IndexOf(key)
  BY EntryOfType, LenProperties
<1>2. DOMAIN dedup = 1..len
  BY <1>1, LenProperties
<1>3. DOMAIN Touch(key) = 1..len
  <2>1. Touch(key) \in Seq(DedupEntry) /\ Len(Touch(key)) = Len(dedup)
    BY TouchType, TouchProperties
  <2> QED BY <1>1, <2>1, LenProperties
<1>4. ASSUME NEW i \in 1..len
      PROVE  Touch(key)[i] = dedup[Origin(i, n, len)]
  <2>1. CASE i = len
    BY <1>1, <2>1, TouchProperties DEF Origin
  <2>2. CASE i # len
    <3>1. i \in 1..(len - 1)
      BY <1>1, <2>2, OriginIsOneToOne
    <3>2. Touch(key)[i] = IF i < n THEN dedup[i] ELSE dedup[i + 1]
      BY <1>1, <3>1, TouchProperties
    <3> QED BY <2>2, <3>2 DEF Origin
  <2> QED BY <2>1, <2>2
<1>5. Distinct(Touch(key))
  <2> SUFFICES ASSUME NEW i \in 1..len, NEW k \in 1..len, Touch(key)[i].key = Touch(key)[k].key
               PROVE  i = k
    BY <1>3 DEF Distinct
  <2>1. dedup[Origin(i, n, len)].key = dedup[Origin(k, n, len)].key
    BY <1>4
  <2>2. Origin(i, n, len) = Origin(k, n, len)
    BY <1>1, <1>2, <2>1, OriginIsOneToOne DEF Distinct
  <2> QED BY <1>1, <2>2, OriginIsOneToOne
<1> QED BY <1>1, <1>2, <1>3, <1>4, <1>5, OriginIsOneToOne

LEMMA IndexAfterAdd ==
  ASSUME dedup \in Seq(DedupEntry), Distinct(dedup), Len(dedup) <= MaxDedupKeys,
         NEW entry \in DedupEntry, ~ Indexed(entry.key)
  PROVE  LET next == Evict(Append(dedup, entry)) IN
         /\ Len(next) <= MaxDedupKeys
         /\ Distinct(next)
         /\ \A i \in DOMAIN next :
              next[i] = entry \/ \E k \in DOMAIN dedup : next[i] = dedup[k]
<1> DEFINE s == Append(dedup, entry)
           next == Evict(s)
           d == Len(s) - Len(next)
<1>1. Len(dedup) \in Nat /\ DOMAIN dedup = 1..Len(dedup) /\ MaxDedupKeys \in Nat
  BY LenProperties, CapacityAssumption
<1>2. /\ s \in Seq(DedupEntry)
      /\ Len(s) = Len(dedup) + 1
      /\ \A k \in 1..Len(dedup) : s[k] = dedup[k]
      /\ s[Len(dedup) + 1] = entry
  BY AppendProperties
<1>3. next \in Seq(DedupEntry) /\ DOMAIN next = 1..Len(next) /\ Len(next) \in Nat
  BY <1>2, EvictType, LenProperties
<1>4. /\ Len(next) = IF Len(s) > MaxDedupKeys THEN MaxDedupKeys ELSE Len(s)
      /\ \A k \in 1..Len(next) : k + d \in 1..Len(s) /\ next[k] = s[k + d]
  BY <1>2, EvictProperties
<1>5. \A i, k \in 1..Len(s) : s[i].key = s[k].key => i = k
  <2> SUFFICES ASSUME NEW i \in 1..Len(s), NEW k \in 1..Len(s), s[i].key = s[k].key
               PROVE  i = k
    OBVIOUS
  <2>1. CASE i \in 1..Len(dedup) /\ k \in 1..Len(dedup)
    BY <1>1, <1>2, <2>1 DEF Distinct
  <2>2. CASE i \in 1..Len(dedup) /\ k = Len(dedup) + 1
    BY <1>1, <1>2, <2>2 DEF Indexed
  <2>3. CASE i = Len(dedup) + 1 /\ k \in 1..Len(dedup)
    BY <1>1, <1>2, <2>3 DEF Indexed
  <2>4. CASE i = Len(dedup) + 1 /\ k = Len(dedup) + 1
    BY <2>4
  <2> QED BY <1>1, <1>2, <2>1, <2>2, <2>3, <2>4
<1>6. d \in Nat
  BY <1>1, <1>2, <1>3, <1>4
<1>7. \A k \in 1..Len(s) : s[k] = entry \/ \E i \in 1..Len(dedup) : s[k] = dedup[i]
  <2>1. \A k \in 1..Len(s) : k \in 1..Len(dedup) \/ k = Len(dedup) + 1
    BY <1>1, <1>2
  <2> QED BY <1>2, <2>1
<1>8. Len(next) <= MaxDedupKeys
  BY <1>1, <1>2, <1>4
<1> HIDE DEF s, next, d
<1>9. \A i, k \in 1..Len(next) : i + d = k + d => i = k
  BY <1>3, <1>6
<1>10. Distinct(next)
  <2> SUFFICES ASSUME NEW i \in 1..Len(next), NEW k \in 1..Len(next), next[i].key = next[k].key
               PROVE  i = k
    BY <1>3 DEF Distinct
  <2>1. /\ i + d \in 1..Len(s) /\ k + d \in 1..Len(s)
        /\ s[i + d].key = s[k + d].key
    BY <1>4
  <2>2. i + d = k + d
    BY <1>5, <2>1
  <2> QED BY <1>9, <2>2
<1>11. \A i \in DOMAIN next : next[i] = entry \/ \E k \in DOMAIN dedup : next[i] = dedup[k]
  BY <1>1, <1>3, <1>4, <1>7
<1> QED BY <1>8, <1>10, <1>11 DEF next, s

\* Which entries survive: all of them when a key is used, and all but the
\* first of a full index when one is added.
LEMMA TouchKeepsEntries ==
  ASSUME dedup \in Seq(DedupEntry), NEW key, Indexed(key), NEW i \in DOMAIN dedup
  PROVE  \E k \in DOMAIN Touch(key) : Touch(key)[k] = dedup[i]
<1>1. PICK len \in Nat, n \in Nat : n \in 1..len /\ len = Len(dedup) /\ n = IndexOf(key)
  BY EntryOfType, LenProperties
<1>2. i \in 1..len
  BY <1>1, LenProperties
<1>3. DOMAIN Touch(key) = 1..len
  <2>1. Touch(key) \in Seq(DedupEntry) /\ Len(Touch(key)) = Len(dedup)
    BY TouchType, TouchProperties
  <2> QED BY <1>1, <2>1, LenProperties
<1>4. /\ \A k \in 1..(len - 1) : Touch(key)[k] = IF k < n THEN dedup[k] ELSE dedup[k + 1]
      /\ Touch(key)[len] = dedup[n]
  BY <1>1, TouchProperties
<1>5. CASE i < n
  BY <1>1, <1>2, <1>3, <1>4, <1>5
<1>6. CASE i = n
  BY <1>1, <1>3, <1>4, <1>6
<1>7. CASE i > n
  <2>1. i - 1 \in 1..(len - 1) /\ ~ (i - 1 < n) /\ i - 1 + 1 = i /\ i - 1 \in 1..len
    BY <1>1, <1>2, <1>7
  <2> QED BY <1>3, <1>4, <2>1
<1> QED BY <1>1, <1>2, <1>5, <1>6, <1>7

LEMMA AddEvictsTheFirst ==
  ASSUME dedup \in Seq(DedupEntry), Len(dedup) <= MaxDedupKeys, NEW entry \in DedupEntry,
         NEW i \in DOMAIN dedup, i # 1 \/ Len(dedup) # MaxDedupKeys
  PROVE  LET next == Evict(Append(dedup, entry)) IN
         \E k \in DOMAIN next : next[k] = dedup[i]
<1> DEFINE s == Append(dedup, entry)
           next == Evict(s)
<1>1. PICK len \in Nat, cap \in Nat : len = Len(dedup) /\ cap = MaxDedupKeys /\ len <= cap
  BY LenProperties, CapacityAssumption
<1>2. i \in 1..len /\ (i # 1 \/ len # cap)
  BY <1>1, LenProperties
<1>3. s \in Seq(DedupEntry) /\ Len(s) = len + 1 /\ \A k \in 1..len : s[k] = dedup[k]
  BY <1>1, AppendProperties
<1>4. Len(next) = IF len + 1 > cap THEN cap ELSE len + 1
  BY <1>1, <1>3, EvictProperties
<1>5. \A k \in 1..Len(next) : next[k] = s[k + (len + 1 - Len(next))]
  <2>1. \A k \in 1..Len(next) : next[k] = s[k + (Len(s) - Len(next))]
    BY <1>3, EvictProperties
  <2> HIDE DEF s, next
  <2> QED BY <1>3, <2>1
<1>6. DOMAIN next = 1..Len(next)
  BY <1>3, EvictType, LenProperties
<1> HIDE DEF s, next
<1>7. CASE len = cap
  <2>1. Len(next) = len /\ i - 1 \in 1..len /\ i - 1 + (len + 1 - len) = i
    BY <1>1, <1>2, <1>4, <1>7
  <2>2. next[i - 1] = dedup[i]
    BY <1>2, <1>3, <1>5, <2>1
  <2> QED BY <1>6, <2>1, <2>2 DEF next, s
<1>8. CASE len # cap
  <2>1. Len(next) = len + 1 /\ i \in 1..(len + 1) /\ i + (len + 1 - (len + 1)) = i
    BY <1>1, <1>2, <1>4, <1>8
  <2>2. next[i] = dedup[i]
    BY <1>2, <1>3, <1>5, <2>1
  <2> QED BY <1>6, <2>1, <2>2 DEF next, s
<1> QED BY <1>7, <1>8

DedupInv == JobInv /\ DedupIsSound

LEMMA DedupInvIsInductive ==
  ASSUME DedupInv, JobInv', [JobNext]_jobVars
  PROVE  DedupInv'
<1>1. /\ dedup \in Seq(DedupEntry) /\ Len(dedup) <= MaxDedupKeys /\ Distinct(dedup)
      /\ \A i \in DOMAIN dedup : dedup[i] \in DedupEntry /\ GoodEntry(dedup[i])
  BY ElementOfSeq, LenProperties
     DEF DedupInv, JobInv, JobTypeOK, DedupIsSound, Distinct, GoodEntry
<1>2. IndexStep /\ \A j \in JobIds : RecordStep(j) /\ issued \subseteq issued'
  BY EveryStepIsAnIndexStep, EveryStepIsARecordStep DEF DedupInv
<1> DEFINE GoodAfter(entry) ==
      /\ entry.job \in issued'
      /\ jobs'[entry.job].status # UNSPECIFIED => jobs'[entry.job].spec = entry.spec
<1>3. ASSUME NEW entry \in DedupEntry, GoodEntry(entry)
      PROVE  GoodAfter(entry)
  BY <1>2, <1>3, SpecStays DEF DedupInv, GoodEntry, DedupEntry, Known
<1>4. CASE UNCHANGED dedup
  BY <1>1, <1>3, <1>4 DEF DedupInv, DedupIsSound, Distinct, Known
<1>5. ASSUME NEW key, Used(key)
      PROVE  DedupIsSound'
  <2>1. Len(dedup') <= MaxDedupKeys
    BY <1>1, <1>5, TouchProperties DEF Used
  <2>2. /\ Distinct(dedup')
        /\ \A i \in DOMAIN dedup' : \E k \in DOMAIN dedup : dedup'[i] = dedup[k]
    BY <1>1, <1>5, IndexAfterTouch DEF Used
  <2>3. \A i \in DOMAIN dedup' : GoodAfter(dedup'[i])
    BY <1>1, <1>3, <2>2
  <2> QED BY <2>1, <2>2, <2>3 DEF DedupIsSound, Distinct, Known
<1>6. ASSUME NEW entry, Added(entry)
      PROVE  DedupIsSound'
  <2>1. /\ Len(dedup') <= MaxDedupKeys
        /\ Distinct(dedup')
        /\ \A i \in DOMAIN dedup' : dedup'[i] = entry \/ \E k \in DOMAIN dedup : dedup'[i] = dedup[k]
    BY <1>1, <1>6, IndexAfterAdd DEF Added
  <2>2. GoodAfter(entry)
    BY <1>6 DEF Added
  <2>3. \A i \in DOMAIN dedup' : GoodAfter(dedup'[i])
    BY <1>1, <1>3, <2>1, <2>2
  <2> QED BY <2>1, <2>3 DEF DedupIsSound, Distinct, Known
<1> QED BY <1>2, <1>4, <1>5, <1>6 DEF IndexStep, DedupInv

LEMMA DedupInvariant == JobSpec => []DedupInv
<1>1. JobInit => DedupIsSound
  <2>1. JobInit => dedup = <<>> /\ Len(dedup) = 0 /\ DOMAIN dedup = {}
    BY EmptySeq, LenProperties DEF JobInit
  <2> QED BY <2>1, CapacityAssumption DEF DedupIsSound
<1>2. JobInv /\ DedupIsSound => DedupInv
  BY DEF DedupInv
<1>3. DedupInv /\ JobInv' /\ [JobNext]_jobVars => DedupInv'
  BY DedupInvIsInductive
<1> QED BY <1>1, <1>2, <1>3, JobInvariant, PTL DEF JobSpec

\* Under every sequence of RPCs the index is within its capacity, has one
\* entry per key, and each entry names a job created for its payload.
THEOREM RetriesFindTheirJob == JobSpec => []DedupIsSound
<1>1. DedupInv => DedupIsSound
  BY DEF DedupInv
<1> QED BY <1>1, DedupInvariant, PTL

\* No key but the least recently used one is forgotten, and only by a full
\* index: no retry, deletion or status change drops or reorders the others.
THEOREM OnlyTheOldestKeyIsEvicted == JobSpec => EvictsLeastRecentlyUsed
<1>1. ASSUME DedupInv, [JobNext]_jobVars, NEW i \in DOMAIN dedup,
             ~ \E k \in DOMAIN dedup' : dedup'[k].key = dedup[i].key
      PROVE  i = 1 /\ Len(dedup) = MaxDedupKeys
  <2>1. IndexStep /\ dedup \in Seq(DedupEntry) /\ Len(dedup) <= MaxDedupKeys
    BY <1>1, EveryStepIsAnIndexStep DEF DedupInv, JobInv, JobTypeOK, DedupIsSound
  <2>2. CASE UNCHANGED dedup
    BY <1>1, <2>2
  <2>3. ASSUME NEW key, Used(key)
        PROVE  FALSE
    BY <1>1, <2>1, <2>3, TouchKeepsEntries DEF Used
  <2>4. ASSUME NEW entry, Added(entry)
        PROVE  i = 1 /\ Len(dedup) = MaxDedupKeys
    <3> SUFFICES ASSUME i # 1 \/ Len(dedup) # MaxDedupKeys PROVE FALSE
      OBVIOUS
    <3>1. entry \in DedupEntry /\ dedup' = Evict(Append(dedup, entry))
      BY <2>4 DEF Added
    <3>2. \E k \in DOMAIN dedup' : dedup'[k] = dedup[i]
      BY <2>1, <3>1, AddEvictsTheFirst
    <3> QED BY <1>1, <3>2
  <2> QED BY <2>1, <2>2, <2>3, <2>4 DEF IndexStep
<1>2. DedupInv /\ [JobNext]_jobVars =>
        [\A i \in DOMAIN dedup :
           (~ \E k \in DOMAIN dedup' : dedup'[k].key = dedup[i].key) =>
              i = 1 /\ Len(dedup) = MaxDedupKeys]_jobVars
  BY <1>1
<1> QED BY <1>2, DedupInvariant, PTL DEF JobSpec, EvictsLeastRecentlyUsed
-----------------------------------------------------------------------------
(***************************************************************************)
(* Every RPC keeps the queue a sequence of distinct jobs.                  *)
(***************************************************************************)
QueueInv == QueueTypeOK /\ NoDuplicates

LEMMA EnqueueJobKeeps ==
  ASSUME QueueInv, NEW j \in JobIds, EnqueueJob(j)
  PROVE  QueueInv'
<1>1. CASE Queued(j)
  BY <1>1 DEF QueueInv, QueueTypeOK, NoDuplicates, EnqueueJob
<1>2. CASE ~ Queued(j)
  <2>1. queue' = Append(queue, j) /\ queue \in Seq(JobIds)
    BY <1>2 DEF EnqueueJob, QueueInv, QueueTypeOK
  <2>2. /\ queue' \in Seq(JobIds)
        /\ Len(queue') = Len(queue) + 1
        /\ \A i \in 1..Len(queue) : queue'[i] = queue[i]
        /\ queue'[Len(queue) + 1] = j
    BY <2>1, AppendProperties
  <2>3. \A i \in 1..Len(queue) : queue[i] # j
    BY <1>2 DEF Queued, Contains
  <2>4. DOMAIN queue = 1..Len(queue) /\ DOMAIN queue' = 1..Len(queue') /\ Len(queue) \in Nat
    BY <2>1, <2>2, LenProperties
  <2>5. NoDuplicates'
    BY <2>2, <2>3, <2>4 DEF QueueInv, NoDuplicates
  <2> QED BY <2>2, <2>5 DEF QueueInv, QueueTypeOK
<1> QED BY <1>1, <1>2

LEMMA DequeueJobKeeps ==
  ASSUME QueueInv, DequeueJob
  PROVE  QueueInv'
<1>1. CASE queue = <<>>
  BY <1>1 DEF QueueInv, QueueTypeOK, NoDuplicates, DequeueJob
<1>2. CASE queue # <<>>
  <2>1. queue' = Tail(queue) /\ queue \in Seq(JobIds)
    BY <1>2 DEF DequeueJob, QueueInv, QueueTypeOK
  <2>2. /\ queue' \in Seq(JobIds)
        /\ Len(queue') = Len(queue) - 1
        /\ \A i \in 1..Len(queue') : queue'[i] = queue[i + 1]
    BY <1>2, <2>1, HeadTailProperties
  <2>3. DOMAIN queue = 1..Len(queue) /\ DOMAIN queue' = 1..Len(queue') /\ Len(queue) \in Nat
    BY <2>1, <2>2, LenProperties
  <2>4. NoDuplicates'
    BY <2>2, <2>3 DEF QueueInv, NoDuplicates
  <2> QED BY <2>2, <2>4 DEF QueueInv, QueueTypeOK
<1> QED BY <1>1, <1>2

LEMMA RemoveJobIfPresentKeeps ==
  ASSUME QueueInv, NEW j \in JobIds, RemoveJobIfPresent(j)
  PROVE  QueueInv'
<1>1. CASE Queued(j)
  <2>1. PICK i \in DOMAIN queue : queue[i] = j /\ queue' = RemoveAt(queue, i)
    BY <1>1 DEF RemoveJobIfPresent
  <2>2. queue \in Seq(JobIds) /\ DOMAIN queue = 1..Len(queue) /\ Len(queue) \in Nat
    BY LenProperties DEF QueueInv, QueueTypeOK
  <2>3. /\ queue' \in Seq(JobIds)
        /\ Len(queue') = Len(queue) - 1
        /\ \A k \in 1..(Len(queue) - 1) :
             queue'[k] = IF k < i THEN queue[k] ELSE queue[k + 1]
    BY <2>1, <2>2, RemoveAtProperties
  <2>4. DOMAIN queue' = 1..Len(queue')
    BY <2>3, LenProperties
  <2>5. ASSUME NEW a \in DOMAIN queue', NEW b \in DOMAIN queue', queue'[a] = queue'[b]
        PROVE  a = b
    <3> DEFINE at(k) == IF k < i THEN k ELSE k + 1
    <3>1. \A k \in DOMAIN queue' : at(k) \in DOMAIN queue /\ queue'[k] = queue[at(k)]
      BY <2>2, <2>3, <2>4
    <3>2. at(a) = at(b)
      BY <2>5, <3>1 DEF QueueInv, NoDuplicates
    <3> QED BY <2>2, <2>3, <2>4, <3>2
  <2> QED BY <2>3, <2>5 DEF QueueInv, QueueTypeOK, NoDuplicates
<1>2. CASE ~ Queued(j)
  BY <1>2 DEF QueueInv, QueueTypeOK, NoDuplicates, RemoveJobIfPresent
<1> QED BY <1>1, <1>2

LEMMA QueueInvariant == QueueSpec => []QueueInv
<1>1. QueueInit => QueueInv
  BY EmptySeq DEF QueueInit, QueueInv, QueueTypeOK, NoDuplicates
<1>2. QueueInv /\ [QueueNext]_queueVars => QueueInv'
  <2> SUFFICES ASSUME QueueInv, [QueueNext]_queueVars PROVE QueueInv'
    OBVIOUS
  <2>1. ASSUME NEW j \in JobIds, EnqueueJob(j) PROVE QueueInv'
    BY <2>1, EnqueueJobKeeps
  <2>2. CASE DequeueJob
    BY <2>2, DequeueJobKeeps
  <2>3. ASSUME NEW j \in JobIds, RemoveJobIfPresent(j) PROVE QueueInv'
    BY <2>3, RemoveJobIfPresentKeeps
  <2>4. CASE UNCHANGED queueVars
    BY <2>4 DEF queueVars, QueueInv, QueueTypeOK, NoDuplicates
  <2> QED BY <2>1, <2>2, <2>3, <2>4 DEF QueueNext
<1> QED BY <1>1, <1>2, PTL DEF QueueSpec

\* The queue holds jobs, and never one of them twice, under every sequence of
\* Enqueue, Dequeue and Remove calls, repeated ones included.
THEOREM QueueIsASetOfJobs == QueueSpec => []QueueTypeOK /\ []NoDuplicates
<1>1. QueueInv => QueueTypeOK /\ NoDuplicates
  BY DEF QueueInv
<1> QED BY <1>1, QueueInvariant, PTL

\* Of any two jobs that are queued after a step, the one behind is new, or
\* they were in that order before.
OrderStays ==
  \A p, r \in DOMAIN queue' : p < r =>
    ~ Queued(queue'[r]) \/ Before(queue, queue'[p], queue'[r])

LEMMA EnqueueJobKeepsOrder ==
  ASSUME QueueInv, NEW j \in JobIds, EnqueueJob(j)
  PROVE  OrderStays
<1>1. CASE Queued(j)
  BY <1>1 DEF EnqueueJob, OrderStays, Before
<1>2. CASE ~ Queued(j)
  <2>1. queue' = Append(queue, j) /\ queue \in Seq(JobIds)
    BY <1>2 DEF EnqueueJob, QueueInv, QueueTypeOK
  <2>2. /\ queue' \in Seq(JobIds)
        /\ Len(queue') = Len(queue) + 1
        /\ \A i \in 1..Len(queue) : queue'[i] = queue[i]
        /\ queue'[Len(queue) + 1] = j
    BY <2>1, AppendProperties
  <2>3. DOMAIN queue = 1..Len(queue) /\ DOMAIN queue' = 1..Len(queue') /\ Len(queue) \in Nat
    BY <2>1, <2>2, LenProperties
  <2> SUFFICES ASSUME NEW p \in DOMAIN queue', NEW r \in DOMAIN queue', p < r, Queued(queue'[r])
               PROVE  Before(queue, queue'[p], queue'[r])
    BY DEF OrderStays
  <2>4. r # Len(queue) + 1
    BY <1>2, <2>2
  <2>5. p \in 1..Len(queue) /\ r \in 1..Len(queue)
    BY <2>2, <2>3, <2>4
  <2> QED BY <2>2, <2>3, <2>5 DEF Before
<1> QED BY <1>1, <1>2

LEMMA DequeueJobKeepsOrder ==
  ASSUME QueueInv, DequeueJob
  PROVE  OrderStays
<1>1. CASE queue = <<>>
  BY <1>1 DEF DequeueJob, OrderStays, Before
<1>2. CASE queue # <<>>
  <2>1. queue' = Tail(queue) /\ queue \in Seq(JobIds)
    BY <1>2 DEF DequeueJob, QueueInv, QueueTypeOK
  <2>2. /\ queue' \in Seq(JobIds)
        /\ Len(queue') = Len(queue) - 1
        /\ \A i \in 1..Len(queue') : queue'[i] = queue[i + 1]
    BY <1>2, <2>1, HeadTailProperties
  <2>3. DOMAIN queue = 1..Len(queue) /\ DOMAIN queue' = 1..Len(queue') /\ Len(queue) \in Nat
    BY <2>1, <2>2, LenProperties
  <2>4. ASSUME NEW p \in DOMAIN queue', NEW r \in DOMAIN queue', p < r
        PROVE  p + 1 \in DOMAIN queue /\ r + 1 \in DOMAIN queue /\ p + 1 < r + 1
    BY <2>2, <2>3, <2>4
  <2> QED BY <2>2, <2>3, <2>4 DEF OrderStays, Before
<1> QED BY <1>1, <1>2

LEMMA RemoveJobIfPresentKeepsOrder ==
  ASSUME QueueInv, NEW j \in JobIds, RemoveJobIfPresent(j)
  PROVE  OrderStays
<1>1. CASE Queued(j)
  <2>1. PICK i \in DOMAIN queue : queue[i] = j /\ queue' = RemoveAt(queue, i)
    BY <1>1 DEF RemoveJobIfPresent
  <2>2. queue \in Seq(JobIds) /\ DOMAIN queue = 1..Len(queue) /\ Len(queue) \in Nat
    BY LenProperties DEF QueueInv, QueueTypeOK
  <2>3. /\ queue' \in Seq(JobIds)
        /\ Len(queue') = Len(queue) - 1
        /\ \A k \in 1..(Len(queue) - 1) :
             queue'[k] = IF k < i THEN queue[k] ELSE queue[k + 1]
    BY <2>1, <2>2, RemoveAtProperties
  <2>4. DOMAIN queue' = 1..Len(queue')
    BY <2>3, LenProperties
  <2> DEFINE at(k) == IF k < i THEN k ELSE k + 1
  <2>5. \A k \in DOMAIN queue' : at(k) \in DOMAIN queue /\ queue'[k] = queue[at(k)]
    BY <2>2, <2>3, <2>4
  <2>6. \A p, r \in DOMAIN queue' : p < r => at(p) < at(r)
    BY <2>2, <2>3, <2>4
  <2> HIDE DEF at
  <2> QED BY <2>5, <2>6 DEF OrderStays, Before
<1>2. CASE ~ Queued(j)
  BY <1>2 DEF RemoveJobIfPresent, OrderStays, Before
<1> QED BY <1>1, <1>2

\* No job overtakes another, in whatever order RPCs are made or repeated.
THEOREM QueueIsFair == QueueSpec => NoOvertaking
<1>1. ASSUME QueueInv, QueueNext
      PROVE  OrderStays
  BY <1>1, EnqueueJobKeepsOrder, DequeueJobKeepsOrder, RemoveJobIfPresentKeepsOrder DEF QueueNext
<1>2. ASSUME QueueInv, OrderStays, NEW a \in JobIds, NEW b \in JobIds, Before(queue, a, b)
      PROVE  ~ Before(queue', b, a)
  <2> SUFFICES ASSUME Before(queue', b, a) PROVE FALSE
    OBVIOUS
  <2>1. PICK p \in DOMAIN queue', r \in DOMAIN queue' : p < r /\ queue'[p] = b /\ queue'[r] = a
    BY DEF Before
  <2>2. DOMAIN queue = 1..Len(queue) /\ Len(queue) \in Nat
    BY LenProperties DEF QueueInv, QueueTypeOK
  <2>3. PICK i \in DOMAIN queue, k \in DOMAIN queue : i < k /\ queue[i] = a /\ queue[k] = b
    BY <1>2 DEF Before
  <2>4. Queued(a)
    BY <2>2, <2>3 DEF Queued, Contains
  <2>5. Before(queue, b, a)
    BY <1>2, <2>1, <2>4 DEF OrderStays
  <2>6. PICK m \in DOMAIN queue, n \in DOMAIN queue : m < n /\ queue[m] = b /\ queue[n] = a
    BY <2>5 DEF Before
  <2>7. m = k /\ n = i
    BY <1>2, <2>3, <2>6 DEF QueueInv, NoDuplicates
  <2> QED BY <2>2, <2>3, <2>6, <2>7
<1>3. QueueInv /\ [QueueNext]_queueVars =>
        [\A a, b \in JobIds : Before(queue, a, b) => ~ Before(queue', b, a)]_queue
  BY <1>1, <1>2 DEF queueVars
<1> QED BY <1>3, QueueInvariant, PTL DEF QueueSpec, NoOvertaking
-----------------------------------------------------------------------------
(***************************************************************************)
(* The Result service.                                                     *)
(***************************************************************************)
\* Storing an envelope yields envelopes, and changes none that is there.
LEMMA StoreResultKeeps ==
  ASSUME ResultTypeOK, NEW j \in JobIds, NEW status, NEW oversize,
         StoreResult(j, status, oversize)
  PROVE  /\ ResultTypeOK'
         /\ \A k \in JobIds : HasEnvelope(k) => results'[k] = results[k]
<1>1. CASE Acceptable(status, oversize) /\ ~ HasEnvelope(j)
  BY <1>1 DEF ResultTypeOK, StoreResult, Acceptable, HasEnvelope
<1>2. CASE ~ (Acceptable(status, oversize) /\ ~ HasEnvelope(j))
  BY <1>2 DEF ResultTypeOK, StoreResult
<1> QED BY <1>1, <1>2

\* A writer whose StoreResult was answered OK finds an envelope for the job
\* afterwards, its own or the one that was there first.
LEMMA AnsweredStoreLeavesEnvelope ==
  ASSUME ResultTypeOK, NEW j \in JobIds, NEW status, NEW oversize,
         StoreResult(j, status, oversize),
         StoreResultReply(j, status, oversize).code = "OK"
  PROVE  HasEnvelope(j)'
<1>1. Acceptable(status, oversize)
  BY DEF StoreResultReply, ErrorReply, StatusReply
<1>2. CASE HasEnvelope(j)
  BY <1>2 DEF StoreResult, HasEnvelope
<1>3. CASE ~ HasEnvelope(j)
  <2>1. results'[j] = status /\ status # NoEnvelope
    BY <1>1, <1>3
       DEF StoreResult, ResultTypeOK, Acceptable, TerminalStatuses, NoEnvelope, UNSPECIFIED
  <2> QED BY <2>1 DEF HasEnvelope
<1> QED BY <1>2, <1>3

LEMMA ResultTypeCorrect == ResultSpec => []ResultTypeOK
<1>1. ResultInit => ResultTypeOK
  BY DEF ResultInit, ResultTypeOK
<1>2. ResultTypeOK /\ [ResultNext]_resultVars => ResultTypeOK'
  <2>1. ASSUME ResultTypeOK, ResultNext PROVE ResultTypeOK'
    BY <2>1, StoreResultKeeps DEF ResultNext
  <2>2. ASSUME ResultTypeOK, UNCHANGED resultVars PROVE ResultTypeOK'
    BY <2>2 DEF resultVars, ResultTypeOK
  <2> QED BY <2>1, <2>2
<1> QED BY <1>1, <1>2, PTL DEF ResultSpec

\* No sequence of StoreResult calls, with whatever status and size, replaces
\* or drops an envelope that is stored.
THEOREM EnvelopesAreFinal == ResultSpec => FirstWriteWins
<1>1. ResultTypeOK /\ [ResultNext]_resultVars =>
        [\A j \in JobIds : HasEnvelope(j) => results'[j] = results[j]]_results
  <2>1. ASSUME ResultTypeOK, ResultNext
        PROVE  \A j \in JobIds : HasEnvelope(j) => results'[j] = results[j]
    BY <2>1, StoreResultKeeps DEF ResultNext
  <2> QED BY <2>1 DEF resultVars
<1> QED BY <1>1, ResultTypeCorrect, PTL DEF ResultSpec, FirstWriteWins
=============================================================================
