----------------------------- MODULE JobListing ----------------------------
(***************************************************************************)
(* Readers of the Job service: ListJobRecords (services/job/servicer.py)   *)
(* and the client that walks its pages through the gateway's ListJobs.     *)
(*                                                                         *)
(* The handler copies the references to all records under the lock.  It    *)
(* filters, sorts and summarises them after it has released the lock, so   *)
(* that it reads the status of a record twice, each time as it is by then, *)
(* also that of a record that has been deleted in the meantime.            *)
(*                                                                         *)
(* Job ids are numbers: their order stands for that of the UUIDs, which is *)
(* not the order of creation.  SetCancelRequested writes no field that a   *)
(* walk depends on and is left out.                                        *)
(***************************************************************************)
EXTENDS JobService

CONSTANTS PageSize,  \* the page size of a walk, after defaults and clamping
          Filters,   \* the status filters of walks; {} stands for no filter
          Targets,   \* the statuses to which jobs move
          MaxTime,   \* bound on created_at
          MaxWrites  \* bound on the writes that happen during a walk

ASSUME JobIdsAreOrdered == JobIds \subseteq Nat
ASSUME PageSizeAssumption == PageSize \in Nat \ {0}
ASSUME BoundsAssumption == MaxTime \in Nat /\ MaxWrites \in Nat
ASSUME FiltersAssumption == Filters \subseteq SUBSET JobStatus
ASSUME TargetsAssumption == Targets \subseteq JobStatus

VARIABLES order,    \* the ids of the records, in the order of the dictionary
          created,  \* job id -> created_at_ms
          held,     \* job id -> status in the record object, deleted or not
          reader,   \* the handler that serves a page
          walk      \* the client, and what happened since it began

listingVars == <<jobVars, order, created, held, reader, walk>>

Sorts == {"CREATED_AT_ASC", "CREATED_AT_DESC"}
Pcs == {"idle", "filter", "summarise"}

Reader(pc, taken, kept, listed, end, more) ==
  [pc |-> pc, taken |-> taken, kept |-> kept, listed |-> listed,
   end |-> end, more |-> more]

IdleReader == Reader("idle", <<>>, {}, <<>>, 0, FALSE)

\* A walk: its query, the offset of its next page, the ids it has listed, the
\* statuses in their summaries, the jobs that matched when it began, the writes
\* since, whether a record was deleted, or created no later than another.
NoWalk == [on |-> FALSE, over |-> FALSE, filter |-> {}, sort |-> "CREATED_AT_DESC",
           offset |-> 0, ids |-> <<>>, statuses |-> {}, expected |-> {},
           writes |-> 0, shrunk |-> FALSE, tied |-> FALSE]

ListingInit ==
  /\ JobInit
  /\ order = <<>>
  /\ created = [j \in JobIds |-> 0]
  /\ held = [j \in JobIds |-> UNSPECIFIED]
  /\ reader = IdleReader
  /\ walk = NoWalk
-----------------------------------------------------------------------------
\* Slips: ascending order by id alone, a window that counts from one, a filter
\* that lets jobs pass that may still reach a wanted status, a delete that
\* leaves the id in the dictionary's order.
BeforeById(sort, i, j) ==
  IF sort = "CREATED_AT_ASC" THEN i < j
  ELSE created[i] > created[j] \/ (created[i] = created[j] /\ i < j)

WindowFromOne(sorted, from, end) == SubSeq(sorted, from + 2, end)

WantedEventually(filter, status) ==
  filter = {} \/ status \in filter \/ \E to \in filter : <<status, to>> \in AllowedTransitions

DeleteKeepsId(j, expected) ==
  /\ walk.on
  /\ Known(j)
  /\ jobs[j].status = expected
  /\ DeleteJobIfStatus(j, expected)
  /\ walk' = [walk EXCEPT !.writes = @ + 1, !.shrunk = TRUE]
  /\ UNCHANGED <<order, created, held, reader>>

\* The walk, after a write.
Written == [walk EXCEPT !.writes = IF walk.on THEN @ + 1 ELSE @]

\* The writers, with what they do to the dictionary and the record objects.
Create(spec, id, now) ==
  /\ \A j \in JobIds : created[j] <= now   \* the clock does not go back
  /\ CreateJob(spec, NoKey, id)
  /\ order' = Append(order, id)
  /\ created' = [created EXCEPT ![id] = now]
  /\ held' = [held EXCEPT ![id] = "QUEUED"]
  /\ walk' = [Written EXCEPT !.tied = @ \/ \E j \in JobIds : Known(j) /\ created[j] >= now]
  /\ UNCHANGED reader

\* Only deletions during a walk matter to it.
Delete(j, expected) ==
  /\ walk.on
  /\ Known(j)
  /\ jobs[j].status = expected
  /\ DeleteJobIfStatus(j, expected)
  /\ \E i \in DOMAIN order : order[i] = j /\ order' = RemoveAt(order, i)
  /\ walk' = [Written EXCEPT !.shrunk = TRUE]
  /\ UNCHANGED <<created, held, reader>>

Transition(j, from, to, now) ==
  /\ Matches(j, from, to)
  /\ <<from, to>> \in AllowedTransitions
  /\ TransitionJobStatus(j, from, to, now)
  /\ held' = [held EXCEPT ![j] = to]
  /\ walk' = Written
  /\ UNCHANGED <<order, created, reader>>
-----------------------------------------------------------------------------
Wanted(filter, status) == filter = {} \/ status \in filter

\* (created_at, job_id) or (-created_at, job_id).
Before(sort, i, j) ==
  \/ created[i] # created[j] /\ ((created[i] < created[j]) <=> (sort = "CREATED_AT_ASC"))
  \/ created[i] = created[j] /\ i < j

\* The sequence of the members of kept, each before those that follow it.
Sorted(kept) ==
  CHOOSE s \in [1 .. Cardinality(kept) -> kept] :
    \A i, j \in 1 .. Cardinality(kept) : i < j => Before(walk.sort, s[i], s[j])

\* records[offset:end] of a list that counts from zero.
Window(sorted, from, end) == SubSeq(sorted, from + 1, end)

\* The end of the page that starts at from in a list of len records.
NextOffset(from, len) == IF from + PageSize < len THEN from + PageSize ELSE len

\* The client begins a walk, its first or after it has finished one.
StartWalk(filter, sort) ==
  /\ ~ walk.on \/ walk.over
  /\ walk' = [NoWalk EXCEPT
                !.on = TRUE, !.filter = filter, !.sort = sort,
                !.expected = {j \in JobIds : Known(j) /\ Wanted(filter, jobs[j].status)}]
  /\ UNCHANGED <<jobVars, order, created, held, reader>>

\* The handler copies the list of records while it holds the lock.
TakeRecords ==
  /\ walk.on /\ ~ walk.over
  /\ reader.pc = "idle"
  /\ reader' = Reader("filter", order, {}, <<>>, 0, FALSE)
  /\ UNCHANGED <<jobVars, order, created, held, walk>>

\* Without the lock: the next record is kept or dropped.
FilterRecord ==
  /\ reader.pc = "filter" /\ reader.taken # <<>>
  /\ LET j == Head(reader.taken) IN
       reader' = [reader EXCEPT
                    !.taken = Tail(@),
                    !.kept = IF Wanted(walk.filter, held[j]) THEN @ \cup {j} ELSE @]
  /\ UNCHANGED <<jobVars, order, created, held, walk>>

\* The records are sorted and the window [offset, end) is cut out; an offset
\* past the end gives an empty last page.
CutWindow ==
  /\ reader.pc = "filter" /\ reader.taken = <<>>
  /\ LET sorted == Sorted(reader.kept)
         len == Len(sorted)
         from == IF walk.offset > len THEN len ELSE walk.offset
         end == NextOffset(from, len)
     IN  reader' = Reader("summarise", Window(sorted, from, end), {}, <<>>,
                          end, end < len)
  /\ UNCHANGED <<jobVars, order, created, held, walk>>

\* The next record of the window is summarised, again as it is by now.
Summarise ==
  /\ reader.pc = "summarise" /\ reader.taken # <<>>
  /\ LET j == Head(reader.taken) IN
       reader' = [reader EXCEPT
                    !.taken = Tail(@),
                    !.listed = Append(@, [job |-> j, status |-> held[j]])]
  /\ UNCHANGED <<jobVars, order, created, held, walk>>

\* The client takes the page and goes on at its token, or ends; or the reply
\* is lost between the service, the gateway and the client, which asks again.
DeliverPage ==
  /\ reader.pc = "summarise" /\ reader.taken = <<>>
  /\ reader' = IdleReader
  /\ walk' = [walk EXCEPT
                !.ids = @ \o [i \in DOMAIN reader.listed |-> reader.listed[i].job],
                !.statuses = @ \cup {reader.listed[i].status : i \in DOMAIN reader.listed},
                !.offset = IF reader.more THEN reader.end ELSE 0,
                !.over = ~ reader.more]
  /\ UNCHANGED <<jobVars, order, created, held>>

LosePage ==
  /\ reader.pc = "summarise" /\ reader.taken = <<>>
  /\ reader' = IdleReader
  /\ UNCHANGED <<jobVars, order, created, held, walk>>

Write ==
  /\ walk.writes < MaxWrites /\ ~ walk.over
  /\ \/ \E spec \in Specs, id \in JobIds, now \in 0 .. MaxTime : Create(spec, id, now)
     \/ \E j \in JobIds, expected \in JobStatus : Delete(j, expected)
     \/ \E j \in JobIds, from \in JobStatus, to \in Targets, now \in Times : Transition(j, from, to, now)

ListingNext ==
  \/ Write
  \/ \E filter \in Filters, sort \in Sorts : StartWalk(filter, sort)
  \/ TakeRecords \/ FilterRecord \/ CutWindow \/ Summarise
  \/ DeliverPage \/ LosePage

ListingSpec == ListingInit /\ [][ListingNext]_listingVars
-----------------------------------------------------------------------------
ListingTypeOK ==
  /\ order \in Seq(JobIds) /\ IsInjective(order)
  /\ \A j \in JobIds : Known(j) <=> \E i \in DOMAIN order : order[i] = j
  /\ created \in [JobIds -> 0 .. MaxTime]
  /\ held \in [JobIds -> AnyStatus]
  /\ reader.pc \in Pcs
  /\ reader.taken \in Seq(JobIds)
  /\ reader.kept \subseteq JobIds
  /\ walk.filter \in Filters \cup {{}}
  /\ walk.sort \in Sorts
  /\ walk.ids \in Seq(JobIds)
  /\ walk.statuses \subseteq JobStatus
  /\ walk.expected \subseteq JobIds

\* A filter that no job leaves once it matches.
Stable(filter) ==
  \A move \in AllowedTransitions : move[1] \in filter => move[2] \in filter

\* Offset tokens over a list that grows and whose statuses change: a walk whose
\* filter no job leaves lists every job that matched when it began, as long as no
\* record is deleted.  (Offsets count from the front of a list that only grows.)
WalkSkipsNothing ==
  walk.over /\ Stable(walk.filter) /\ ~ walk.shrunk =>
    walk.expected \subseteq {walk.ids[i] : i \in DOMAIN walk.ids}

\* An unfiltered walk in ascending order lists no job twice as long as jobs are
\* created at strictly later times; deletions may make it skip, never repeat.
AscendingWalkRepeatsNothing ==
  walk.filter = {} /\ walk.sort = "CREATED_AT_ASC" /\ ~ walk.tied =>
    IsInjective(walk.ids)

\* Although the status is read once to filter and again to summarise, without
\* the lock, a page under a filter that no job leaves shows wanted jobs only.
StableFilterIsExact ==
  Stable(walk.filter) /\ walk.filter # {} => walk.statuses \subseteq walk.filter
=============================================================================
