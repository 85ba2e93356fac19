--------------------------- MODULE ResultService ---------------------------
(***************************************************************************)
(* The Result service (services/result/servicer.py): a dictionary of       *)
(* terminal envelopes, one per job, of which the first write wins.  Of an  *)
(* envelope only its terminal status is kept, and of the output only       *)
(* whether it exceeds the configured cap on output bytes.                  *)
(***************************************************************************)
EXTENDS JobStatuses

VARIABLE results   \* job id -> the terminal status of its envelope

resultVars == <<results>>

\* The value of results for a job that has no envelope.
NoEnvelope == UNSPECIFIED

HasEnvelope(j) == results[j] # NoEnvelope

ResultInit == results = [j \in JobIds |-> NoEnvelope]

Acceptable(status, oversize) == status \in TerminalStatuses /\ ~ oversize

\* A slip that TLC must notice: the last write wins.
StoreResultOverwrites(j, status, oversize) ==
  results' = IF Acceptable(status, oversize)
               THEN [results EXCEPT ![j] = status]
               ELSE results

StoreResult(j, status, oversize) ==
  results' = IF Acceptable(status, oversize) /\ ~ HasEnvelope(j)
               THEN [results EXCEPT ![j] = status]
               ELSE results

StoreResultReply(j, status, oversize) ==
  IF ~ Acceptable(status, oversize)
    THEN ErrorReply("INVALID_ARGUMENT")
    ELSE StatusReply(~ HasEnvelope(j),
                     IF HasEnvelope(j) THEN results[j] ELSE status)

GetResultReply(j) ==
  [code |-> "OK", found |-> HasEnvelope(j), status |-> results[j]]

ResultNext ==
  \E j \in JobIds, status \in AnyStatus, big \in BOOLEAN :
    StoreResult(j, status, big)

ResultSpec == ResultInit /\ [][ResultNext]_resultVars
-----------------------------------------------------------------------------
ResultTypeOK == results \in [JobIds -> TerminalStatuses \cup {NoEnvelope}]

\* An envelope, once stored, is never replaced or dropped: a retried report
\* and a cancel that comes second leave the first writer's status in place.
FirstWriteWins ==
  [][\A j \in JobIds : HasEnvelope(j) => results'[j] = results[j]]_results
=============================================================================
