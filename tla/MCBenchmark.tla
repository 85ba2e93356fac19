---------------------------- MODULE MCBenchmark ----------------------------
(***************************************************************************)
(* An instance of Benchmark for TLC.                                       *)
(***************************************************************************)
EXTENDS Benchmark

CONSTANTS n1, n2

TwoNodes == <<n1, n2>>
\* The second node may be told of itself only.
Orders == [n \in {n1, n2} |-> IF n = n1 THEN {<<>>} ELSE {TwoNodes, <<n2>>}]
Ids == 1..3
HashOfJob(j) == j
HashOfKey(key) == key[1] + key[2] + key[3]
\* Shuffles of one request mix, by the seed of the phase.
Shuffles ==
  LET submits == <<"SubmitJob", "SubmitJob", "GetJobStatus", "ListJobs", "GetJobResult", "CancelJob">>
      followUps == <<"CancelJob", "GetJobResult", "SubmitJob", "ListJobs", "SubmitJob", "GetJobStatus">>
      mixed == <<"GetJobStatus", "SubmitJob", "CancelJob", "GetJobResult", "SubmitJob", "ListJobs">>
      lists == <<"ListJobs", "SubmitJob", "GetJobResult", "SubmitJob", "CancelJob", "GetJobStatus">>
  IN  [warmup |-> {lists}, measure |-> {submits, followUps, mixed}, cooldown |-> {lists}]
Short == [warmup |-> 1, measure |-> 1, cooldown |-> 0]
LiveOnce == [l \in BOOLEAN |-> IF l THEN 1 ELSE 2]
OneLive == [l \in BOOLEAN |-> IF l THEN 1 ELSE 3]
=============================================================================
