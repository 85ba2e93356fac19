---------------------------- MODULE JobLifecycle ---------------------------
(***************************************************************************)
(* What the task queue promises of every single job, whatever calls are    *)
(* made and however many requests fail: a job is accepted once, is claimed *)
(* at most once, gets one envelope, and ends only after it has one.  Only  *)
(* a job that nobody claimed can be withdrawn or canceled.                 *)
(***************************************************************************)
EXTENDS JobStatuses

VARIABLES status,    \* job -> its status, UNSPECIFIED when there is no record
          envelope,  \* job -> terminal status of its envelope, or UNSPECIFIED
          used       \* ids that were ever accepted

vars == <<status, envelope, used>>

Init ==
  /\ status = [j \in JobIds |-> UNSPECIFIED]
  /\ envelope = [j \in JobIds |-> UNSPECIFIED]
  /\ used = {}

Accept(j) ==
  /\ j \notin used
  /\ used' = used \cup {j}
  /\ status' = [status EXCEPT ![j] = "QUEUED"]
  /\ UNCHANGED envelope

Withdraw(j) ==
  /\ status[j] = "QUEUED"
  /\ status' = [status EXCEPT ![j] = UNSPECIFIED]
  /\ UNCHANGED <<envelope, used>>

Claim(j) ==
  /\ status[j] = "QUEUED"
  /\ status' = [status EXCEPT ![j] = "RUNNING"]
  /\ UNCHANGED <<envelope, used>>

Record(j, s) ==
  /\ j \in used
  /\ envelope[j] = UNSPECIFIED
  /\ envelope' = [envelope EXCEPT ![j] = s]
  /\ UNCHANGED <<status, used>>

End(j, s) ==
  /\ envelope[j] # UNSPECIFIED
  /\ <<status[j], s>> \in {<<"RUNNING", "DONE">>, <<"RUNNING", "FAILED">>,
                           <<"QUEUED", "CANCELED">>}
  /\ status' = [status EXCEPT ![j] = s]
  /\ UNCHANGED <<envelope, used>>

Next ==
  \E j \in JobIds :
    \/ Accept(j) \/ Withdraw(j) \/ Claim(j)
    \/ \E s \in TerminalStatuses : Record(j, s) \/ End(j, s)

Spec == Init /\ [][Next]_vars
=============================================================================
