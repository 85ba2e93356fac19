---------------------------- MODULE JobStatuses ----------------------------
(***************************************************************************)
(* The vocabulary the services share: job statuses, the statuses that end  *)
(* a job, the transition relation the Job service enforces, and the shape  *)
(* of a gRPC reply.  A reply whose code is not "OK" is what the caller      *)
(* sees as an RpcError, whatever else the servicer put in the response.    *)
(***************************************************************************)

CONSTANT JobIds

\* The status a reply carries for a job the service does not know.
UNSPECIFIED == "JOB_STATUS_UNSPECIFIED"

TerminalStatuses == {"DONE", "FAILED", "CANCELED"}

JobStatus == {"QUEUED", "RUNNING"} \cup TerminalStatuses

AnyStatus == JobStatus \cup {UNSPECIFIED}

AllowedTransitions ==
  { <<"QUEUED",  "RUNNING">>,
    <<"RUNNING", "DONE">>,
    <<"RUNNING", "FAILED">>,
    <<"RUNNING", "CANCELED">>,
    <<"QUEUED",  "CANCELED">> }

ErrorReply(code) == [code |-> code]

StatusReply(applied, status) ==
  [code |-> "OK", applied |-> applied, status |-> status]
=============================================================================
