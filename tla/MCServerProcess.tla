-------------------------- MODULE MCServerProcess --------------------------
EXTENDS ServerProcess

\* Nothing set but the addresses, with SERVICE_NAME as given.
Plain(name) ==
  [vars |-> [v \in Variables |-> IF v \in StoreAddrs THEN "valid" ELSE "unset"],
   service_name |-> name]

With(e, v, value) == [e EXCEPT !.vars[v] = value]

\* A good environment, two with an address missing or malformed, two with a
\* port that only another service's configuration can do without, one with a port
\* and another pool, and one with no pool at all.
MCSettings ==
  { Plain("none"),
    With(Plain("gateway"), "RESULT_SERVICE_ADDR", "unset"),
    With(Plain("none"), "JOB_SERVICE_ADDR", "malformed"),
    With(Plain("coordinator"), "GATEWAY_PORT", "out_of_range"),
    With(Plain("job"), "GATEWAY_PORT", "malformed"),
    With(With(Plain("none"), "GRPC_MAX_WORKERS", "valid"), "GATEWAY_PORT", "valid"),
    With(Plain("none"), "GRPC_MAX_WORKERS", "out_of_range") }
=============================================================================
