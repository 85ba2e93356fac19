--------------------------- MODULE DesignBRouting ---------------------------
(***************************************************************************)
(* Design B's deterministic routing: the client's router                   *)
(* (common/design_b_routing.py), the owner of a key                        *)
(* (common/owner_routing.py), the place a node gives itself in the node    *)
(* order (services/monolith/node.py) and the job ids it issues             *)
(* (services/job/servicer.py).                                             *)
(*                                                                         *)
(* A node stands for its address too: position i of the client's targets   *)
(* is the address of the i-th node.  The nodes are healthy and never       *)
(* restart, their deduplication maps (10000 keys by default) do not fill,  *)
(* and a SubmitJob takes effect in one step: what failures do between the  *)
(* RPCs it is made of is TaskQueue's subject.                              *)
(***************************************************************************)
EXTENDS Integers, Sequences, FiniteSets

CONSTANTS Nodes,          \* the monolith nodes
          Targets,        \* the client's ordered targets
          DefaultOrder,   \* monolith-1, ..., monolith-6
          NodeOrders,     \* node -> the values MONOLITH_NODE_ORDER may have there
          Start,          \* design_b_round_robin_start, modulo the targets
          Gateway,        \* the single ingress of Design A
          JobIds,         \* the UUIDs that may be drawn
          JobHash(_),     \* first 8 bytes of the SHA-256 of a job id,
          KeyHash(_),     \* and of a client_request_id
          NoJob, NoKey

Positions(s) == 1..Len(s)

IsOrder(s) ==
  /\ s \in Seq(Nodes)
  /\ \A i, k \in Positions(s) : s[i] = s[k] => i = k

ASSUME TargetsAssumption ==
  IsOrder(Targets) /\ Len(Targets) > 0 /\ Start \in 0..Len(Targets) - 1
ASSUME OrdersAssumption ==
  /\ IsOrder(DefaultOrder) /\ Len(DefaultOrder) > 0
  /\ \A n \in Nodes : \A s \in NodeOrders[n] : IsOrder(s)
ASSUME HashAssumption == \A j \in JobIds : JobHash(j) \in Nat
ASSUME NamesAssumption == Gateway \notin Nodes /\ NoJob \notin JobIds

Configurations == {o \in [Nodes -> UNION {NodeOrders[n] : n \in Nodes}] :
                     \A n \in Nodes : o[n] \in NodeOrders[n]}

VARIABLES order,     \* node -> the node ids its MONOLITH_NODE_ORDER lists
          rr,        \* the router: index of the next round-robin target
          created,   \* server -> the jobs it created
          bound      \* <<server, key, job>>: the entries of the dedup maps

routing == <<order, rr, created, bound>>

Servers == Nodes \cup {Gateway}
-----------------------------------------------------------------------------
\* uint64_be(first 8 bytes of the hash) % N
OwnerIndex(hash, count) == hash % count

\* An empty list stands for the default order.
ParsedOrder(n) == IF order[n] = <<>> THEN DefaultOrder ELSE order[n]

Lists(s, n) == \E i \in Positions(s) : s[i] = n

PositionIn(s, n) == CHOOSE i \in Positions(s) : s[i] = n

\* A node that its list does not name turns to the default order,
NodeOrder(n) == IF Lists(ParsedOrder(n), n) THEN ParsedOrder(n) ELSE DefaultOrder

\* and one that this does not name either takes index 0.
NodeIndex(n) ==
  IF Lists(NodeOrder(n), n) THEN PositionIn(NodeOrder(n), n) - 1 ELSE 0

\* A slip TLC must notice: every drawn id is kept.
OwnedAnywhere(n, j) == TRUE

\* The job ids server n keeps when it draws one: Design A keeps every id.
Owned(n, j) ==
  n # Gateway => OwnerIndex(JobHash(j), Len(NodeOrder(n))) = NodeIndex(n)

Issued == UNION {created[n] : n \in Servers}
-----------------------------------------------------------------------------
\* The router's answers: the target of a key's owner, of a job's owner, and
\* the next target in turn.
KeyTarget(key) == Targets[OwnerIndex(KeyHash(key), Len(Targets)) + 1]

JobTarget(j) == Targets[OwnerIndex(JobHash(j), Len(Targets)) + 1]

\* A slip TLC must notice: the index is not wrapped.
NextRoundRobinUnwrapped == rr' = rr + 1

NextRoundRobin == rr' = (rr + 1) % Len(Targets)

RoundRobinTarget == Targets[rr + 1]

\* The router takes a keyed submission to the key's owner, any other one to
\* the next node in turn.
SubmitTarget(key, target) ==
  \/ key # NoKey /\ target = KeyTarget(key) /\ UNCHANGED rr
  \/ key = NoKey /\ target = RoundRobinTarget /\ NextRoundRobin
-----------------------------------------------------------------------------
RoutingInit ==
  /\ order \in Configurations
  /\ rr = Start
  /\ created = [n \in Servers |-> {}]
  /\ bound = {}

BoundTo(n, key) == {j \in JobIds : <<n, key, j>> \in bound}

\* A submission under a key the server has seen is answered with its job.
Deduplicate(n, key, j) ==
  /\ j \in BoundTo(n, key)
  /\ UNCHANGED <<created, bound>>

\* Any other one creates a job, with the first drawn id that is the server's.
Create(n, key, j) ==
  /\ BoundTo(n, key) = {}
  /\ j \in JobIds \ Issued
  /\ Owned(n, j)
  /\ created' = [created EXCEPT ![n] = @ \cup {j}]
  /\ bound' = IF key = NoKey THEN bound ELSE bound \cup {<<n, key, j>>}

\* A node that draws 1024 ids of other owners gives up.
DrawFails(n, key) ==
  /\ BoundTo(n, key) = {}
  /\ n # Gateway
  /\ UNCHANGED <<created, bound>>
-----------------------------------------------------------------------------
RoutingTypeOK ==
  /\ order \in Configurations
  /\ rr \in 0..Len(Targets) - 1
  /\ created \in [Servers -> SUBSET JobIds]
  /\ \A b \in bound : b[1] \in Servers /\ b[2] # NoKey /\ b[3] \in created[b[1]]

\* Node n orders the nodes as the client orders its targets.
Agrees(n) == NodeOrder(n) = Targets

\* The calls about a job that a node created go to that node, if it orders
\* the nodes as the client does: no node forwards a call.
JobsAreAtTheirOwner ==
  \A n \in Nodes : Agrees(n) => \A j \in created[n] : JobTarget(j) = n
=============================================================================
