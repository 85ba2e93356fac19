--------------------------- MODULE WorkerLiveness --------------------------
(***************************************************************************)
(* Which workers the coordinator takes for live, and when: the heartbeats  *)
(* and fetches of the worker's loop (services/worker/worker.py) against    *)
(* the registry of the coordinator (services/coordinator/servicer.py), in  *)
(* time.                                                                   *)
(*                                                                         *)
(* A handler reads the clock before it takes the lock, so that a stamp is  *)
(* up to MaxStall old when it is used, and the stamps of two handlers can  *)
(* be stored in either order.  A call that its worker has given up may     *)
(* still be executed, however late.  A tick is shorter than the shortest   *)
(* idle sleep or job; what the worker does between two calls takes none.   *)
(***************************************************************************)
EXTENDS Integers, FiniteSets

CONSTANTS Workers,
          Interval,          \* heartbeat_interval_ms
          HeartbeatTimeout,  \* worker_heartbeat_timeout_ms
          FetchTimeout,      \* fetch_work_timeout_ms
          WorkerTimeout,     \* worker_timeout_ms
          MaxStall,          \* longest time from reading the clock to holding the lock
          MaxTime,           \* bound on the clock
          MaxCalls           \* bound on the calls under way

ASSUME DurationsAssumption ==
  /\ Interval \in Nat \ {0}
  /\ HeartbeatTimeout \in Nat \ {0}
  /\ FetchTimeout \in Nat \ {0}
  /\ WorkerTimeout \in Nat
  /\ MaxStall \in Nat
  /\ MaxTime \in Nat
  /\ MaxCalls \in Nat \ {0}

VARIABLES now,            \* the clock
          last_seen,      \* the coordinator's registry: worker -> last_seen_at_ms
          calls,          \* calls of workers that have not been executed
          pc,             \* where each worker's loop is ...
          since,          \* ... and since when
          last_heartbeat, \* the start of each worker's last heartbeat
          outcome,        \* of that heartbeat; "none" before the first one
          answered        \* workers to whom an accepting answer is on its way

loop == <<pc, since, last_heartbeat, outcome, answered>>

livenessVars == <<now, last_seen, calls, loop>>

Unregistered == -1
Unread == -1

Call == [worker : Workers, rpc : {"WorkerHeartbeat", "FetchWork"},
         since : Nat, read : Nat \cup {Unread}]

Send(w, rpc) ==
  /\ Cardinality(calls) < MaxCalls
  /\ calls' = calls \cup {[worker |-> w, rpc |-> rpc, since |-> now, read |-> Unread]}

LivenessInit ==
  /\ now = 0
  /\ last_seen = [w \in Workers |-> Unregistered]
  /\ calls = {}
  /\ pc = [w \in Workers |-> "top"]
  /\ since = [w \in Workers |-> 0]
  /\ last_heartbeat = [w \in Workers |-> 0]
  /\ outcome = [w \in Workers |-> "none"]
  /\ answered = {}
-----------------------------------------------------------------------------
\* Slips: last_seen takes the worker's own stamp, and pruning forgets the keys.
RegisterAsReported(c) ==
  last_seen' = [last_seen EXCEPT ![c.worker] = c.since]

PrunedByRemoval(read) ==
  [w \in {v \in Workers : read - last_seen[v] <= WorkerTimeout} |-> last_seen[w]]

\* The entries that a handler with the stamp read leaves in the registry.
Pruned(read) ==
  [w \in Workers |->
     IF read - last_seen[w] > WorkerTimeout THEN Unregistered ELSE last_seen[w]]

Live(c) ==
  /\ last_seen[c.worker] # Unregistered
  /\ c.read - last_seen[c.worker] <= WorkerTimeout

Register(c) ==
  last_seen' = [Pruned(c.read) EXCEPT ![c.worker] = c.read]

\* The worker waits for the answer to c.
Listens(c) ==
  /\ pc[c.worker] = (IF c.rpc = "FetchWork" THEN "fetch" ELSE "heartbeat")
  /\ since[c.worker] = c.since
-----------------------------------------------------------------------------
\* The loop is due a heartbeat (the first one is due at once).
Due(w) == outcome[w] = "none" \/ now - last_heartbeat[w] >= Interval

Move(w, to) ==
  /\ pc' = [pc EXCEPT ![w] = to]
  /\ since' = [since EXCEPT ![w] = now]

SendHeartbeat(w) ==
  /\ pc[w] = "top"
  /\ Due(w)
  /\ Move(w, "heartbeat")
  /\ answered' = answered \ {w}
  /\ Send(w, "WorkerHeartbeat")
  /\ UNCHANGED <<now, last_seen, last_heartbeat, outcome>>

\* The heartbeat is answered, or fails, by its deadline at the latest.  Either
\* way the time of its start is the loop's last heartbeat, and it fetches.
EndHeartbeat(w) ==
  /\ pc[w] = "heartbeat"
  /\ \/ w \in answered /\ outcome' = [outcome EXCEPT ![w] = "accepted"]
     \/ outcome' = [outcome EXCEPT ![w] = "failed"]
  /\ last_heartbeat' = [last_heartbeat EXCEPT ![w] = since[w]]
  /\ Move(w, "fetch")
  /\ Send(w, "FetchWork")
  /\ UNCHANGED <<now, last_seen, answered>>

SkipHeartbeat(w) ==
  /\ pc[w] = "top"
  /\ ~ Due(w)
  /\ Move(w, "fetch")
  /\ Send(w, "FetchWork")
  /\ UNCHANGED <<now, last_seen, last_heartbeat, outcome, answered>>

\* The fetch is answered, or fails, by its deadline at the latest; the worker
\* executes and reports a job, or sleeps, for any time.
EndFetch(w) ==
  /\ pc[w] = "fetch"
  /\ Move(w, "busy")
  /\ UNCHANGED <<now, last_seen, calls, last_heartbeat, outcome, answered>>

Iterate(w) ==
  /\ pc[w] = "busy"
  /\ now > since[w]
  /\ Move(w, "top")
  /\ UNCHANGED <<now, last_seen, calls, last_heartbeat, outcome, answered>>

\* The process ends, and later one with the same worker_id starts.
Stop(w) ==
  /\ pc[w] # "stopped"
  /\ Move(w, "stopped")
  /\ outcome' = [outcome EXCEPT ![w] = "none"]
  /\ UNCHANGED <<now, last_seen, calls, last_heartbeat, answered>>

Restart(w) ==
  /\ pc[w] = "stopped"
  /\ now > since[w]
  /\ Move(w, "top")
  /\ UNCHANGED <<now, last_seen, calls, last_heartbeat, outcome, answered>>
-----------------------------------------------------------------------------
\* The handler of c starts, at any time after the call: it reads the clock.
ReadClock(c) ==
  /\ c.read = Unread
  /\ calls' = (calls \ {c}) \cup
                {[worker |-> c.worker, rpc |-> c.rpc, since |-> c.since, read |-> now]}
  /\ UNCHANGED <<now, last_seen, loop>>

LoseCall(c) ==
  /\ c.read = Unread
  /\ calls' = calls \ {c}
  /\ UNCHANGED <<now, last_seen, loop>>

\* The handler takes the lock.  A heartbeat prunes the registry and enters its
\* worker; a fetch prunes it, and goes on to the queue if its worker is live.
WorkerHeartbeat(c) ==
  /\ c.rpc = "WorkerHeartbeat" /\ c.read # Unread
  /\ Register(c)
  /\ calls' = calls \ {c}
  /\ answered' = IF Listens(c) THEN answered \cup {c.worker} ELSE answered
  /\ UNCHANGED <<now, pc, since, last_heartbeat, outcome>>

FetchWork(c) ==
  /\ c.rpc = "FetchWork" /\ c.read # Unread
  /\ last_seen' = Pruned(c.read)
  /\ calls' = calls \ {c}
  /\ UNCHANGED <<now, loop>>

\* Time passes, but not beyond a worker's deadline, while a worker is between
\* two calls, or while a handler has waited for the lock for MaxStall.
Tick ==
  /\ now < MaxTime
  /\ \A w \in Workers :
       /\ pc[w] # "top"
       /\ pc[w] = "heartbeat" => now < since[w] + HeartbeatTimeout
       /\ pc[w] = "fetch" => now < since[w] + FetchTimeout
  /\ \A c \in calls : c.read # Unread => now < c.read + MaxStall
  /\ now' = now + 1
  /\ UNCHANGED <<last_seen, calls, loop>>

LivenessNext ==
  \/ Tick
  \/ \E w \in Workers :
       \/ SendHeartbeat(w) \/ EndHeartbeat(w) \/ SkipHeartbeat(w)
       \/ EndFetch(w) \/ Iterate(w) \/ Stop(w) \/ Restart(w)
  \/ \E c \in calls : ReadClock(c) \/ LoseCall(c) \/ WorkerHeartbeat(c) \/ FetchWork(c)

LivenessSpec == LivenessInit /\ [][LivenessNext]_livenessVars
-----------------------------------------------------------------------------
LivenessTypeOK ==
  /\ now \in Nat
  /\ last_seen \in [Workers -> Nat \cup {Unregistered}]
  /\ calls \subseteq Call
  /\ pc \in [Workers -> {"top", "heartbeat", "fetch", "busy", "stopped"}]
  /\ since \in [Workers -> Nat]
  /\ last_heartbeat \in [Workers -> Nat]
  /\ outcome \in [Workers -> {"none", "accepted", "failed"}]
  /\ answered \subseteq Workers

\* The longest age of the last heartbeat when a fetch starts.
MaxAge == IF Interval - 1 > HeartbeatTimeout THEN Interval - 1 ELSE HeartbeatTimeout

Sufficient == MaxAge + FetchTimeout + MaxStall <= WorkerTimeout

\* When the time-outs leave room for each other, a worker whose last heartbeat
\* was accepted is not refused as dead by any fetch it waits for: not when jobs
\* kept it from heartbeats, when other workers' calls pruned the registry, or
\* when an abandoned heartbeat, even of an earlier process, is stored late.
AcceptedWorkerIsLive ==
  Sufficient =>
    \A c \in calls :
      /\ c.rpc = "FetchWork" /\ c.read # Unread
      /\ Listens(c)
      /\ outcome[c.worker] = "accepted"
      => Live(c)
=============================================================================
