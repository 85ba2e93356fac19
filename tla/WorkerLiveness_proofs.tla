----------------------- MODULE WorkerLiveness_proofs -----------------------
(***************************************************************************)
(* Proofs about the liveness registry, for any workers and durations: when *)
(* the time-outs leave room for each other, a worker whose heartbeat was   *)
(* accepted is not refused as dead.                                        *)
(***************************************************************************)
EXTENDS WorkerLiveness, TLAPS

\* Stamps are not from the future, and a handler's is at most MaxStall old.
StampsInv ==
  /\ \A c \in calls :
       c.read # Unread => c.since <= c.read /\ c.read <= now /\ now <= c.read + MaxStall
  /\ \A c \in calls : c.since <= now
  /\ \A w \in Workers : since[w] <= now /\ last_heartbeat[w] <= now

\* A worker's calls end by their deadlines, and a fetch follows soon enough
\* after the heartbeat.
LoopInv ==
  \A w \in Workers :
    /\ pc[w] = "heartbeat" => now <= since[w] + HeartbeatTimeout
    /\ pc[w] = "fetch" => now <= since[w] + FetchTimeout
    /\ pc[w] = "fetch" => since[w] <= last_heartbeat[w] + MaxAge

\* The worker is registered with a stamp that is not much older than t.
SeenSince(w, t) ==
  /\ last_seen[w] # Unregistered
  /\ t - MaxStall <= last_seen[w]

\* An accepted heartbeat leaves an entry that stays until it expires, whichever
\* handlers prune the registry or store an older stamp over it.
EntryInv ==
  \A w \in Workers :
    /\ outcome[w] = "accepted" /\ now - last_heartbeat[w] <= WorkerTimeout - MaxStall =>
         SeenSince(w, last_heartbeat[w])
    /\ pc[w] = "heartbeat" /\ w \in answered => SeenSince(w, since[w])

LivenessInv == LivenessTypeOK /\ StampsInv /\ LoopInv /\ EntryInv
-----------------------------------------------------------------------------
LEMMA MaxAgeProperties ==
  /\ MaxAge \in Nat
  /\ Interval - 1 <= MaxAge
  /\ HeartbeatTimeout <= MaxAge
BY DurationsAssumption DEF MaxAge

LEMMA SendIsTyped ==
  ASSUME LivenessTypeOK, NEW w \in Workers,
         NEW rpc \in {"WorkerHeartbeat", "FetchWork"}, Send(w, rpc)
  PROVE  /\ calls' \subseteq Call
         /\ \A c \in calls' : c \notin calls => c.since = now /\ c.read = Unread
<1>1. [worker |-> w, rpc |-> rpc, since |-> now, read |-> Unread] \in Call
  BY DEF Call, LivenessTypeOK
<1> QED BY <1>1 DEF Send, LivenessTypeOK

\* A stamp that is older than an entry by less than the time-out does not prune it.
LEMMA EntrySurvives ==
  ASSUME LivenessTypeOK, NEW w \in Workers, NEW read \in Nat, NEW t \in Nat,
         read <= now, now - t <= WorkerTimeout - MaxStall,
         SeenSince(w, t)
  PROVE  /\ Pruned(read)[w] # Unregistered
         /\ t - MaxStall <= Pruned(read)[w]
<1>1. now \in Nat /\ last_seen[w] \in Nat \cup {-1}
  BY DEF LivenessTypeOK, Unregistered
<1>2. ~ (read - last_seen[w] > WorkerTimeout)
  BY <1>1, DurationsAssumption DEF SeenSince, Unregistered
<1> QED BY <1>1, <1>2 DEF Pruned, SeenSince, Unregistered

LEMMA PrunedIsTyped ==
  ASSUME LivenessTypeOK, NEW read
  PROVE  Pruned(read) \in [Workers -> Nat \cup {Unregistered}]
BY DEF Pruned, LivenessTypeOK
-----------------------------------------------------------------------------
LEMMA TypeStep ==
  ASSUME LivenessTypeOK, [LivenessNext]_livenessVars
  PROVE  LivenessTypeOK'
<1> USE DEF LivenessTypeOK
<1>1. CASE Tick
  BY <1>1 DEF Tick, loop
<1>2. ASSUME NEW w \in Workers, SendHeartbeat(w) PROVE LivenessTypeOK'
  BY <1>2, SendIsTyped DEF SendHeartbeat, Move
<1>3. ASSUME NEW w \in Workers, EndHeartbeat(w) PROVE LivenessTypeOK'
  BY <1>3, SendIsTyped DEF EndHeartbeat, Move
<1>4. ASSUME NEW w \in Workers, SkipHeartbeat(w) PROVE LivenessTypeOK'
  BY <1>4, SendIsTyped DEF SkipHeartbeat, Move
<1>5. ASSUME NEW w \in Workers, EndFetch(w) \/ Iterate(w) \/ Stop(w) \/ Restart(w)
      PROVE LivenessTypeOK'
  BY <1>5 DEF EndFetch, Iterate, Stop, Restart, Move
<1>6. ASSUME NEW c \in calls, ReadClock(c) PROVE LivenessTypeOK'
  BY <1>6 DEF ReadClock, Call, loop
<1>7. ASSUME NEW c \in calls, LoseCall(c) PROVE LivenessTypeOK'
  BY <1>7 DEF LoseCall, loop
<1>8. ASSUME NEW c \in calls, WorkerHeartbeat(c) PROVE LivenessTypeOK'
  <2>1. c.worker \in Workers /\ c.read \in Nat
    BY <1>8 DEF WorkerHeartbeat, Call, Unread
  <2>2. last_seen' \in [Workers -> Nat \cup {Unregistered}]
    BY <1>8, <2>1, PrunedIsTyped DEF WorkerHeartbeat, Register
  <2> QED BY <1>8, <2>1, <2>2 DEF WorkerHeartbeat
<1>9. ASSUME NEW c \in calls, FetchWork(c) PROVE LivenessTypeOK'
  BY <1>9, PrunedIsTyped DEF FetchWork, loop
<1>10. CASE UNCHANGED livenessVars
  BY <1>10 DEF livenessVars, loop
<1> QED
  BY <1>1, <1>2, <1>3, <1>4, <1>5, <1>6, <1>7, <1>8, <1>9, <1>10 DEF LivenessNext
-----------------------------------------------------------------------------
LEMMA StampsStep ==
  ASSUME LivenessTypeOK, LivenessTypeOK', StampsInv, [LivenessNext]_livenessVars
  PROVE  StampsInv'
<1> USE DEF LivenessTypeOK, StampsInv
<1>1. CASE Tick
  BY <1>1, DurationsAssumption DEF Tick, loop, Call
<1>2. ASSUME NEW w \in Workers, SendHeartbeat(w) \/ SkipHeartbeat(w) \/ EndHeartbeat(w)
      PROVE StampsInv'
  <2>1. PICK rpc \in {"WorkerHeartbeat", "FetchWork"} : Send(w, rpc)
    BY <1>2 DEF SendHeartbeat, SkipHeartbeat, EndHeartbeat
  <2>2. \A c \in calls' : c \notin calls => c.since = now /\ c.read = Unread
    BY <2>1, SendIsTyped
  <2> QED BY <1>2, <2>2 DEF SendHeartbeat, SkipHeartbeat, EndHeartbeat, Move
<1>3. ASSUME NEW w \in Workers, EndFetch(w) \/ Iterate(w) \/ Stop(w) \/ Restart(w)
      PROVE StampsInv'
  BY <1>3 DEF EndFetch, Iterate, Stop, Restart, Move
<1>4. ASSUME NEW c \in calls, ReadClock(c) PROVE StampsInv'
  BY <1>4, DurationsAssumption DEF ReadClock, loop
<1>5. ASSUME NEW c \in calls, LoseCall(c) \/ WorkerHeartbeat(c) \/ FetchWork(c)
      PROVE StampsInv'
  BY <1>5 DEF LoseCall, WorkerHeartbeat, FetchWork, loop
<1>6. CASE UNCHANGED livenessVars
  BY <1>6 DEF livenessVars, loop
<1> QED BY <1>1, <1>2, <1>3, <1>4, <1>5, <1>6 DEF LivenessNext

LEMMA LoopStep ==
  ASSUME LivenessTypeOK, StampsInv, LoopInv, [LivenessNext]_livenessVars
  PROVE  LoopInv'
<1> USE DEF LivenessTypeOK, LoopInv
<1>0. MaxAge \in Nat /\ Interval - 1 <= MaxAge /\ HeartbeatTimeout <= MaxAge
  BY MaxAgeProperties
<1>1. CASE Tick
  BY <1>0, <1>1, DurationsAssumption DEF Tick, loop
<1>2. ASSUME NEW w \in Workers, SendHeartbeat(w) PROVE LoopInv'
  BY <1>0, <1>2, DurationsAssumption DEF SendHeartbeat, Move
<1>3. ASSUME NEW w \in Workers, EndHeartbeat(w) PROVE LoopInv'
  BY <1>0, <1>3, DurationsAssumption DEF EndHeartbeat, Move, StampsInv
<1>4. ASSUME NEW w \in Workers, SkipHeartbeat(w) PROVE LoopInv'
  BY <1>0, <1>4, DurationsAssumption DEF SkipHeartbeat, Move, Due, StampsInv
<1>5. ASSUME NEW w \in Workers, EndFetch(w) \/ Iterate(w) \/ Stop(w) \/ Restart(w)
      PROVE LoopInv'
  BY <1>0, <1>5 DEF EndFetch, Iterate, Stop, Restart, Move
<1>6. ASSUME NEW c \in calls,
             ReadClock(c) \/ LoseCall(c) \/ WorkerHeartbeat(c) \/ FetchWork(c)
      PROVE LoopInv'
  BY <1>0, <1>6 DEF ReadClock, LoseCall, WorkerHeartbeat, FetchWork, loop
<1>7. CASE UNCHANGED livenessVars
  BY <1>0, <1>7 DEF livenessVars, loop
<1> QED BY <1>1, <1>2, <1>3, <1>4, <1>5, <1>6, <1>7 DEF LivenessNext

\* A handler that prunes with its stamp keeps every entry that EntryInv speaks of.
LEMMA PruneKeepsEntries ==
  ASSUME LivenessTypeOK, StampsInv, LoopInv, EntryInv, Sufficient,
         NEW read \in Nat, read <= now, NEW w \in Workers
  PROVE  /\ outcome[w] = "accepted" /\ now - last_heartbeat[w] <= WorkerTimeout - MaxStall =>
              /\ Pruned(read)[w] # Unregistered
              /\ last_heartbeat[w] - MaxStall <= Pruned(read)[w]
         /\ pc[w] = "heartbeat" /\ w \in answered =>
              /\ Pruned(read)[w] # Unregistered
              /\ since[w] - MaxStall <= Pruned(read)[w]
<1>1. last_heartbeat[w] \in Nat /\ since[w] \in Nat /\ now \in Nat
  BY DEF LivenessTypeOK
<1>2. ASSUME pc[w] = "heartbeat", w \in answered
      PROVE  /\ Pruned(read)[w] # Unregistered
             /\ since[w] - MaxStall <= Pruned(read)[w]
  <2>1. SeenSince(w, since[w])
    BY <1>2 DEF EntryInv
  <2>2. now - since[w] <= WorkerTimeout - MaxStall
    BY <1>1, <1>2, MaxAgeProperties, DurationsAssumption DEF LoopInv, Sufficient
  <2> QED BY <1>1, <2>1, <2>2, EntrySurvives
<1>3. outcome[w] = "accepted" /\ now - last_heartbeat[w] <= WorkerTimeout - MaxStall =>
        /\ Pruned(read)[w] # Unregistered
        /\ last_heartbeat[w] - MaxStall <= Pruned(read)[w]
  <2> SUFFICES ASSUME outcome[w] = "accepted",
                      now - last_heartbeat[w] <= WorkerTimeout - MaxStall
               PROVE  /\ Pruned(read)[w] # Unregistered
                      /\ last_heartbeat[w] - MaxStall <= Pruned(read)[w]
    OBVIOUS
  <2>1. SeenSince(w, last_heartbeat[w])
    BY DEF EntryInv
  <2> QED BY <1>1, <2>1, EntrySurvives
<1> QED BY <1>2, <1>3

LEMMA EntryStep ==
  ASSUME LivenessTypeOK, LivenessTypeOK', StampsInv, LoopInv, EntryInv, Sufficient,
         [LivenessNext]_livenessVars
  PROVE  EntryInv'
<1> USE DEF LivenessTypeOK
<1>1. CASE Tick
  BY <1>1, DurationsAssumption DEF Tick, loop, EntryInv, SeenSince
<1>2. ASSUME NEW w \in Workers, SendHeartbeat(w) PROVE EntryInv'
  BY <1>2 DEF SendHeartbeat, Move, EntryInv, SeenSince
<1>3. ASSUME NEW w \in Workers, EndHeartbeat(w) PROVE EntryInv'
  BY <1>3 DEF EndHeartbeat, Move, EntryInv, SeenSince
<1>4. ASSUME NEW w \in Workers,
             SkipHeartbeat(w) \/ EndFetch(w) \/ Iterate(w) \/ Stop(w) \/ Restart(w)
      PROVE EntryInv'
  BY <1>4 DEF SkipHeartbeat, EndFetch, Iterate, Stop, Restart, Move, EntryInv, SeenSince
<1>5. ASSUME NEW c \in calls, ReadClock(c) \/ LoseCall(c) PROVE EntryInv'
  BY <1>5 DEF ReadClock, LoseCall, loop, EntryInv, SeenSince
<1>6. ASSUME NEW c \in calls, WorkerHeartbeat(c) PROVE EntryInv'
  <2>1. /\ c.worker \in Workers /\ c.read \in Nat /\ c.since \in Nat
        /\ c.read <= now /\ now <= c.read + MaxStall
    BY <1>6 DEF WorkerHeartbeat, Call, Unread, StampsInv
  <2> SUFFICES ASSUME NEW w \in Workers
               PROVE  /\ outcome'[w] = "accepted"
                         /\ now' - last_heartbeat'[w] <= WorkerTimeout - MaxStall =>
                           /\ last_seen'[w] # Unregistered
                           /\ last_heartbeat'[w] - MaxStall <= last_seen'[w]
                      /\ pc'[w] = "heartbeat" /\ w \in answered' =>
                           /\ last_seen'[w] # Unregistered
                           /\ since'[w] - MaxStall <= last_seen'[w]
    BY DEF EntryInv, SeenSince
  <2>2. /\ now' = now /\ pc' = pc /\ since' = since
        /\ last_heartbeat' = last_heartbeat /\ outcome' = outcome
        /\ w # c.worker => (w \in answered' <=> w \in answered)
    BY <1>6, <2>1 DEF WorkerHeartbeat
  <2>3. CASE w = c.worker
    <3>1. last_seen'[w] = c.read
      BY <1>6, <2>1, <2>3, PrunedIsTyped DEF WorkerHeartbeat, Register
    <3>2. since[w] <= now /\ last_heartbeat[w] <= now
      BY DEF StampsInv
    <3> QED BY <2>1, <2>2, <3>1, <3>2, DurationsAssumption DEF Unregistered
  <2>4. CASE w # c.worker
    <3>1. last_seen'[w] = Pruned(c.read)[w]
      BY <1>6, <2>1, <2>4, PrunedIsTyped DEF WorkerHeartbeat, Register
    <3> QED BY <2>1, <2>2, <2>4, <3>1, PruneKeepsEntries
  <2> QED BY <2>3, <2>4
<1>7. ASSUME NEW c \in calls, FetchWork(c) PROVE EntryInv'
  <2>1. c.read \in Nat /\ c.read <= now
    BY <1>7 DEF FetchWork, Call, Unread, StampsInv
  <2>2. /\ last_seen' = Pruned(c.read)
        /\ now' = now /\ pc' = pc /\ since' = since /\ answered' = answered
        /\ last_heartbeat' = last_heartbeat /\ outcome' = outcome
    BY <1>7 DEF FetchWork, loop
  <2> QED BY <2>1, <2>2, PruneKeepsEntries DEF EntryInv, SeenSince
<1>8. CASE UNCHANGED livenessVars
  BY <1>8 DEF livenessVars, loop, EntryInv, SeenSince
<1> QED BY <1>1, <1>2, <1>3, <1>4, <1>5, <1>6, <1>7, <1>8 DEF LivenessNext
-----------------------------------------------------------------------------
LEMMA LivenessInitially ==
  ASSUME LivenessInit
  PROVE  LivenessInv
<1>1. LivenessTypeOK
  BY DEF LivenessInit, LivenessTypeOK
<1>2. StampsInv /\ LoopInv /\ EntryInv
  BY DEF LivenessInit, StampsInv, LoopInv, EntryInv
<1> QED BY <1>1, <1>2 DEF LivenessInv

\* Within the durations, a fetch its worker waits for falls under EntryInv.
LEMMA InvImpliesLive ==
  ASSUME LivenessInv
  PROVE  AcceptedWorkerIsLive
<1> SUFFICES ASSUME Sufficient, NEW c \in calls, c.rpc = "FetchWork", c.read # Unread,
                    Listens(c), outcome[c.worker] = "accepted"
             PROVE  Live(c)
  BY DEF AcceptedWorkerIsLive
<1> DEFINE w == c.worker
<1>1. /\ w \in Workers /\ c.read \in Nat /\ now \in Nat
      /\ last_heartbeat[w] \in Nat /\ since[w] \in Nat
      /\ last_seen[w] \in Nat \cup {-1}
  BY DEF LivenessInv, LivenessTypeOK, Call, Unread, Unregistered
<1>2. c.read <= now
  BY DEF LivenessInv, StampsInv
<1>3. now <= since[w] + FetchTimeout /\ since[w] <= last_heartbeat[w] + MaxAge
  BY <1>1 DEF LivenessInv, LoopInv, Listens
<1>4. now - last_heartbeat[w] <= WorkerTimeout - MaxStall
  BY <1>1, <1>3, MaxAgeProperties, DurationsAssumption DEF Sufficient
<1>5. SeenSince(w, last_heartbeat[w])
  BY <1>1, <1>4 DEF LivenessInv, EntryInv
<1> QED BY <1>1, <1>2, <1>4, <1>5, DurationsAssumption DEF Live, SeenSince

\* The variables of the liveness registry and of the workers' loops keep their
\* types, whatever the durations are.
THEOREM LivenessTypeCorrect == LivenessSpec => []LivenessTypeOK
<1>1. LivenessInit => LivenessTypeOK
  BY LivenessInitially DEF LivenessInv
<1>2. LivenessTypeOK /\ [LivenessNext]_livenessVars => LivenessTypeOK'
  BY TypeStep
<1> QED BY <1>1, <1>2, PTL DEF LivenessSpec

\* For any number of workers and any durations that leave room for each other,
\* FetchWork refuses no worker as dead whose last heartbeat was accepted and
\* that waits for the answer.
THEOREM AcceptedWorkersAreLive == LivenessSpec => []AcceptedWorkerIsLive
<1>1. CASE Sufficient
  <2>1. LivenessInit => LivenessInv
    BY LivenessInitially
  <2>2. LivenessInv /\ [LivenessNext]_livenessVars => LivenessInv'
    BY <1>1, TypeStep, StampsStep, LoopStep, EntryStep DEF LivenessInv
  <2>3. LivenessInv => AcceptedWorkerIsLive
    BY InvImpliesLive
  <2> QED BY <2>1, <2>2, <2>3, PTL DEF LivenessSpec
<1>2. CASE ~ Sufficient
  <2>1. AcceptedWorkerIsLive
    BY <1>2 DEF AcceptedWorkerIsLive
  <2> QED BY <2>1, PTL
<1> QED BY <1>1, <1>2
=============================================================================
