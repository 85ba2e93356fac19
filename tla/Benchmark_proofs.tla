-------------------------- MODULE Benchmark_proofs -------------------------
(***************************************************************************)
(* Proofs about benchmark runs, for any nodes, orders, job ids, threads,   *)
(* failures, durations and invocations:                                    *)
(*   - where the nodes order themselves as the client does, calls about a  *)
(*     job go to the node that created it;                                 *)
(*   - the files of an invocation that were wholly written agree, and      *)
(*     nobody touches earlier ones without being told to;                  *)
(*   - every measured operation has one row, which counts ended jobs only; *)
(*   - a key names one operation, which creates at most one job.           *)
(***************************************************************************)
EXTENDS Benchmark, FiniteSetTheorems, TLAPS

Agreement == \A n \in Nodes : Agrees(n)

\* Where submissions may be sent.
SubmitServers ==
  IF scenario.design = "A_microservices" THEN {Gateway}
                                         ELSE {Targets[i] : i \in Positions(Targets)}

\* What servers keep, and where.
ServersInv ==
  /\ created \in [Servers -> SUBSET JobIds]
  /\ \A b \in bound : b[1] \in Servers /\ b[3] \in created[b[1]]
  /\ \A n \in Servers : \A j \in created[n] :
       n \in SubmitServers /\ (n # Gateway /\ Agrees(n) => JobTarget(j) = n)

\* A call goes where the client's router says, about a job that exists.
Routed(method, target, j) ==
  /\ method = "SubmitJob" => target \in SubmitServers
  /\ method \in JobScopedMethods => j \in Issued /\ target = ResolveJobTarget(j)

ThreadFields == {"pc", "method", "job", "key", "target", "attempt", "sent", "op", "due"}

ThreadsInv ==
  /\ DOMAIN threads = Threads
  /\ \A t \in Threads :
       /\ DOMAIN threads[t] = ThreadFields
       /\ threads[t].pc \in {"call", "backoff"} =>
            Routed(threads[t].method, threads[t].target, threads[t].job)

Inv ==
  /\ rr \in 0..Len(Targets) - 1
  /\ ServersInv
  /\ known \subseteq Issued
  /\ \A req \in late : Routed(req.method, req.target, req.job)
  /\ ThreadsInv
  /\ FollowUpsFindTheirJob
-----------------------------------------------------------------------------
LEMMA TargetsAreNodes ==
  /\ Len(Targets) \in Nat \ {0}
  /\ \A i \in Positions(Targets) : Targets[i] \in Nodes
  /\ \A i \in Nat : Targets[(i % Len(Targets)) + 1] \in {Targets[k] : k \in Positions(Targets)}
<1>1. Targets \in Seq(Nodes) /\ Len(Targets) > 0
  BY TargetsAssumption DEF IsOrder
<1>2. Len(Targets) \in Nat \ {0}
  BY <1>1
<1>3. \A i \in Positions(Targets) : Targets[i] \in Nodes
  BY <1>1 DEF Positions
<1>4. ASSUME NEW i \in Nat
      PROVE  (i % Len(Targets)) + 1 \in Positions(Targets)
  <2>1. i % Len(Targets) \in 0..Len(Targets) - 1
    BY <1>2
  <2> QED BY <1>2, <2>1 DEF Positions
<1> QED BY <1>2, <1>3, <1>4

\* A node that orders the nodes as the client does keeps ids the client takes
\* to it.
LEMMA OwnedIsTargeted ==
  ASSUME NEW i \in Positions(Targets), NEW j \in JobIds,
         Agrees(Targets[i]), Owned(Targets[i], j)
  PROVE  JobTarget(j) = Targets[i]
<1> DEFINE n == Targets[i]
<1>1. n \in Nodes /\ n # Gateway
  BY TargetsAreNodes, NamesAssumption
<1>2. Lists(Targets, n)
  BY DEF Lists
<1>3. PositionIn(Targets, n) \in Positions(Targets) /\ Targets[PositionIn(Targets, n)] = n
  BY <1>2 DEF Lists, PositionIn
<1>4. OwnerIndex(JobHash(j), Len(Targets)) = PositionIn(Targets, n) - 1
  BY <1>1, <1>2 DEF Owned, NodeIndex, Agrees
<1>5. PositionIn(Targets, n) \in Int
  BY <1>3, TargetsAreNodes DEF Positions
<1>6. OwnerIndex(JobHash(j), Len(Targets)) + 1 = PositionIn(Targets, n)
  BY <1>4, <1>5
<1> QED BY <1>3, <1>6 DEF JobTarget

\* The client takes a call about a job to the server that created it.
LEMMA CreatedIsResolved ==
  ASSUME ServersInv, Agreement, NEW n \in Servers, NEW j \in created[n]
  PROVE  ResolveJobTarget(j) = n
<1>1. n \in SubmitServers /\ (n # Gateway /\ Agrees(n) => JobTarget(j) = n)
  BY DEF ServersInv
<1>2. scenario.design # "A_microservices" => n \in Nodes /\ n # Gateway
  BY <1>1, TargetsAreNodes, NamesAssumption DEF SubmitServers
<1> QED BY <1>1, <1>2 DEF SubmitServers, ResolveJobTarget, Agreement

\* What a served request changes, and what its reply says.
LEMMA ServeStep ==
  ASSUME Inv, NEW req, Routed(req.method, req.target, req.job),
         NEW reply \in Replies, Serve(req, reply), UNCHANGED scenario
  PROVE  /\ ServersInv'
         /\ Issued \subseteq Issued'
         /\ UNCHANGED <<order, rr>>
         /\ req.method = "SubmitJob" /\ reply.code = "OK" => reply.job \in Issued'
         /\ Agreement => reply.code # "NOT_FOUND"
<1>0. reply = Reply(reply.code, reply.job, reply.terminal)
  BY DEF Replies, Reply
<1>1. CASE ServeSubmit(req, reply)
  <2>1. req.method = "SubmitJob" /\ req.target \in SubmitServers /\ req.target \in Servers
    BY <1>1, TargetsAreNodes DEF ServeSubmit, Routed, SubmitServers, Servers
  <2>2. UNCHANGED <<order, rr>> /\ reply.code # "NOT_FOUND"
    BY <1>1 DEF ServeSubmit, Reply
  <2>3. SubmitServers' = SubmitServers /\ \A n : Agrees(n)' = Agrees(n)
    BY <2>2 DEF Agrees, NodeOrder, ParsedOrder, SubmitServers
  <2>4. CASE Deduplicate(req.target, req.key, reply.job)
    <3>1. UNCHANGED <<created, bound>> /\ <<req.target, req.key, reply.job>> \in bound
      BY <2>4 DEF Deduplicate, BoundTo
    <3>2. reply.job \in created[req.target]
      BY <3>1 DEF Inv, ServersInv
    <3>3. ServersInv' /\ Issued' = Issued
      BY <2>3, <3>1 DEF Inv, ServersInv, Issued
    <3> QED BY <2>1, <2>2, <3>2, <3>3 DEF Issued
  <2>5. CASE Create(req.target, req.key, reply.job)
    <3>1. reply.job \in JobIds /\ Owned(req.target, reply.job)
          /\ created' = [created EXCEPT ![req.target] = @ \cup {reply.job}]
      BY <2>5 DEF Create
    <3>2. bound' = bound \/ bound' = bound \cup {<<req.target, req.key, reply.job>>}
      BY <2>5 DEF Create
    <3>3. /\ created' \in [Servers -> SUBSET JobIds]
          /\ \A n \in Servers : created[n] \subseteq created'[n]
          /\ \A n \in Servers : n # req.target => created'[n] = created[n]
          /\ created'[req.target] = created[req.target] \cup {reply.job}
      BY <2>1, <3>1 DEF Inv, ServersInv
    <3>4. \A b \in bound' : b[1] \in Servers /\ b[3] \in created'[b[1]]
      BY <2>1, <3>2, <3>3 DEF Inv, ServersInv
    <3>5. req.target # Gateway /\ Agrees(req.target) => JobTarget(reply.job) = req.target
      <4> SUFFICES ASSUME req.target # Gateway, Agrees(req.target)
                   PROVE  JobTarget(reply.job) = req.target
        OBVIOUS
      <4>1. PICK i \in Positions(Targets) : req.target = Targets[i]
        BY <2>1 DEF SubmitServers
      <4> QED BY <3>1, <4>1, OwnedIsTargeted
    <3>6. ServersInv'
      BY <2>1, <2>3, <3>3, <3>4, <3>5 DEF Inv, ServersInv
    <3>7. Issued \subseteq Issued' /\ reply.job \in Issued'
      BY <2>1, <3>3 DEF Issued
    <3> QED BY <2>2, <3>6, <3>7
  <2>6. CASE DrawFails(req.target, req.key) /\ reply = Reply("INTERNAL", NoJob, FALSE)
    <3>1. UNCHANGED <<created, bound>> /\ reply.code = "INTERNAL"
      BY <2>6 DEF DrawFails, Reply
    <3>2. ServersInv' /\ Issued' = Issued
      BY <2>3, <3>1 DEF Inv, ServersInv, Issued
    <3> QED BY <2>2, <3>1, <3>2
  <2> QED BY <1>1, <2>4, <2>5, <2>6 DEF ServeSubmit
<1>2. CASE ServeJobCall(req, reply)
  <2>1. UNCHANGED routing /\ req.method \in JobScopedMethods
    BY <1>2 DEF ServeJobCall
  <2>2. ServersInv' /\ Issued' = Issued
    BY <2>1 DEF Inv, ServersInv, routing, Issued, Agreement, Agrees, NodeOrder, ParsedOrder,
                SubmitServers, ResolveJobTarget
  <2>3. Agreement => req.job \in created[req.target]
    <3>1. PICK n \in Servers : req.job \in created[n]
      BY <2>1 DEF Routed, Issued
    <3> QED BY <2>1, <3>1, CreatedIsResolved DEF Routed, Inv
  <2>4. Agreement => reply.code # "NOT_FOUND"
    BY <1>2, <2>3 DEF ServeJobCall, Reply
  <2> QED BY <2>1, <2>2, <2>4 DEF routing, JobScopedMethods
<1>3. CASE ServeList(req, reply)
  <2>1. UNCHANGED routing /\ req.method = "ListJobs" /\ reply.code = "OK"
    BY <1>3 DEF ServeList, Reply
  <2>2. ServersInv' /\ Issued' = Issued
    BY <2>1 DEF Inv, ServersInv, routing, Issued, Agreement, Agrees, NodeOrder, ParsedOrder,
                SubmitServers, ResolveJobTarget
  <2> QED BY <2>1, <2>2 DEF routing
<1> QED BY <1>1, <1>2, <1>3 DEF Serve
-----------------------------------------------------------------------------
\* Requests stay routed while the configuration stays and jobs are added.
LEMMA RoutedStays ==
  ASSUME UNCHANGED <<order, scenario>>, Issued \subseteq Issued'
  PROVE  /\ Agreement' = Agreement
         /\ \A method, target, j :
              Routed(method, target, j) => Routed(method, target, j)'
BY DEF Agreement, Agrees, NodeOrder, ParsedOrder, Routed, SubmitServers, ResolveJobTarget

LEMMA ServersStay ==
  ASSUME ServersInv, UNCHANGED <<order, created, bound, scenario>>
  PROVE  ServersInv' /\ Issued' = Issued
BY DEF ServersInv, Issued, Agreement, Agrees, NodeOrder, ParsedOrder, SubmitServers,
       ResolveJobTarget

\* A thread takes the state th.
LEMMA ThreadSet ==
  ASSUME ThreadsInv, NEW t \in Threads, NEW th, Set(t, th), DOMAIN th = ThreadFields,
         UNCHANGED <<order, scenario>>, Issued \subseteq Issued',
         th.pc \in {"call", "backoff"} => Routed(th.method, th.target, th.job)'
  PROVE  ThreadsInv'
<1>1. /\ DOMAIN threads' = Threads /\ threads'[t] = th
      /\ \A u \in Threads \ {t} : threads'[u] = threads[u]
  BY DEF ThreadsInv, Set
<1>2. ASSUME NEW u \in Threads
      PROVE  /\ DOMAIN threads'[u] = ThreadFields
             /\ threads'[u].pc \in {"call", "backoff"} =>
                  Routed(threads[u].method, threads[u].target, threads[u].job)'
  <2>1. CASE u = t
    BY <1>1, <2>1 DEF Routed
  <2>2. CASE u # t
    BY <1>1, <2>2, RoutedStays DEF ThreadsInv, Routed
  <2> QED BY <2>1, <2>2
<1> QED BY <1>1, <1>2 DEF ThreadsInv

\* No thread has a call in hand.
LEMMA ThreadsReset ==
  ASSUME NEW th, DOMAIN th = ThreadFields, th.pc \notin {"call", "backoff"},
         threads' = [t \in Threads |-> th]
  PROVE  ThreadsInv'
BY DEF ThreadsInv
-----------------------------------------------------------------------------
InvVars == <<order, rr, created, bound, scenario, threads, known, rows, late>>

\* The runner removes a directory, or makes it.
DirStep == RemoveFile \/ RemoveRunDir \/ MakeRunDir

LEMMA DirSteps ==
  ASSUME DirStep
  PROVE  /\ UNCHANGED <<order, created, bound, rr, scenario, clock, phase, threads, known, rows,
                        failures, late, ended, author, begun, live, overwrite, execution, repeat>>
         /\ stage' = stage \/ (stage = "remove" /\ stage' = After("prepare"))
         /\ stage = "remove" \/ stage \in FileNames
BY DEF DirStep, RemoveFile, RemoveRunDir, MakeRunDir, FilesUnchanged, routing, traffic

LEMMA QuietStep ==
  ASSUME Inv, UNCHANGED InvVars
  PROVE  Inv'
<1>1. ServersInv' /\ Issued' = Issued
  BY ServersStay DEF Inv, InvVars
<1>2. Agreement' = Agreement
      /\ \A method, target, j : Routed(method, target, j) => Routed(method, target, j)'
  BY <1>1, RoutedStays DEF InvVars
<1>3. ThreadsInv'
  BY <1>2 DEF Inv, InvVars, ThreadsInv, Routed
<1> QED BY <1>1, <1>2, <1>3 DEF Inv, InvVars, FollowUpsFindTheirJob, Agreement

LEMMA RunnerKeepsInv ==
  ASSUME Inv, RunnerStep \/ PrecheckFails \/ Crash \/ Invoke
  PROVE  Inv'
<1>1. CASE PrepareRunDir
  <2>1. UNCHANGED <<order, created, bound, scenario, threads, late>>
        /\ known' = {} /\ rows' = {} /\ rr' = Start
    BY <1>1 DEF PrepareRunDir, PrepareUnchanged, FreshRun
  <2>2. ServersInv' /\ Issued' = Issued
    BY <2>1, ServersStay DEF Inv
  <2>3. \A method, target, j : Routed(method, target, j) => Routed(method, target, j)'
    BY <2>1, <2>2, RoutedStays
  <2>4. ThreadsInv'
    BY <2>1, <2>3 DEF Inv, ThreadsInv, Routed
  <2> QED BY <2>1, <2>2, <2>3, <2>4, TargetsAssumption DEF Inv, FollowUpsFindTheirJob
<1>2. CASE BeginPhase \/ EndPhase
  <2>1. UNCHANGED <<order, rr, created, bound, scenario, known, rows, late>>
    BY <1>2 DEF BeginPhase, EndPhase, PhaseUnchanged, routing
  <2>2. ServersInv' /\ Issued' = Issued
    BY <2>1, ServersStay DEF Inv
  <2>3. Agreement' = Agreement
        /\ \A method, target, j : Routed(method, target, j) => Routed(method, target, j)'
    BY <2>1, <2>2, RoutedStays
  <2>4. PICK th : /\ DOMAIN th = ThreadFields /\ th.pc \notin {"call", "backoff"}
                  /\ threads' = [t \in Threads |-> th]
    <3>1. CASE EndPhase
      <4>1. threads' = [t \in Threads |-> NoThread]
        BY <3>1 DEF EndPhase
      <4>2. DOMAIN NoThread = ThreadFields /\ NoThread.pc = "done"
        BY DEF NoThread, ThreadFields
      <4> QED BY <4>1, <4>2
    <3>2. CASE BeginPhase
      <4>1. PICK due : due = clock
        OBVIOUS
      <4> DEFINE th == [NoThread EXCEPT !.pc = "loop", !.due = due]
      <4>2. threads' = [t \in Threads |-> th]
        BY <3>2, <4>1 DEF BeginPhase
      <4>3. DOMAIN th = ThreadFields /\ th.pc = "loop"
        BY DEF NoThread, ThreadFields
      <4> QED BY <4>2, <4>3
    <3> QED BY <1>2, <3>1, <3>2
  <2>5. ThreadsInv'
    BY <2>4, ThreadsReset
  <2> QED BY <2>1, <2>2, <2>3, <2>5 DEF Inv, FollowUpsFindTheirJob, Agreement
<1>3. CASE DirStep \/ SkipPhase \/ OpenFile \/ CloseFile \/ PrecheckFails \/ Invoke
  <2>1. UNCHANGED InvVars
    BY <1>3, DirSteps DEF SkipPhase, OpenFile, CloseFile, PrecheckFails, Invoke, PhaseUnchanged,
                FilesUnchanged, routing, traffic, InvVars
  <2> QED BY <2>1, QuietStep
<1>4. CASE Crash
  <2>1. UNCHANGED <<order, rr, created, bound, scenario>> /\ known' = {} /\ rows' = {}
    BY <1>4 DEF Crash, routing
  <2>2. ServersInv' /\ Issued' = Issued
    BY <2>1, ServersStay DEF Inv
  <2>3. \A method, target, j : Routed(method, target, j) => Routed(method, target, j)'
    BY <2>1, <2>2, RoutedStays
  <2>4. ThreadsInv'
    <3>1. threads' = [t \in Threads |-> NoThread]
      BY <1>4 DEF Crash
    <3> QED BY <3>1, ThreadsReset DEF NoThread, ThreadFields
  <2>5. \A req \in late' : Routed(req.method, req.target, req.job)
    <3>1. ASSUME NEW t \in Threads, threads[t].pc = "call"
          PROVE  Routed(Request(t).method, Request(t).target, Request(t).job)
      BY <3>1 DEF Inv, ThreadsInv, Request
    <3> QED BY <1>4, <3>1 DEF Crash, Inv
  <2>6. \A req \in late' : Routed(req.method, req.target, req.job)'
    BY <2>3, <2>5 DEF Routed
  <2> QED BY <2>1, <2>2, <2>4, <2>6 DEF Inv, FollowUpsFindTheirJob
<1> QED BY <1>1, <1>2, <1>3, <1>4 DEF RunnerStep, DirStep

\* A row that no server's answer is in.
LEMMA RowsStay ==
  ASSUME Inv, UNCHANGED order,
         \A row \in rows' : row \in rows \/ row.code # "NOT_FOUND" \/ ~ Agreement
  PROVE  FollowUpsFindTheirJob'
<1>1. Agreement' = Agreement
  BY DEF Agreement, Agrees, NodeOrder, ParsedOrder
<1> QED BY <1>1 DEF Inv, FollowUpsFindTheirJob, Agreement

LEMMA LocalStepKeepsInv ==
  ASSUME \A key : KeyHash(key) \in Nat, Inv, NEW t \in Threads,
         \/ Begin(t) \/ EndLoop(t) \/ ExecuteSubmit(t) \/ ExecuteListJobs(t) \/ Retry(t)
         \/ \E method \in JobScopedMethods : ExecuteJobCall(t, method)
  PROVE  Inv'
<1>1. UNCHANGED <<order, created, bound, scenario, known, rows, late>>
  BY DEF Begin, EndLoop, ExecuteSubmit, Submit, ExecuteListJobs, Retry, ExecuteJobCall,
         CallUnchanged, routing
<1>2. ServersInv' /\ Issued' = Issued
  BY <1>1, ServersStay DEF Inv
<1>3. Agreement' = Agreement
      /\ \A method, target, j : Routed(method, target, j) => Routed(method, target, j)'
  BY <1>1, <1>2, RoutedStays
<1>4. DOMAIN threads = Threads /\ DOMAIN threads[t] = ThreadFields
  BY DEF Inv, ThreadsInv
<1>5. SUFFICES rr' \in 0..Len(Targets) - 1 /\ ThreadsInv'
  BY <1>1, <1>2, <1>3 DEF Inv, FollowUpsFindTheirJob, Agreement
<1>6. ASSUME NEW method, NEW target, NEW j, NEW key, Call(t, method, target, j, key),
             Routed(method, target, j)
      PROVE  ThreadsInv'
  <2>1. PICK th : th = [threads[t] EXCEPT !.pc = "call", !.method = method, !.target = target,
                          !.job = j, !.key = key, !.attempt = 1, !.sent = clock]
    OBVIOUS
  <2>2. Set(t, th)
    BY <1>6, <2>1 DEF Call
  <2>3. DOMAIN th = ThreadFields /\ th.method = method /\ th.target = target /\ th.job = j
    BY <1>4, <2>1 DEF ThreadFields
  <2>4. Routed(th.method, th.target, th.job)'
    BY <1>3, <1>6, <2>3
  <2> QED BY <1>1, <1>2, <2>2, <2>3, <2>4, ThreadSet DEF Inv
<1>7. CASE Begin(t) \/ EndLoop(t)
  <2>1. PICK th : Set(t, th) /\ DOMAIN th = ThreadFields /\ th.pc \in {"begin", "done"}
    <3>1. CASE Begin(t)
      <4>1. PICK th : th = [threads[t] EXCEPT !.pc = "begin", !.due = @ + Interval,
                                              !.method = Usable(phase.mix[phase.next])]
        OBVIOUS
      <4>2. Set(t, th)
        BY <3>1, <4>1 DEF Begin
      <4>3. DOMAIN th = ThreadFields /\ th.pc = "begin"
        BY <1>4, <4>1 DEF ThreadFields
      <4> QED BY <4>2, <4>3
    <3>2. CASE EndLoop(t)
      <4>1. PICK th : th = [threads[t] EXCEPT !.pc = "done"]
        OBVIOUS
      <4>2. Set(t, th)
        BY <3>2, <4>1 DEF EndLoop
      <4>3. DOMAIN th = ThreadFields /\ th.pc = "done"
        BY <1>4, <4>1 DEF ThreadFields
      <4> QED BY <4>2, <4>3
    <3> QED BY <1>7, <3>1, <3>2
  <2>2. ThreadsInv'
    BY <1>1, <1>2, <2>1, ThreadSet DEF Inv
  <2> QED BY <1>7, <2>2 DEF Begin, EndLoop, routing, Inv
<1>8. CASE ExecuteSubmit(t)
  <2>1. PICK target \in Servers :
          /\ ResolveSubmitTarget(BuildKey(t, threads[t].op), target)
          /\ Call(t, "SubmitJob", target, NoJob, BuildKey(t, threads[t].op))
    BY <1>8 DEF ExecuteSubmit, Submit
  <2>2. target \in SubmitServers /\ rr' \in 0..Len(Targets) - 1
    <3>1. CASE scenario.design = "A_microservices"
      BY <2>1, <3>1 DEF ResolveSubmitTarget, SubmitServers, Inv
    <3>2. CASE scenario.design # "A_microservices"
      <4>1. SubmitTarget(BuildKey(t, threads[t].op), target)
        BY <2>1, <3>2 DEF ResolveSubmitTarget
      <4>2. rr \in Nat /\ rr < Len(Targets)
        BY TargetsAreNodes DEF Inv
      <4>3. KeyTarget(BuildKey(t, threads[t].op)) \in {Targets[k] : k \in Positions(Targets)}
        BY TargetsAreNodes DEF KeyTarget, OwnerIndex
      <4>4. RoundRobinTarget \in {Targets[k] : k \in Positions(Targets)}
        <5>1. rr + 1 \in Positions(Targets)
          BY <4>2, TargetsAreNodes DEF Positions
        <5> QED BY <5>1 DEF RoundRobinTarget
      <4>5. (rr + 1) % Len(Targets) \in 0..Len(Targets) - 1
        BY <4>2, TargetsAreNodes
      <4> QED BY <3>2, <4>1, <4>3, <4>4, <4>5
              DEF SubmitTarget, NextRoundRobin, SubmitServers, Inv
    <3> QED BY <3>1, <3>2
  <2>3. Routed("SubmitJob", target, NoJob)
    BY <2>2 DEF Routed, JobScopedMethods
  <2> QED BY <1>6, <2>1, <2>2, <2>3
<1>9. CASE ExecuteListJobs(t)
  <2>1. PICK target : Call(t, "ListJobs", target, NoJob, NoKey) /\ UNCHANGED rr
    BY <1>9 DEF ExecuteListJobs
  <2>2. Routed("ListJobs", target, NoJob)
    BY DEF Routed, JobScopedMethods
  <2> QED BY <1>6, <2>1, <2>2 DEF Inv
<1>10. ASSUME NEW method \in JobScopedMethods, ExecuteJobCall(t, method)
       PROVE  rr' \in 0..Len(Targets) - 1 /\ ThreadsInv'
  <2>1. PICK j \in known : Call(t, method, ResolveJobTarget(j), j, NoKey) /\ UNCHANGED rr
    BY <1>10 DEF ExecuteJobCall
  <2>2. Routed(method, ResolveJobTarget(j), j)
    BY <2>1 DEF Routed, JobScopedMethods, Inv
  <2> QED BY <1>6, <2>1, <2>2 DEF Inv
<1>11. CASE Retry(t)
  <2>1. PICK th : th = [threads[t] EXCEPT !.pc = "call", !.attempt = @ + 1, !.sent = clock]
    OBVIOUS
  <2>2. Set(t, th) /\ UNCHANGED rr /\ threads[t].pc = "backoff"
    BY <1>11, <2>1 DEF Retry
  <2>3. DOMAIN th = ThreadFields /\ th.method = threads[t].method
        /\ th.target = threads[t].target /\ th.job = threads[t].job
    BY <1>4, <2>1 DEF ThreadFields
  <2>4. Routed(th.method, th.target, th.job)
    BY <2>2, <2>3 DEF Inv, ThreadsInv
  <2> QED BY <1>1, <1>2, <1>3, <2>2, <2>3, <2>4, ThreadSet DEF Inv
<1> QED BY <1>7, <1>8, <1>9, <1>10, <1>11
-----------------------------------------------------------------------------
LEMMA FinishKeepsThreads ==
  ASSUME Inv, NEW t \in Threads, NEW code, NEW j, NEW terminal, Finish(t, code, j, terminal),
         UNCHANGED <<order, scenario>>, Issued \subseteq Issued'
  PROVE  /\ ThreadsInv'
         /\ \A row \in rows' : row \in rows \/ row.code = code
<1>1. PICK th : th = [NoThread EXCEPT !.pc = "loop", !.op = threads[t].op + 1,
                                      !.due = threads[t].due]
  OBVIOUS
<1>2. Set(t, th)
  BY <1>1 DEF Finish
<1>3. DOMAIN th = ThreadFields /\ th.pc = "loop"
  BY <1>1 DEF NoThread, ThreadFields
<1>4. ThreadsInv'
  BY <1>2, <1>3, ThreadSet DEF Inv
<1>5. Row(t, code, j, terminal).code = code
  BY DEF Row
<1> QED BY <1>4, <1>5 DEF Finish

LEMMA AnswerKeepsInv ==
  ASSUME Inv, NEW t \in Threads, Answer(t)
  PROVE  Inv'
<1>1. PICK reply \in Replies :
        /\ Serve(Request(t), reply)
        /\ known' = IF threads[t].method = "SubmitJob" /\ reply.code = "OK"
                      THEN known \cup {reply.job} ELSE known
        /\ Finish(t, reply.code, reply.job, reply.terminal)
  BY DEF Answer
<1>2. UNCHANGED <<scenario, late>> /\ threads[t].pc = "call"
  BY DEF Answer
<1>3. PICK req : req = Request(t)
  OBVIOUS
<1>4. req.method = threads[t].method /\ Routed(req.method, req.target, req.job)
  BY <1>2, <1>3 DEF Inv, ThreadsInv, Request
<1>5. /\ ServersInv' /\ Issued \subseteq Issued' /\ UNCHANGED <<order, rr>>
      /\ req.method = "SubmitJob" /\ reply.code = "OK" => reply.job \in Issued'
      /\ Agreement => reply.code # "NOT_FOUND"
  BY <1>1, <1>2, <1>3, <1>4, ServeStep
<1>6. known' \subseteq Issued'
  BY <1>1, <1>4, <1>5 DEF Inv
<1>7. /\ ThreadsInv'
      /\ \A row \in rows' : row \in rows \/ row.code = reply.code
  BY <1>1, <1>2, <1>5, FinishKeepsThreads
<1>8. FollowUpsFindTheirJob'
  BY <1>5, <1>7, RowsStay
<1>9. \A r \in late' : Routed(r.method, r.target, r.job)'
  BY <1>2, <1>5, RoutedStays DEF Inv
<1> QED BY <1>5, <1>6, <1>7, <1>8, <1>9 DEF Inv

LEMMA FailKeepsInv ==
  ASSUME Inv, NEW t \in Threads, Fail(t)
  PROVE  Inv'
<1>1. UNCHANGED <<order, rr, created, bound, scenario, known>>
      /\ late' = late \cup {Request(t)} /\ threads[t].pc = "call"
  BY DEF Fail, routing
<1>2. ServersInv' /\ Issued' = Issued
  BY <1>1, ServersStay DEF Inv
<1>3. PICK req : req = Request(t)
  OBVIOUS
<1>4. Routed(req.method, req.target, req.job) /\ late' = late \cup {req}
  BY <1>1, <1>3 DEF Inv, ThreadsInv, Request
<1>5. \A r \in late' : Routed(r.method, r.target, r.job)'
  BY <1>1, <1>2, <1>4, RoutedStays DEF Inv
<1>6. ThreadsInv' /\ \A row \in rows' : row \in rows \/ row.code # "NOT_FOUND"
  <2>1. CASE MayRetry(threads[t]) /\ threads[t].attempt < MaxAttempts
    <3>1. PICK th : th = [threads[t] EXCEPT !.pc = "backoff"]
      OBVIOUS
    <3>2. Set(t, th) /\ UNCHANGED rows
      BY <2>1, <3>1 DEF Fail
    <3>3. DOMAIN th = ThreadFields /\ th.method = threads[t].method
          /\ th.target = threads[t].target /\ th.job = threads[t].job
      BY <3>1 DEF ThreadFields, Inv, ThreadsInv
    <3>4. Routed(th.method, th.target, th.job)
      BY <1>1, <3>3 DEF Inv, ThreadsInv
    <3>5. Routed(th.method, th.target, th.job)'
      BY <1>1, <1>2, <3>4, RoutedStays
    <3> QED BY <1>1, <1>2, <3>2, <3>3, <3>5, ThreadSet DEF Inv
  <2>2. CASE ~ (MayRetry(threads[t]) /\ threads[t].attempt < MaxAttempts)
    <3>1. PICK j, terminal : Finish(t, "UNAVAILABLE", j, terminal)
      BY <2>2, Zenon DEF Fail
    <3>2. /\ ThreadsInv'
          /\ \A row \in rows' : row \in rows \/ row.code = "UNAVAILABLE"
      BY <1>1, <1>2, <3>1, FinishKeepsThreads, Zenon
    <3> QED BY <3>2
  <2> QED BY <2>1, <2>2
<1>7. FollowUpsFindTheirJob'
  BY <1>1, <1>6, RowsStay
<1> QED BY <1>1, <1>2, <1>5, <1>6, <1>7 DEF Inv

LEMMA ServeLateKeepsInv ==
  ASSUME Inv, ServeLate
  PROVE  Inv'
<1>1. PICK req \in late, reply \in Replies :
        Serve(req, reply) /\ late' = late \ {req}
        /\ UNCHANGED <<scenario, threads, known, rows>>
  BY DEF ServeLate
<1>2. ServersInv' /\ Issued \subseteq Issued' /\ UNCHANGED <<order, rr>>
  BY <1>1, ServeStep DEF Inv
<1>3. Agreement' = Agreement
      /\ \A method, target, j : Routed(method, target, j) => Routed(method, target, j)'
  BY <1>1, <1>2, RoutedStays
<1>4. ThreadsInv'
  BY <1>1, <1>3 DEF Inv, ThreadsInv, Routed
<1>5. FollowUpsFindTheirJob'
  BY <1>1, <1>2, RowsStay
<1>6. \A r \in late' : Routed(r.method, r.target, r.job)'
  BY <1>1, <1>3 DEF Inv
<1> QED BY <1>1, <1>2, <1>4, <1>5, <1>6 DEF Inv
-----------------------------------------------------------------------------
LEMMA InitEstablishesInv ==
  ASSUME Init
  PROVE  Inv
<1>1. ServersInv /\ rr \in 0..Len(Targets) - 1
  BY TargetsAssumption DEF Init, RoutingInit, ServersInv
<1>2. ThreadsInv
  <2>1. threads = [t \in Threads |-> NoThread]
    BY DEF Init
  <2> QED BY <2>1 DEF ThreadsInv, NoThread, ThreadFields
<1>3. known = {} /\ rows = {} /\ late = {}
  BY DEF Init
<1> QED BY <1>1, <1>2, <1>3 DEF Inv, FollowUpsFindTheirJob

LEMMA InvStep ==
  ASSUME \A key : KeyHash(key) \in Nat, Inv, [Next]_vars
  PROVE  Inv'
<1>1. CASE RunnerStep \/ PrecheckFails \/ Crash \/ Invoke
  BY <1>1, RunnerKeepsInv
<1>2. CASE ServeLate
  BY <1>2, ServeLateKeepsInv
<1>3. ASSUME NEW t \in Threads, ThreadStep(t)
      PROVE  Inv'
  <2>1. CASE Answer(t)
    BY <2>1, AnswerKeepsInv
  <2>2. CASE Fail(t)
    BY <2>2, FailKeepsInv
  <2>3. CASE ExecuteGetStatus(t) \/ ExecuteGetResult(t) \/ ExecuteCancel(t)
    <3>1. \E method \in JobScopedMethods : ExecuteJobCall(t, method)
      BY <2>3 DEF ExecuteGetStatus, ExecuteGetResult, ExecuteCancel, JobScopedMethods
    <3> QED BY <3>1, LocalStepKeepsInv
  <2>4. CASE Begin(t) \/ EndLoop(t) \/ ExecuteSubmit(t) \/ ExecuteListJobs(t) \/ Retry(t)
    BY <2>4, LocalStepKeepsInv
  <2> QED BY <1>3, <2>1, <2>2, <2>3, <2>4 DEF ThreadStep
<1>4. CASE Tick \/ (\E j \in JobIds : EndJob(j)) \/ UNCHANGED vars
  <2>1. UNCHANGED InvVars
    BY <1>4 DEF Tick, EndJob, vars, routing, traffic, InvVars
  <2> QED BY <2>1, QuietStep
<1> QED BY <1>1, <1>2, <1>3, <1>4 DEF Next

\* Where all nodes order themselves as the client does, no call about a job
\* the run knows is answered NOT_FOUND, whatever is lost, late, crashed or
\* invoked again: design_b_routing.py and node.py agree on the owner of a job.
THEOREM FollowUpsAreRouted ==
  ASSUME \A key : KeyHash(key) \in Nat
  PROVE  Spec => []FollowUpsFindTheirJob
<1>1. Init => Inv
  BY InitEstablishesInv
<1>2. Inv /\ [Next]_vars => Inv'
  BY InvStep
<1>3. Inv => FollowUpsFindTheirJob
  BY DEF Inv
<1> QED BY <1>1, <1>2, <1>3, PTL DEF Spec

\* A node that orders the nodes as the client does keeps only jobs whose calls
\* the client takes to it, whatever the other nodes do.
THEOREM JobsStayWithTheirOwner ==
  ASSUME \A key : KeyHash(key) \in Nat
  PROVE  Spec => []JobsAreAtTheirOwner
<1>1. Init => Inv
  BY InitEstablishesInv
<1>2. Inv /\ [Next]_vars => Inv'
  BY InvStep
<1>3. Inv => JobsAreAtTheirOwner
  BY NamesAssumption DEF Inv, ServersInv, JobsAreAtTheirOwner, Servers
<1> QED BY <1>1, <1>2, <1>3, PTL DEF Spec
-----------------------------------------------------------------------------
(***************************************************************************)
(* Types.  The phase that runs is the stage of the invocation, and without *)
(* one no thread does anything.                                            *)
(***************************************************************************)
PhaseNames == {"warmup", "measure", "cooldown"}

StageNames == Ended \cup {"prepare", "remove"} \cup PhaseNames \cup FileNames

RunnerTypeOK ==
  /\ live \in BOOLEAN /\ overwrite \in BOOLEAN
  /\ stage \in StageNames
  /\ execution \in 1..Executions[live]
  /\ repeat \in 0..Repetitions[live] - 1
  /\ dirs \in [Repeats -> DirStates]
  /\ files \in [Repeats -> [FileNames -> [by : 0..execution, whole : BOOLEAN]]]

PhaseInv ==
  /\ DOMAIN phase = {"name", "run", "recorded", "mix", "next", "stop"}
  /\ phase.stop \in Nat /\ phase.recorded \in BOOLEAN
  /\ phase = NoPhase => \A t \in Threads : threads[t].pc = "done"
  /\ phase # NoPhase =>
       /\ live /\ stage \in PhaseNames /\ Durations[stage] > 0
       /\ phase.name = stage /\ phase.recorded = (stage = "measure")
       /\ phase.run = <<execution, repeat>>

\* A thread at time now.
ThreadType(thread, now) ==
  /\ DOMAIN thread = ThreadFields
  /\ thread.pc \in {"done", "loop", "begin", "call", "backoff"}
  /\ thread.pc \in {"call", "backoff"} => thread.target \in Servers
  /\ thread.attempt \in 0..MaxAttempts
  /\ thread.pc = "backoff" => thread.attempt < MaxAttempts
  /\ thread.sent \in 0..now
  /\ thread.op \in Nat

ServersTypeOK ==
  /\ created \in [Servers -> SUBSET JobIds]
  /\ \A b \in bound : b[1] \in Servers /\ b[2] # NoKey /\ b[3] \in created[b[1]]

TrafficTypeOK ==
  /\ order \in Configurations /\ rr \in 0..Len(Targets) - 1
  /\ ServersTypeOK
  /\ scenario \in [design : Designs, mode : Modes]
  /\ clock \in Nat
  /\ DOMAIN threads = Threads /\ \A t \in Threads : ThreadType(threads[t], clock)
  /\ known \subseteq Issued /\ ended \subseteq Issued
  /\ failures \in 0..MaxFailures
  /\ \A req \in late : req.target \in Servers

TypesInv == TrafficTypeOK /\ PhaseInv /\ RunnerTypeOK

(***************************************************************************)
(* The runner and its files.  A run's five files are written one after     *)
(* the other, where there was no directory, so that those before the       *)
(* current one are whole and of this invocation and those after it absent. *)
(* Files are taken away only by a removal, and the directory whose removal *)
(* was cut off is refused, or removed to the end, before it is used again. *)
(***************************************************************************)
\* The states of a file this invocation writes.
Opened == Written(FALSE)
Whole == Written(TRUE)

\* The run's k-th file while its i-th is written.
FileOK(i, k) ==
  LET file == files[repeat][Files[k]] IN
    /\ k < i => file = Whole
    /\ k = i => file \in {Absent, Opened}
    /\ k > i => file = Absent

RunAgrees(r) ==
  files[r]["metadata.json"].whole =>
    \A f \in FileNames :
      \/ files[r][f] = files[r]["metadata.json"]
      \/ files[r][f] = Absent /\ dirs[r] = "partial"

EmptyWithoutDir(r) == dirs[r] = "absent" => \A f \in FileNames : files[r][f] = Absent

FilesInv ==
  /\ stage \in PhaseNames => dirs[repeat] = "absent"
  /\ stage = "remove" => overwrite /\ dirs[repeat] = "partial"
  /\ stage \in FileNames => dirs[repeat] # "partial"
  /\ \A i \in 1..5 : stage = Files[i] => \A k \in 1..5 : FileOK(i, k)
  /\ \A r \in Repeats : EmptyWithoutDir(r) /\ RunAgrees(r)

LEMMA FileList ==
  /\ FileNames = {"rows.jsonl", "rows.csv", "summary.json", "summary.csv", "metadata.json"}
  /\ \A i \in 1..5 : Files[i] \in FileNames
  /\ \A f \in FileNames : \E i \in 1..5 : f = Files[i]
  /\ \A i, k \in 1..5 : Files[i] = Files[k] => i = k
  /\ Files[1] = "rows.jsonl" /\ Files[5] = "metadata.json"
<1>1. /\ Files[1] = "rows.jsonl" /\ Files[2] = "rows.csv" /\ Files[3] = "summary.json"
      /\ Files[4] = "summary.csv" /\ Files[5] = "metadata.json" /\ Len(Files) = 5
  BY DEF Files
<1>2. 1..5 = {1, 2, 3, 4, 5}
  OBVIOUS
<1> HIDE DEF Files
<1>3. FileNames = {"rows.jsonl", "rows.csv", "summary.json", "summary.csv", "metadata.json"}
  BY <1>1, <1>2 DEF FileNames
<1>4. \A i, k \in 1..5 : Files[i] = Files[k] => i = k
  BY <1>1, <1>2
<1> QED BY <1>1, <1>2, <1>3, <1>4

LEMMA StagesFollow ==
  /\ After("prepare") = "warmup" /\ After("warmup") = "measure"
  /\ After("measure") = "cooldown" /\ After("cooldown") = Files[1]
  /\ \A i \in 1..4 : After(Files[i]) = Files[i + 1]
  /\ After("metadata.json") = IF repeat + 1 < Repetitions[live] THEN "prepare" ELSE "done"
<1>1. /\ Files[1] = "rows.jsonl" /\ Files[2] = "rows.csv" /\ Files[3] = "summary.json"
      /\ Files[4] = "summary.csv" /\ Files[5] = "metadata.json"
      /\ Phases[1] = "warmup"
  BY DEF Files, Phases
<1>2. 1..4 = {1, 2, 3, 4}
  OBVIOUS
<1> HIDE DEF Files, Phases
<1>3. /\ After("prepare") = "warmup" /\ After("warmup") = "measure"
      /\ After("measure") = "cooldown" /\ After("cooldown") = Files[1]
  BY <1>1 DEF After, FirstOf
<1>4. ASSUME NEW i \in 1..4
      PROVE  After(Files[i]) = Files[i + 1]
  <2>1. (CHOOSE k \in 1..4 : Files[i] = Files[k]) = i
    BY <1>1, <1>2
  <2>2. Files[i] \notin {"prepare", "warmup", "measure", "cooldown", "metadata.json"}
    BY <1>1, <1>2
  <2>3. PICK s : s = Files[i]
    OBVIOUS
  <2>4. After(s) = Files[1 + CHOOSE k \in 1..4 : s = Files[k]]
    BY <2>2, <2>3 DEF After
  <2>5. Files[1 + i] = Files[i + 1]
    OBVIOUS
  <2> QED BY <2>1, <2>3, <2>4, <2>5
<1>5. After("metadata.json") = IF repeat + 1 < Repetitions[live] THEN "prepare" ELSE "done"
  BY <1>1, <1>2 DEF After
<1> QED BY <1>3, <1>4, <1>5

\* The longer of the two numbers of repetitions bounds the runs.
LEMMA RunsAreRepeats ==
  \A l \in BOOLEAN : Repetitions[l] \in Nat \ {0} /\ 0..Repetitions[l] - 1 \subseteq Repeats
<1>1. Repetitions[TRUE] \in Nat \ {0} /\ Repetitions[FALSE] \in Nat \ {0}
  BY RunsAssumption
<1>2. PICK a \in Nat, b \in Nat : a = Repetitions[TRUE] /\ b = Repetitions[FALSE]
  BY <1>1
<1>3. PICK m : m = Max({a, b})
  OBVIOUS
<1>4. \E x \in {a, b} : \A y \in {a, b} : x >= y
  <2>1. CASE a >= b
    <3>1. a >= a /\ a >= b
      BY <2>1
    <3> QED BY <3>1
  <2>2. CASE ~(a >= b)
    <3>1. b >= a /\ b >= b
      BY <2>2
    <3> QED BY <3>1
  <2> QED BY <2>1, <2>2
<1>5. m \in {a, b} /\ \A y \in {a, b} : m >= y
  BY <1>3, <1>4 DEF Max
<1>6. Repeats = 0..m - 1
  BY <1>2, <1>3 DEF Repeats
<1>7. ASSUME NEW l \in BOOLEAN, NEW r \in 0..Repetitions[l] - 1
      PROVE  r \in Repeats
  <2>1. Repetitions[l] \in {a, b}
    <3>1. CASE l = TRUE
      BY <1>2, <3>1
    <3>2. CASE l = FALSE
      BY <1>2, <3>2
    <3> QED BY <3>1, <3>2
  <2>2. PICK k : k = Repetitions[l]
    OBVIOUS
  <2>3. m \in Nat /\ k \in Nat /\ m >= k /\ r \in 0..k - 1
    BY <1>1, <1>2, <1>5, <2>1, <2>2
  <2>4. r \in 0..m - 1
    BY <2>3
  <2> QED BY <2>4, <1>6
<1>8. ASSUME NEW l \in BOOLEAN
      PROVE  Repetitions[l] \in Nat \ {0}
  BY <1>1
<1> QED BY <1>7, <1>8
-----------------------------------------------------------------------------
LEMMA ClockMeasures ==
  /\ MaxAttempts \in Nat \ {0} /\ MaxFailures \in Nat
  /\ \A p \in PhaseNames : Durations[p] \in Nat
BY TrafficAssumption, RunsAssumption DEF PhaseNames

\* Thread t takes the state th; the others stay.
LEMMA ThreadMoves ==
  ASSUME DOMAIN threads = Threads, NEW t \in Threads, NEW th, Set(t, th)
  PROVE  /\ DOMAIN threads' = Threads /\ threads'[t] = th
         /\ \A u \in Threads : u # t => threads'[u] = threads[u]
BY DEF Set

\* The states a thread goes to, field by field.
LEMMA FinishedThread ==
  ASSUME TrafficTypeOK, NEW t \in Threads, NEW code, NEW j, NEW terminal,
         Finish(t, code, j, terminal)
  PROVE  /\ DOMAIN threads' = Threads
         /\ \A u \in Threads : u # t => threads'[u] = threads[u]
         /\ DOMAIN threads'[t] = ThreadFields
         /\ threads'[t].pc = "loop" /\ threads'[t].op = threads[t].op + 1
         /\ threads'[t].attempt = 0 /\ threads'[t].sent = 0
<1>1. PICK th : th = [NoThread EXCEPT !.pc = "loop", !.op = threads[t].op + 1,
                                      !.due = threads[t].due]
  OBVIOUS
<1>2. Set(t, th)
  BY <1>1 DEF Finish
<1>3. DOMAIN th = ThreadFields /\ th.pc = "loop" /\ th.op = threads[t].op + 1
      /\ th.attempt = 0 /\ th.sent = 0
  BY <1>1 DEF NoThread, ThreadFields
<1> QED BY <1>2, <1>3, ThreadMoves DEF TrafficTypeOK

LEMMA CallingThread ==
  ASSUME TrafficTypeOK, NEW t \in Threads, NEW method, NEW target, NEW j, NEW key,
         Call(t, method, target, j, key)
  PROVE  /\ DOMAIN threads' = Threads
         /\ \A u \in Threads : u # t => threads'[u] = threads[u]
         /\ DOMAIN threads'[t] = ThreadFields
         /\ threads'[t].pc = "call" /\ threads'[t].op = threads[t].op
         /\ threads'[t].method = method /\ threads'[t].target = target
         /\ threads'[t].job = j /\ threads'[t].key = key
         /\ threads'[t].attempt = 1 /\ threads'[t].sent = clock
<1>1. PICK th : th = [threads[t] EXCEPT !.pc = "call", !.method = method, !.target = target,
                        !.job = j, !.key = key, !.attempt = 1, !.sent = clock]
  OBVIOUS
<1>2. Set(t, th)
  BY <1>1 DEF Call
<1>3. DOMAIN threads[t] = ThreadFields
  BY DEF TrafficTypeOK, ThreadType
<1>4. /\ DOMAIN th = ThreadFields
      /\ th.pc = "call" /\ th.op = threads[t].op
      /\ th.method = method /\ th.target = target
      /\ th.job = j /\ th.key = key
      /\ th.attempt = 1 /\ th.sent = clock
  BY <1>1, <1>3 DEF ThreadFields
<1> QED BY <1>2, <1>4, ThreadMoves DEF TrafficTypeOK

\* What Begin, EndLoop, Retry and a failed attempt that is repeated keep.
SameCall(t) ==
  /\ threads'[t].op = threads[t].op /\ threads'[t].job = threads[t].job
  /\ threads'[t].key = threads[t].key /\ threads'[t].target = threads[t].target

LEMMA BeginningThread ==
  ASSUME TrafficTypeOK, NEW t \in Threads, Begin(t)
  PROVE  /\ DOMAIN threads' = Threads
         /\ \A u \in Threads : u # t => threads'[u] = threads[u]
         /\ DOMAIN threads'[t] = ThreadFields
         /\ threads'[t].pc = "begin" /\ SameCall(t)
         /\ threads'[t].method = Usable(phase.mix[phase.next])
         /\ threads'[t].attempt = threads[t].attempt /\ threads'[t].sent = threads[t].sent
<1>1. PICK th : th = [threads[t] EXCEPT !.pc = "begin", !.due = @ + Interval,
                        !.method = Usable(phase.mix[phase.next])]
  OBVIOUS
<1>2. Set(t, th)
  BY <1>1 DEF Begin
<1>3. DOMAIN threads[t] = ThreadFields
  BY DEF TrafficTypeOK, ThreadType
<1>4. /\ DOMAIN th = ThreadFields /\ th.pc = "begin"
      /\ th.op = threads[t].op /\ th.job = threads[t].job
      /\ th.key = threads[t].key /\ th.target = threads[t].target
      /\ th.method = Usable(phase.mix[phase.next])
      /\ th.attempt = threads[t].attempt /\ th.sent = threads[t].sent
  BY <1>1, <1>3 DEF ThreadFields
<1> QED BY <1>2, <1>4, ThreadMoves DEF TrafficTypeOK, SameCall

LEMMA EndingThread ==
  ASSUME TrafficTypeOK, NEW t \in Threads, EndLoop(t)
  PROVE  /\ DOMAIN threads' = Threads
         /\ \A u \in Threads : u # t => threads'[u] = threads[u]
         /\ DOMAIN threads'[t] = ThreadFields
         /\ threads'[t].pc = "done" /\ SameCall(t)
         /\ threads'[t].attempt = threads[t].attempt /\ threads'[t].sent = threads[t].sent
<1>1. PICK th : th = [threads[t] EXCEPT !.pc = "done"]
  OBVIOUS
<1>2. Set(t, th)
  BY <1>1 DEF EndLoop
<1>3. DOMAIN threads[t] = ThreadFields
  BY DEF TrafficTypeOK, ThreadType
<1>4. /\ DOMAIN th = ThreadFields /\ th.pc = "done"
      /\ th.op = threads[t].op /\ th.job = threads[t].job
      /\ th.key = threads[t].key /\ th.target = threads[t].target
      /\ th.attempt = threads[t].attempt /\ th.sent = threads[t].sent
  BY <1>1, <1>3 DEF ThreadFields
<1> QED BY <1>2, <1>4, ThreadMoves DEF TrafficTypeOK, SameCall

LEMMA RetryingThread ==
  ASSUME TrafficTypeOK, NEW t \in Threads, Retry(t)
  PROVE  /\ DOMAIN threads' = Threads
         /\ \A u \in Threads : u # t => threads'[u] = threads[u]
         /\ DOMAIN threads'[t] = ThreadFields
         /\ threads'[t].pc = "call" /\ SameCall(t)
         /\ threads'[t].method = threads[t].method
         /\ threads'[t].attempt = threads[t].attempt + 1 /\ threads'[t].sent = clock
<1>1. PICK th : th = [threads[t] EXCEPT !.pc = "call", !.attempt = @ + 1, !.sent = clock]
  OBVIOUS
<1>2. Set(t, th)
  BY <1>1 DEF Retry
<1>3. DOMAIN threads[t] = ThreadFields
  BY DEF TrafficTypeOK, ThreadType
<1>4. /\ DOMAIN th = ThreadFields /\ th.pc = "call"
      /\ th.op = threads[t].op /\ th.job = threads[t].job
      /\ th.key = threads[t].key /\ th.target = threads[t].target
      /\ th.method = threads[t].method
      /\ th.attempt = threads[t].attempt + 1 /\ th.sent = clock
  BY <1>1, <1>3 DEF ThreadFields
<1> QED BY <1>2, <1>4, ThreadMoves DEF TrafficTypeOK, SameCall

LEMMA WaitingThread ==
  ASSUME TrafficTypeOK, NEW t \in Threads, Set(t, [threads[t] EXCEPT !.pc = "backoff"])
  PROVE  /\ DOMAIN threads' = Threads
         /\ \A u \in Threads : u # t => threads'[u] = threads[u]
         /\ DOMAIN threads'[t] = ThreadFields
         /\ threads'[t].pc = "backoff" /\ SameCall(t)
         /\ threads'[t].method = threads[t].method
         /\ threads'[t].attempt = threads[t].attempt /\ threads'[t].sent = threads[t].sent
<1>1. PICK th : th = [threads[t] EXCEPT !.pc = "backoff"]
  OBVIOUS
<1>2. Set(t, th)
  BY <1>1
<1>3. DOMAIN threads[t] = ThreadFields
  BY DEF TrafficTypeOK, ThreadType
<1>4. /\ DOMAIN th = ThreadFields /\ th.pc = "backoff"
      /\ th.op = threads[t].op /\ th.job = threads[t].job
      /\ th.key = threads[t].key /\ th.target = threads[t].target
      /\ th.method = threads[t].method
      /\ th.attempt = threads[t].attempt /\ th.sent = threads[t].sent
  BY <1>1, <1>3 DEF ThreadFields
<1> QED BY <1>2, <1>4, ThreadMoves DEF TrafficTypeOK, SameCall
-----------------------------------------------------------------------------
\* What the execution of a request changes, and what its reply says.
LEMMA ServeEffect ==
  ASSUME ServersTypeOK, ended \subseteq Issued, NEW req, req.target \in Servers,
         NEW reply \in Replies, Serve(req, reply)
  PROVE  /\ ServersTypeOK' /\ Issued \subseteq Issued' /\ UNCHANGED <<order, rr>>
         /\ ended \subseteq ended' /\ ended' \subseteq Issued'
         /\ req.method = "SubmitJob" /\ reply.code = "OK" => reply.job \in Issued'
         /\ reply.terminal => reply.job \in ended'
<1>1. CASE ServeSubmit(req, reply)
  <2>1. UNCHANGED <<order, rr, ended>>
    BY <1>1 DEF ServeSubmit
  <2>2. CASE Deduplicate(req.target, req.key, reply.job) /\ reply = Reply("OK", reply.job, FALSE)
    <3>1. UNCHANGED <<created, bound>> /\ <<req.target, req.key, reply.job>> \in bound
      BY <2>2 DEF Deduplicate, BoundTo
    <3>2. ServersTypeOK' /\ Issued' = Issued
      BY <3>1 DEF ServersTypeOK, Issued
    <3>3. reply.job \in Issued'
      BY <3>1, <3>2 DEF ServersTypeOK, Issued
    <3>4. reply.terminal = FALSE
      BY <2>2 DEF Reply
    <3> QED BY <2>1, <3>2, <3>3, <3>4
  <2>3. CASE Create(req.target, req.key, reply.job) /\ reply = Reply("OK", reply.job, FALSE)
    <3>1. reply.job \in JobIds
          /\ created' = [created EXCEPT ![req.target] = @ \cup {reply.job}]
      BY <2>3 DEF Create
    <3>2. bound' = bound
          \/ (bound' = bound \cup {<<req.target, req.key, reply.job>>} /\ req.key # NoKey)
      BY <2>3 DEF Create
    <3>3. /\ created' \in [Servers -> SUBSET JobIds]
          /\ \A n \in Servers : created[n] \subseteq created'[n]
          /\ created'[req.target] = created[req.target] \cup {reply.job}
      BY <3>1 DEF ServersTypeOK
    <3>4. ServersTypeOK'
      BY <3>2, <3>3 DEF ServersTypeOK
    <3>5. Issued \subseteq Issued' /\ reply.job \in Issued'
      BY <3>3 DEF Issued
    <3>6. reply.terminal = FALSE
      BY <2>3 DEF Reply
    <3> QED BY <2>1, <3>4, <3>5, <3>6
  <2>4. CASE DrawFails(req.target, req.key) /\ reply = Reply("INTERNAL", NoJob, FALSE)
    <3>1. UNCHANGED <<created, bound>>
      BY <2>4 DEF DrawFails
    <3>2. ServersTypeOK' /\ Issued' = Issued
      BY <3>1 DEF ServersTypeOK, Issued
    <3>3. reply.code = "INTERNAL" /\ reply.terminal = FALSE
      BY <2>4 DEF Reply
    <3> QED BY <2>1, <3>2, <3>3
  <2> QED BY <1>1, <2>2, <2>3, <2>4 DEF ServeSubmit
<1>2. CASE ServeJobCall(req, reply)
  <2>1. UNCHANGED <<order, rr, created, bound>> /\ req.method # "SubmitJob"
    BY <1>2 DEF ServeJobCall, routing, JobScopedMethods
  <2>2. ServersTypeOK' /\ Issued' = Issued
    BY <2>1 DEF ServersTypeOK, Issued
  <2>3. CASE req.job \in created[req.target]
    <3>1. ended' = ended \/ ended' = ended \cup {req.job}
      BY <1>2, <2>3 DEF ServeJobCall
    <3>2. req.job \in Issued
      BY <2>3 DEF Issued
    <3>3. reply = Reply("OK", req.job, req.job \in ended')
      BY <1>2, <2>3 DEF ServeJobCall
    <3>4. reply.terminal = (req.job \in ended') /\ reply.job = req.job
      BY <3>3, Zenon DEF Reply
    <3> QED BY <2>1, <2>2, <3>1, <3>2, <3>4
  <2>4. CASE req.job \notin created[req.target]
    <3>1. ended' = ended /\ reply = Reply("NOT_FOUND", req.job, FALSE)
      BY <1>2, <2>4 DEF ServeJobCall
    <3>2. reply.terminal = FALSE
      BY <3>1 DEF Reply
    <3> QED BY <2>1, <2>2, <3>1, <3>2
  <2> QED BY <2>3, <2>4
<1>3. CASE ServeList(req, reply)
  <2>1. UNCHANGED <<order, rr, created, bound, ended>> /\ req.method # "SubmitJob"
        /\ reply = Reply("OK", NoJob, FALSE)
    BY <1>3 DEF ServeList, routing
  <2>2. ServersTypeOK' /\ Issued' = Issued
    BY <2>1 DEF ServersTypeOK, Issued
  <2>3. reply.terminal = FALSE
    BY <2>1 DEF Reply
  <2> QED BY <2>1, <2>2, <2>3
<1> QED BY <1>1, <1>2, <1>3 DEF Serve

LEMMA RequestParts ==
  ASSUME NEW t, NEW req, req = Request(t)
  PROVE  /\ req.method = threads[t].method /\ req.target = threads[t].target
         /\ req.job = threads[t].job /\ req.key = threads[t].key /\ req.of = Operation(t)
BY DEF Request
-----------------------------------------------------------------------------
LEMMA OneThreadMoved ==
  ASSUME TrafficTypeOK, NEW t \in Threads, DOMAIN threads' = Threads,
         \A u \in Threads : u # t => threads'[u] = threads[u],
         ThreadType(threads'[t], clock), UNCHANGED clock
  PROVE  \A u \in Threads : ThreadType(threads'[u], clock')
BY DEF TrafficTypeOK

\* A thread's step leaves the phase running.
LEMMA PhaseGoesOn ==
  ASSUME PhaseInv, NEW t \in Threads, threads[t].pc # "done",
         UNCHANGED <<stage, live, execution, repeat>>, phase' = phase \/ TakeMethod
  PROVE  /\ PhaseInv' /\ phase # NoPhase /\ phase' # NoPhase
         /\ phase'.stop = phase.stop /\ phase'.run = phase.run
<1>1. phase # NoPhase /\ phase.name # "none"
  BY DEF PhaseInv, PhaseNames
<1>2. /\ DOMAIN phase' = DOMAIN phase /\ phase'.name = phase.name /\ phase'.run = phase.run
      /\ phase'.recorded = phase.recorded /\ phase'.stop = phase.stop
  <2>1. CASE phase' = phase
    BY <2>1
  <2>2. CASE TakeMethod
    <3>1. PICK n : phase' = [phase EXCEPT !.next = n]
      BY <2>2 DEF TakeMethod
    <3> QED BY <3>1 DEF PhaseInv
  <2> QED BY <2>1, <2>2
<1>3. phase' # NoPhase
  BY <1>1, <1>2 DEF NoPhase
<1> QED BY <1>1, <1>2, <1>3 DEF PhaseInv

LEMMA ServersStayTyped ==
  ASSUME ServersTypeOK, UNCHANGED <<created, bound>>
  PROVE  ServersTypeOK' /\ Issued' = Issued
BY DEF ServersTypeOK, Issued

LEMMA RunnerStaysTyped ==
  ASSUME RunnerTypeOK, UNCHANGED runner
  PROVE  RunnerTypeOK'
BY DEF RunnerTypeOK, runner

\* What a thread does without a server.
LocalStep(t) ==
  \/ Begin(t) \/ EndLoop(t) \/ ExecuteSubmit(t) \/ ExecuteListJobs(t) \/ Retry(t)
  \/ \E method \in JobScopedMethods : ExecuteJobCall(t, method)

LEMMA ThreadSteps ==
  ASSUME NEW t \in Threads
  PROVE  ThreadStep(t) <=> LocalStep(t) \/ Answer(t) \/ Fail(t)
BY DEF ThreadStep, LocalStep, ExecuteGetStatus, ExecuteGetResult, ExecuteCancel,
       JobScopedMethods

LEMMA LocalStepChanges ==
  ASSUME NEW t \in Threads, LocalStep(t)
  PROVE  /\ UNCHANGED <<order, created, bound, scenario, clock, known, rows, failures, late,
                        ended, author>>
         /\ threads[t].pc # "done"
         /\ phase' = phase \/ TakeMethod
         /\ ~ Begin(t) => UNCHANGED <<phase, begun>>
BY DEF LocalStep, Begin, EndLoop, ExecuteSubmit, Submit, ExecuteListJobs, Retry,
       ExecuteJobCall, CallUnchanged, routing

LEMMA LocalStepKeepsTypes ==
  ASSUME TypesInv, NEW t \in Threads, LocalStep(t), UNCHANGED runner
  PROVE  TypesInv'
<1>1. /\ UNCHANGED <<order, created, bound, scenario, clock, known, failures, late, ended>>
      /\ threads[t].pc # "done" /\ (phase' = phase \/ TakeMethod)
  BY LocalStepChanges
<1>2. TrafficTypeOK /\ ThreadType(threads[t], clock) /\ clock \in Nat
  BY DEF TypesInv, TrafficTypeOK
<1>3. MaxAttempts \in Nat \ {0}
  BY ClockMeasures
<1>4. SUFFICES /\ rr' \in 0..Len(Targets) - 1
               /\ DOMAIN threads' = Threads
               /\ \A u \in Threads : u # t => threads'[u] = threads[u]
               /\ ThreadType(threads'[t], clock)
  <2>1. PhaseInv' /\ RunnerTypeOK' /\ ServersTypeOK' /\ Issued' = Issued
    BY <1>1, PhaseGoesOn, RunnerStaysTyped, ServersStayTyped
       DEF TypesInv, TrafficTypeOK, runner
  <2>2. \A u \in Threads : ThreadType(threads'[u], clock')
    BY <1>1, <1>2, <1>4, OneThreadMoved
  <2>3. TrafficTypeOK'
    BY <1>1, <1>2, <1>4, <2>1, <2>2 DEF TrafficTypeOK
  <2> QED BY <2>1, <2>3 DEF TypesInv
<1>5. rr \in 0..Len(Targets) - 1
  BY <1>2 DEF TrafficTypeOK
<1>6. CASE Begin(t)
  <2>1. rr' = rr
    BY <1>6 DEF Begin, routing
  <2>2. /\ DOMAIN threads' = Threads
        /\ \A u \in Threads : u # t => threads'[u] = threads[u]
        /\ DOMAIN threads'[t] = ThreadFields
        /\ threads'[t].pc = "begin" /\ threads'[t].op = threads[t].op
        /\ threads'[t].attempt = threads[t].attempt /\ threads'[t].sent = threads[t].sent
    BY <1>2, <1>6, BeginningThread DEF SameCall
  <2> QED BY <1>2, <1>5, <2>1, <2>2 DEF ThreadType
<1>7. CASE EndLoop(t)
  <2>1. rr' = rr
    BY <1>7 DEF EndLoop, routing
  <2>2. /\ DOMAIN threads' = Threads
        /\ \A u \in Threads : u # t => threads'[u] = threads[u]
        /\ DOMAIN threads'[t] = ThreadFields
        /\ threads'[t].pc = "done" /\ threads'[t].op = threads[t].op
        /\ threads'[t].attempt = threads[t].attempt /\ threads'[t].sent = threads[t].sent
    BY <1>2, <1>7, EndingThread DEF SameCall
  <2> QED BY <1>2, <1>5, <2>1, <2>2 DEF ThreadType
<1>8. CASE Retry(t)
  <2>1. threads[t].attempt + 1 \in 0..MaxAttempts /\ threads[t].target \in Servers
    BY <1>2, <1>3, <1>8 DEF ThreadType, Retry
  <2>2. rr' = rr
    BY <1>8 DEF Retry
  <2>3. /\ DOMAIN threads' = Threads
        /\ \A u \in Threads : u # t => threads'[u] = threads[u]
        /\ DOMAIN threads'[t] = ThreadFields
        /\ threads'[t].pc = "call" /\ threads'[t].op = threads[t].op
        /\ threads'[t].target = threads[t].target
        /\ threads'[t].attempt = threads[t].attempt + 1 /\ threads'[t].sent = clock
    BY <1>2, <1>8, RetryingThread DEF SameCall
  <2> QED BY <1>2, <1>5, <2>1, <2>2, <2>3 DEF ThreadType
<1>9. ASSUME NEW method, NEW target \in Servers, NEW j, NEW key, Call(t, method, target, j, key)
      PROVE  /\ DOMAIN threads' = Threads
             /\ \A u \in Threads : u # t => threads'[u] = threads[u]
             /\ ThreadType(threads'[t], clock)
  BY <1>2, <1>3, <1>9, CallingThread DEF ThreadType
<1>10. CASE ExecuteSubmit(t)
  <2>1. PICK target \in Servers :
          /\ ResolveSubmitTarget(BuildKey(t, threads[t].op), target)
          /\ Call(t, "SubmitJob", target, NoJob, BuildKey(t, threads[t].op))
    BY <1>10 DEF ExecuteSubmit, Submit
  <2>2. rr' = rr \/ rr' = (rr + 1) % Len(Targets)
    BY <2>1 DEF ResolveSubmitTarget, SubmitTarget, NextRoundRobin
  <2>3. rr' \in 0..Len(Targets) - 1
    BY <1>5, <2>2, TargetsAreNodes
  <2> QED BY <1>9, <2>1, <2>3
<1>11. CASE ExecuteListJobs(t)
  <2>1. PICK target : /\ Call(t, "ListJobs", target, NoJob, NoKey) /\ UNCHANGED rr
                      /\ target \in {Gateway, Targets[1]}
    BY <1>11 DEF ExecuteListJobs
  <2>2. Targets[1] \in Nodes
    BY TargetsAreNodes DEF Positions
  <2> QED BY <1>5, <1>9, <2>1, <2>2 DEF Servers
<1>12. ASSUME NEW method \in JobScopedMethods, ExecuteJobCall(t, method)
       PROVE  rr' \in 0..Len(Targets) - 1 /\ DOMAIN threads' = Threads
              /\ (\A u \in Threads : u # t => threads'[u] = threads[u])
              /\ ThreadType(threads'[t], clock)
  <2>1. PICK j \in known : Call(t, method, ResolveJobTarget(j), j, NoKey) /\ UNCHANGED rr
    BY <1>12 DEF ExecuteJobCall
  <2>2. j \in JobIds
    BY <1>2, <2>1 DEF TrafficTypeOK, Issued, ServersTypeOK
  <2>3. ResolveJobTarget(j) \in Servers
    <3>1. JobHash(j) \in Nat
      BY <2>2, HashAssumption
    <3>2. JobTarget(j) \in Nodes
      BY <3>1, TargetsAreNodes DEF JobTarget, OwnerIndex
    <3> QED BY <3>2 DEF ResolveJobTarget, Servers
  <2> QED BY <1>5, <1>9, <2>1, <2>3
<1> QED BY <1>6, <1>7, <1>8, <1>10, <1>11, <1>12 DEF LocalStep

\* A thread's operation is over.
LEMMA FinishKeepsTypes ==
  ASSUME TypesInv, NEW t \in Threads, NEW code, NEW j, NEW terminal,
         Finish(t, code, j, terminal), UNCHANGED clock
  PROVE  DOMAIN threads' = Threads /\ \A u \in Threads : ThreadType(threads'[u], clock')
<1>1. TrafficTypeOK /\ ThreadType(threads[t], clock) /\ clock \in Nat
  BY DEF TypesInv, TrafficTypeOK
<1>2. /\ DOMAIN threads' = Threads
      /\ \A u \in Threads : u # t => threads'[u] = threads[u]
      /\ DOMAIN threads'[t] = ThreadFields
      /\ threads'[t].pc = "loop" /\ threads'[t].op = threads[t].op + 1
      /\ threads'[t].attempt = 0 /\ threads'[t].sent = 0
  BY <1>1, FinishedThread
<1>3. ThreadType(threads'[t], clock)
  BY <1>1, <1>2, ClockMeasures DEF ThreadType
<1> QED BY <1>1, <1>2, <1>3, OneThreadMoved

LEMMA AnswerKeepsTypes ==
  ASSUME TypesInv, NEW t \in Threads, Answer(t), UNCHANGED runner
  PROVE  TypesInv'
<1>1. PICK reply \in Replies :
        /\ Serve(Request(t), reply)
        /\ known' = IF threads[t].method = "SubmitJob" /\ reply.code = "OK"
                      THEN known \cup {reply.job} ELSE known
        /\ Finish(t, reply.code, reply.job, reply.terminal)
  BY DEF Answer
<1>2. UNCHANGED <<scenario, clock, phase, failures, late>> /\ threads[t].pc = "call"
  BY DEF Answer
<1>3. PICK req : req = Request(t)
  OBVIOUS
<1>4. req.method = threads[t].method /\ req.target \in Servers
  BY <1>2, <1>3, RequestParts DEF TypesInv, TrafficTypeOK, ThreadType
<1>5. ServersTypeOK /\ ended \subseteq Issued /\ known \subseteq Issued
  BY DEF TypesInv, TrafficTypeOK
<1>6. /\ ServersTypeOK' /\ Issued \subseteq Issued' /\ UNCHANGED <<order, rr>>
      /\ ended' \subseteq Issued'
      /\ req.method = "SubmitJob" /\ reply.code = "OK" => reply.job \in Issued'
  BY <1>1, <1>3, <1>4, <1>5, ServeEffect
<1>7. known' \subseteq Issued'
  BY <1>1, <1>4, <1>5, <1>6
<1>8. DOMAIN threads' = Threads /\ \A u \in Threads : ThreadType(threads'[u], clock')
  BY <1>1, <1>2, FinishKeepsTypes
<1>9. PhaseInv' /\ RunnerTypeOK'
  BY <1>2, PhaseGoesOn, RunnerStaysTyped DEF TypesInv, runner
<1>10. TrafficTypeOK'
  BY <1>2, <1>6, <1>7, <1>8 DEF TypesInv, TrafficTypeOK
<1> QED BY <1>9, <1>10 DEF TypesInv

LEMMA FailKeepsTypes ==
  ASSUME TypesInv, NEW t \in Threads, Fail(t), UNCHANGED runner
  PROVE  TypesInv'
<1>1. /\ UNCHANGED <<order, rr, created, bound, scenario, clock, phase, known, ended>>
      /\ late' = late \cup {Request(t)} /\ threads[t].pc = "call"
      /\ failures < MaxFailures /\ failures' = failures + 1
  BY DEF Fail, routing
<1>2. ServersTypeOK' /\ Issued' = Issued
  BY <1>1, ServersStayTyped DEF TypesInv, TrafficTypeOK
<1>3. PhaseInv' /\ RunnerTypeOK'
  BY <1>1, PhaseGoesOn, RunnerStaysTyped DEF TypesInv, runner
<1>4. PICK req : req = Request(t)
  OBVIOUS
<1>5. \A r \in late' : r.target \in Servers
  <2>1. req.target \in Servers
    BY <1>1, <1>4, RequestParts DEF TypesInv, TrafficTypeOK, ThreadType
  <2> QED BY <1>1, <1>4, <2>1 DEF TypesInv, TrafficTypeOK
<1>6. DOMAIN threads' = Threads /\ \A u \in Threads : ThreadType(threads'[u], clock')
  <2>1. CASE MayRetry(threads[t]) /\ threads[t].attempt < MaxAttempts
    <3>1. TrafficTypeOK /\ ThreadType(threads[t], clock)
      BY DEF TypesInv, TrafficTypeOK
    <3>2. Set(t, [threads[t] EXCEPT !.pc = "backoff"])
      BY <2>1 DEF Fail
    <3>3. /\ DOMAIN threads' = Threads
          /\ \A u \in Threads : u # t => threads'[u] = threads[u]
          /\ DOMAIN threads'[t] = ThreadFields
          /\ threads'[t].pc = "backoff" /\ threads'[t].op = threads[t].op
          /\ threads'[t].target = threads[t].target
          /\ threads'[t].attempt = threads[t].attempt /\ threads'[t].sent = threads[t].sent
      BY <3>1, <3>2, WaitingThread DEF SameCall
    <3>4. ThreadType(threads'[t], clock)
      BY <1>1, <2>1, <3>1, <3>3 DEF ThreadType
    <3> QED BY <1>1, <3>1, <3>3, <3>4, OneThreadMoved
  <2>2. CASE ~ (MayRetry(threads[t]) /\ threads[t].attempt < MaxAttempts)
    <3>1. Finish(t, "UNAVAILABLE", threads[t].job, FALSE)
      BY <2>2 DEF Fail
    <3> QED BY <1>1, <3>1, FinishKeepsTypes
  <2> QED BY <2>1, <2>2
<1>7. failures' \in 0..MaxFailures
  BY <1>1, ClockMeasures DEF TypesInv, TrafficTypeOK
<1>8. TrafficTypeOK'
  BY <1>1, <1>2, <1>5, <1>6, <1>7 DEF TypesInv, TrafficTypeOK
<1> QED BY <1>3, <1>8 DEF TypesInv

LEMMA TimePasses ==
  ASSUME TrafficTypeOK, clock' = clock + 1,
         UNCHANGED <<order, rr, created, bound, scenario, threads, known, failures, late, ended>>
  PROVE  TrafficTypeOK'
<1>1. ServersTypeOK' /\ Issued' = Issued
  BY ServersStayTyped DEF TrafficTypeOK
<1>2. clock \in Nat
  BY DEF TrafficTypeOK
<1>3. ASSUME NEW t \in Threads
      PROVE  ThreadType(threads[t], clock')
  <2>1. ThreadType(threads[t], clock)
    BY DEF TrafficTypeOK
  <2>2. threads[t].sent \in 0..clock + 1
    BY <1>2, <2>1 DEF ThreadType
  <2> QED BY <2>1, <2>2 DEF ThreadType
<1>4. clock' \in Nat
  BY <1>2
<1> QED BY <1>1, <1>3, <1>4 DEF TrafficTypeOK

LEMMA ServerStepKeepsTypes ==
  ASSUME TypesInv, UNCHANGED runner, ServeLate \/ (\E j \in JobIds : EndJob(j)) \/ Tick
  PROVE  TypesInv'
<1>1. UNCHANGED <<scenario, phase, threads, known, failures>>
  BY DEF ServeLate, EndJob, Tick
<1>2. PhaseInv' /\ RunnerTypeOK'
  BY <1>1, RunnerStaysTyped DEF TypesInv, PhaseInv, runner
<1>3. CASE ServeLate
  <2>1. PICK req \in late, reply \in Replies : Serve(req, reply) /\ late' = late \ {req}
    BY <1>3 DEF ServeLate
  <2>2. ServersTypeOK /\ ended \subseteq Issued /\ req.target \in Servers
    BY DEF TypesInv, TrafficTypeOK
  <2>3. /\ ServersTypeOK' /\ Issued \subseteq Issued' /\ UNCHANGED <<order, rr>>
        /\ ended' \subseteq Issued'
    BY <2>1, <2>2, ServeEffect
  <2>4. clock' = clock
    BY <1>3 DEF ServeLate
  <2>5. TrafficTypeOK'
    BY <1>1, <2>1, <2>3, <2>4 DEF TypesInv, TrafficTypeOK
  <2> QED BY <1>2, <2>5 DEF TypesInv
<1>4. ASSUME NEW j \in JobIds, EndJob(j)
      PROVE  TypesInv'
  <2>1. UNCHANGED <<order, rr, created, bound, late, clock>> /\ ended' \subseteq Issued
    BY <1>4 DEF EndJob, routing, TypesInv, TrafficTypeOK
  <2>2. ServersTypeOK' /\ Issued' = Issued
    BY <2>1, ServersStayTyped DEF TypesInv, TrafficTypeOK
  <2>3. TrafficTypeOK'
    BY <1>1, <2>1, <2>2 DEF TypesInv, TrafficTypeOK
  <2> QED BY <1>2, <2>3 DEF TypesInv
<1>5. CASE Tick
  <2>1. UNCHANGED <<order, rr, created, bound, late, ended>> /\ clock' = clock + 1
    BY <1>5 DEF Tick, routing
  <2>2. TrafficTypeOK'
    BY <1>1, <2>1, TimePasses DEF TypesInv
  <2> QED BY <1>2, <2>2 DEF TypesInv
<1> QED BY <1>3, <1>4, <1>5
-----------------------------------------------------------------------------
(***************************************************************************)
(* The runner's steps keep the types.                                      *)
(***************************************************************************)
LEMMA StagesAreNamed ==
  /\ \A s \in PhaseNames \cup {"prepare"} : After(s) \in StageNames
  /\ \A s \in FileNames : After(s) \in StageNames
                          /\ (After(s) = "prepare" => repeat + 1 < Repetitions[live])
  /\ PhaseNames \cap FileNames = {} /\ PhaseNames \cap Ended = {}
  /\ "prepare" \notin PhaseNames \cup FileNames \cup Ended
  /\ "remove" \notin PhaseNames \cup FileNames \cup Ended
  /\ FileNames \cap Ended = {}
  /\ PhaseNames = {Phases[i] : i \in 1..3}
<1>1. \A s \in PhaseNames \cup {"prepare"} : After(s) \in StageNames
  BY StagesFollow, FileList DEF PhaseNames, StageNames
<1>2. ASSUME NEW i \in 1..5
      PROVE  After(Files[i]) \in StageNames
             /\ (After(Files[i]) = "prepare" => repeat + 1 < Repetitions[live])
  <2>1. CASE i \in 1..4
    <3>1. i + 1 \in 1..5
      BY <2>1
    <3>2. After(Files[i]) = Files[i + 1] /\ Files[i + 1] \in FileNames
      BY <2>1, <3>1, StagesFollow, FileList
    <3>3. "prepare" \notin FileNames
      BY FileList
    <3> QED BY <3>2, <3>3 DEF StageNames
  <2>2. CASE i = 5
    BY <2>2, StagesFollow, FileList DEF StageNames, Ended
  <2> QED BY <2>1, <2>2
<1>3. \A s \in FileNames : After(s) \in StageNames
                           /\ (After(s) = "prepare" => repeat + 1 < Repetitions[live])
  BY <1>2, FileList
<1>4. PhaseNames = {Phases[i] : i \in 1..3}
  <2>1. Phases[1] = "warmup" /\ Phases[2] = "measure" /\ Phases[3] = "cooldown"
    BY DEF Phases
  <2>2. 1..3 = {1, 2, 3}
    OBVIOUS
  <2> HIDE DEF Phases
  <2> QED BY <2>1, <2>2 DEF PhaseNames
<1> QED BY <1>1, <1>3, <1>4, FileList DEF PhaseNames, Ended

LEMMA ThreadsAtRest ==
  ASSUME NEW now \in Nat
  PROVE  /\ ThreadType(NoThread, now) /\ NoThread.pc = "done"
         /\ ThreadType([NoThread EXCEPT !.pc = "loop", !.due = clock], now)
<1>1. DOMAIN NoThread = ThreadFields /\ NoThread.pc = "done" /\ NoThread.attempt = 0
      /\ NoThread.sent = 0 /\ NoThread.op = 0
  BY DEF NoThread, ThreadFields
<1>2. PICK th : th = [NoThread EXCEPT !.pc = "loop", !.due = clock]
  OBVIOUS
<1>3. DOMAIN th = ThreadFields /\ th.pc = "loop" /\ th.attempt = 0 /\ th.sent = 0 /\ th.op = 0
  BY <1>1, <1>2 DEF ThreadFields
<1> QED BY <1>1, <1>2, <1>3, ClockMeasures DEF ThreadType

LEMMA RestIsAPhase ==
  ASSUME phase' = NoPhase, \A t \in Threads : threads'[t].pc = "done"
  PROVE  PhaseInv'
BY DEF PhaseInv, NoPhase

\* A step of the runner is typed if its threads and its own variables are.
LEMMA TrafficStaysTyped ==
  ASSUME TrafficTypeOK, UNCHANGED <<order, created, bound, scenario, clock, failures, ended>>,
         rr' \in 0..Len(Targets) - 1, known' = known \/ known' = {},
         DOMAIN threads' = Threads, \A t \in Threads : ThreadType(threads'[t], clock),
         \A req \in late' : req.target \in Servers
  PROVE  TrafficTypeOK'
<1>1. ServersTypeOK' /\ Issued' = Issued
  BY ServersStayTyped DEF TrafficTypeOK
<1> QED BY <1>1 DEF TrafficTypeOK

LEMMA EmptyDirIsTyped ==
  ASSUME RunnerTypeOK
  PROVE  /\ repeat \in Repeats /\ Absent \in [by : 0..execution, whole : BOOLEAN]
         /\ \A w \in BOOLEAN : Written(w) \in [by : 0..execution, whole : BOOLEAN]
<1>1. live \in BOOLEAN
  BY DEF RunnerTypeOK
<1>2. execution \in Nat \ {0}
  <2>1. Executions[live] \in Nat \ {0}
    BY <1>1, RunsAssumption
  <2> QED BY <2>1 DEF RunnerTypeOK
<1>3. 0 \in 0..execution /\ execution \in 0..execution
  BY <1>2
<1> QED BY <1>1, <1>3, RunsAreRepeats DEF RunnerTypeOK, Absent, Written

LEMMA PrepareKeepsTypes ==
  ASSUME TypesInv, PrepareRunDir \/ PrecheckFails
  PROVE  TypesInv'
<1>1. stage = "prepare" /\ phase = NoPhase
  BY StagesAreNamed DEF PrepareRunDir, PrepareUnchanged, PrecheckFails, TypesInv, PhaseInv
<1>2. UNCHANGED <<order, created, bound, scenario, clock, phase, threads, failures, late,
                  ended, live, overwrite, execution, repeat, files>>
  BY DEF PrepareRunDir, PrepareUnchanged, PrecheckFails, routing, traffic
<1>3. rr' \in 0..Len(Targets) - 1 /\ (known' = known \/ known' = {})
  BY TargetsAssumption DEF PrepareRunDir, PrecheckFails, FreshRun, TypesInv, TrafficTypeOK,
                           routing, traffic
<1>4. TrafficTypeOK'
  BY <1>2, <1>3, TrafficStaysTyped DEF TypesInv, TrafficTypeOK
<1>5. PhaseInv'
  BY <1>1, <1>2 DEF TypesInv, PhaseInv
<1>6. stage' \in StageNames
  BY StagesAreNamed DEF PrepareRunDir, PrepareUnchanged, PrecheckFails, StageNames, Ended
<1>7. dirs' \in [Repeats -> DirStates]
  <2>1. dirs' = dirs \/ dirs' = [dirs EXCEPT ![repeat] = "partial"]
    BY DEF PrepareRunDir, PrecheckFails
  <2> QED BY <2>1 DEF TypesInv, RunnerTypeOK, DirStates
<1>8. RunnerTypeOK'
  BY <1>2, <1>6, <1>7 DEF TypesInv, RunnerTypeOK
<1> QED BY <1>4, <1>5, <1>8 DEF TypesInv

\* A directory is removed or made.
LEMMA DirStepKeepsTypes ==
  ASSUME TypesInv, DirStep
  PROVE  TypesInv'
<1>1. phase = NoPhase
  BY DirSteps, StagesAreNamed DEF TypesInv, PhaseInv
<1>2. PhaseInv'
  BY <1>1, DirSteps DEF TypesInv, PhaseInv
<1>3. TrafficTypeOK'
  BY DirSteps, TrafficStaysTyped DEF TypesInv, TrafficTypeOK
<1>4. stage' \in StageNames
  BY DirSteps, StagesAreNamed DEF TypesInv, RunnerTypeOK
<1>5. dirs' \in [Repeats -> DirStates]
  <2>1. dirs' = dirs \/ \E d \in DirStates : dirs' = [dirs EXCEPT ![repeat] = d]
    BY DEF DirStep, RemoveFile, RemoveRunDir, MakeRunDir, DirStates
  <2> QED BY <2>1 DEF TypesInv, RunnerTypeOK
<1>6. files' \in [Repeats -> [FileNames -> [by : 0..execution, whole : BOOLEAN]]]
  <2>1. PICK T : T = [by : 0..execution, whole : BOOLEAN]
    OBVIOUS
  <2>2. PICK x \in T : x = Absent
    BY <2>1, EmptyDirIsTyped DEF TypesInv
  <2>3. files' = files \/ \E f \in FileNames : files' = [files EXCEPT ![repeat][f] = x]
    BY <2>2 DEF DirStep, RemoveFile, RemoveRunDir, MakeRunDir
  <2>4. files \in [Repeats -> [FileNames -> T]]
    BY <2>1 DEF TypesInv, RunnerTypeOK
  <2>5. files' \in [Repeats -> [FileNames -> T]]
    BY <2>3, <2>4
  <2> QED BY <2>1, <2>5
<1>7. RunnerTypeOK'
  BY <1>4, <1>5, <1>6, DirSteps DEF TypesInv, RunnerTypeOK
<1> QED BY <1>2, <1>3, <1>7 DEF TypesInv

LEMMA PhaseStepKeepsTypes ==
  ASSUME TypesInv, BeginPhase \/ EndPhase \/ SkipPhase
  PROVE  TypesInv'
<1>1. UNCHANGED <<order, rr, created, bound, scenario, clock, known, failures, late, ended,
                  live, overwrite, execution, repeat, dirs, files>>
  BY DEF BeginPhase, EndPhase, SkipPhase, PhaseUnchanged, routing
<1>2. clock \in Nat /\ stage \in StageNames /\ live \in BOOLEAN
  BY DEF TypesInv, TrafficTypeOK, RunnerTypeOK
<1>3. SUFFICES /\ DOMAIN threads' = Threads
               /\ \A t \in Threads : ThreadType(threads'[t], clock)
               /\ PhaseInv' /\ stage' \in StageNames
  <2>1. TrafficTypeOK'
    BY <1>1, <1>3, TrafficStaysTyped DEF TypesInv, TrafficTypeOK
  <2>2. RunnerTypeOK'
    BY <1>1, <1>3 DEF TypesInv, RunnerTypeOK
  <2> QED BY <1>3, <2>1, <2>2 DEF TypesInv
<1>4. CASE BeginPhase
  <2>1. stage \in PhaseNames /\ live /\ Durations[stage] > 0 /\ stage' = stage
    BY <1>4, StagesAreNamed DEF BeginPhase, Busy
  <2>2. PICK th : th = [NoThread EXCEPT !.pc = "loop", !.due = clock]
    OBVIOUS
  <2>3. threads' = [t \in Threads |-> th] /\ ThreadType(th, clock)
    BY <1>2, <1>4, <2>2, ThreadsAtRest DEF BeginPhase
  <2>4. PICK mix :
          phase' = [name |-> stage, run |-> <<execution, repeat>>,
                    recorded |-> stage = "measure", mix |-> mix, next |-> 1,
                    stop |-> clock + Durations[stage]]
    BY <1>4, Zenon DEF BeginPhase
  <2>5. clock + Durations[stage] \in Nat
    BY <1>2, <2>1, ClockMeasures
  <2>6. /\ DOMAIN phase' = {"name", "run", "recorded", "mix", "next", "stop"}
        /\ phase'.stop = clock + Durations[stage] /\ phase'.name = stage
        /\ phase'.run = <<execution, repeat>>
    BY <2>4
  <2>7. phase'.recorded = (stage = "measure")
    BY <2>4, Zenon
  <2>8. phase' # NoPhase
    BY <2>1, <2>6 DEF NoPhase, PhaseNames
  <2>9. PhaseInv'
    BY <1>1, <2>1, <2>5, <2>6, <2>7, <2>8 DEF PhaseInv
  <2> QED BY <1>2, <2>1, <2>3, <2>9
<1>5. CASE EndPhase
  <2>1. phase' = NoPhase /\ threads' = [t \in Threads |-> NoThread] /\ stage' = After(stage)
        /\ stage \in PhaseNames
    BY <1>5 DEF EndPhase, TypesInv, PhaseInv
  <2>2. ThreadType(NoThread, clock) /\ NoThread.pc = "done"
    BY <1>2, ThreadsAtRest
  <2>3. PhaseInv'
    BY <2>1, <2>2, RestIsAPhase
  <2> QED BY <2>1, <2>2, <2>3, StagesAreNamed
<1>6. CASE SkipPhase
  <2>1. UNCHANGED <<phase, threads>> /\ stage' = After(stage) /\ stage \in PhaseNames
        /\ ~ (live /\ Durations[stage] > 0)
    BY <1>6, StagesAreNamed DEF SkipPhase, Busy
  <2>2. phase = NoPhase
    BY <2>1 DEF TypesInv, PhaseInv
  <2>3. PhaseInv'
    BY <1>1, <2>1, <2>2 DEF TypesInv, PhaseInv
  <2> QED BY <2>1, <2>3, StagesAreNamed DEF TypesInv, TrafficTypeOK
<1> QED BY <1>4, <1>5, <1>6

LEMMA FileStepKeepsTypes ==
  ASSUME TypesInv, OpenFile \/ CloseFile
  PROVE  TypesInv'
<1>1. UNCHANGED <<routing, traffic, live, overwrite, execution, dirs>> /\ stage \in FileNames
  BY DEF OpenFile, CloseFile, FilesUnchanged
<1>2. phase = NoPhase
  BY <1>1, StagesAreNamed DEF TypesInv, PhaseInv
<1>3. PhaseInv'
  BY <1>1, <1>2 DEF TypesInv, PhaseInv, traffic
<1>4. TrafficTypeOK'
  BY <1>1, TrafficStaysTyped DEF TypesInv, TrafficTypeOK, routing, traffic
<1>5. PICK w \in BOOLEAN : files' = [files EXCEPT ![repeat][stage] = Written(w)]
  BY DEF OpenFile, CloseFile
<1>6. files' \in [Repeats -> [FileNames -> [by : 0..execution, whole : BOOLEAN]]]
  <2>1. Written(w) \in [by : 0..execution, whole : BOOLEAN] /\ repeat \in Repeats
    BY EmptyDirIsTyped DEF TypesInv
  <2>2. PICK x : x = Written(w)
    OBVIOUS
  <2> QED BY <1>1, <1>5, <2>1, <2>2 DEF TypesInv, RunnerTypeOK
<1>7. stage' \in StageNames /\ repeat' \in 0..Repetitions[live] - 1
  <2>1. stage \in StageNames /\ repeat \in 0..Repetitions[live] - 1 /\ live \in BOOLEAN
    BY DEF TypesInv, RunnerTypeOK
  <2>2. CASE OpenFile
    BY <2>1, <2>2 DEF OpenFile
  <2>3. CASE CloseFile
    <3>1. stage' = After(stage) /\ repeat' = IF stage' = "prepare" THEN repeat + 1 ELSE repeat
      BY <2>3 DEF CloseFile
    <3>2. Repetitions[live] \in Nat
      BY <2>1, RunsAreRepeats
    <3>3. /\ After(stage) \in StageNames
          /\ (After(stage) = "prepare" => repeat + 1 < Repetitions[live])
      BY <1>1, StagesAreNamed
    <3> QED BY <2>1, <3>1, <3>2, <3>3
  <2> QED BY <2>2, <2>3
<1>8. RunnerTypeOK'
  BY <1>1, <1>6, <1>7 DEF TypesInv, RunnerTypeOK
<1> QED BY <1>3, <1>4, <1>8 DEF TypesInv

LEMMA CrashKeepsTypes ==
  ASSUME TypesInv, Crash
  PROVE  TypesInv'
<1>1. /\ UNCHANGED <<order, rr, created, bound, scenario, clock, failures, ended, live,
                     overwrite, execution, repeat, dirs, files>>
      /\ stage' = "crashed" /\ phase' = NoPhase /\ known' = {}
      /\ threads' = [t \in Threads |-> NoThread]
  BY DEF Crash, routing
<1>2. clock \in Nat
  BY DEF TypesInv, TrafficTypeOK
<1>3. ThreadType(NoThread, clock) /\ NoThread.pc = "done"
  BY <1>2, ThreadsAtRest
<1>4. ASSUME NEW req \in late'
      PROVE  req.target \in Servers
  <2>1. CASE req \in late
    BY <2>1 DEF TypesInv, TrafficTypeOK
  <2>2. CASE req \notin late
    <3>1. PICK t \in Threads : req = Request(t) /\ threads[t].pc = "call"
      BY <1>4, <2>2 DEF Crash
    <3>2. req.target = threads[t].target
      BY <3>1, RequestParts
    <3> QED BY <3>1, <3>2 DEF TypesInv, TrafficTypeOK, ThreadType
  <2> QED BY <2>1, <2>2
<1>5. DOMAIN threads' = Threads /\ \A t \in Threads : threads'[t] = NoThread
  BY <1>1
<1>6. PhaseInv'
  BY <1>1, <1>3, <1>5, RestIsAPhase
<1>7. TrafficTypeOK'
  BY <1>1, <1>3, <1>4, <1>5, TrafficStaysTyped DEF TypesInv, TrafficTypeOK
<1>8. RunnerTypeOK'
  BY <1>1 DEF TypesInv, RunnerTypeOK, StageNames, Ended
<1> QED BY <1>6, <1>7, <1>8 DEF TypesInv

LEMMA InvokeKeepsTypes ==
  ASSUME TypesInv, Invoke
  PROVE  TypesInv'
<1>1. /\ UNCHANGED <<order, rr, created, bound, scenario, phase, threads, known, failures,
                     late, ended, live, dirs, files>>
      /\ clock' = clock + 1
      /\ stage \in Ended /\ stage' = "prepare" /\ repeat' = 0 /\ overwrite' \in BOOLEAN
      /\ execution < Executions[live] /\ execution' = execution + 1
  BY DEF Invoke, routing
<1>2. phase = NoPhase
  BY <1>1, StagesAreNamed DEF TypesInv, PhaseInv
<1>3. PhaseInv'
  BY <1>1, <1>2 DEF TypesInv, PhaseInv
<1>4. TrafficTypeOK'
  BY <1>1, TimePasses DEF TypesInv
<1>5. live \in BOOLEAN
  BY DEF TypesInv, RunnerTypeOK
<1>6. PICK last \in Nat \ {0} : last = Executions[live]
  BY <1>5, RunsAssumption
<1>7. execution \in 1..last
  BY <1>6 DEF TypesInv, RunnerTypeOK
<1>8. execution' \in 1..last /\ 0..execution \subseteq 0..execution'
  BY <1>1, <1>6, <1>7
<1>9. files \in [Repeats -> [FileNames -> [by : 0..execution', whole : BOOLEAN]]]
  <2>1. [by : 0..execution, whole : BOOLEAN] \subseteq [by : 0..execution', whole : BOOLEAN]
    BY <1>8
  <2>2. PICK A, B : /\ A = [by : 0..execution, whole : BOOLEAN]
                    /\ B = [by : 0..execution', whole : BOOLEAN] /\ A \subseteq B
    BY <2>1
  <2>3. files \in [Repeats -> [FileNames -> A]]
    BY <2>2 DEF TypesInv, RunnerTypeOK
  <2>4. files \in [Repeats -> [FileNames -> B]]
    BY <2>2, <2>3
  <2> QED BY <2>2, <2>4
<1>10. Repetitions[live] \in Nat \ {0}
  BY <1>5, RunsAreRepeats
<1>11. 0 \in 0..Repetitions[live] - 1
  BY <1>10
<1>12. RunnerTypeOK'
  <2>1. dirs' \in [Repeats -> DirStates]
    BY <1>1 DEF TypesInv, RunnerTypeOK
  <2> QED BY <1>1, <1>5, <1>6, <1>8, <1>9, <1>11, <2>1 DEF RunnerTypeOK, StageNames
<1> QED BY <1>3, <1>4, <1>12 DEF TypesInv

LEMMA InitIsTyped ==
  ASSUME Init
  PROVE  TypesInv
<1>1. ThreadType(NoThread, 0) /\ NoThread.pc = "done"
  BY ThreadsAtRest
<1>2. DOMAIN threads = Threads /\ \A t \in Threads : threads[t] = NoThread
  BY DEF Init
<1>3. ServersTypeOK
  BY DEF Init, RoutingInit, ServersTypeOK
<1>4. TrafficTypeOK
  BY <1>1, <1>2, <1>3, TargetsAssumption, ClockMeasures DEF Init, RoutingInit, TrafficTypeOK
<1>5. PhaseInv
  BY <1>1, <1>2 DEF Init, PhaseInv, NoPhase
<1>6. live \in BOOLEAN /\ execution = 1 /\ repeat = 0
  BY DEF Init
<1>7. execution \in 1..Executions[live] /\ repeat \in 0..Repetitions[live] - 1
  <2>1. Executions[live] \in Nat \ {0} /\ Repetitions[live] \in Nat \ {0}
    BY <1>6, RunsAssumption
  <2> QED BY <1>6, <2>1
<1>8. files \in [Repeats -> [FileNames -> [by : 0..execution, whole : BOOLEAN]]]
  <2>1. 0 \in 0..execution
    BY <1>6
  <2> QED BY <2>1 DEF Init, Absent
<1>9. RunnerTypeOK
  BY <1>6, <1>7, <1>8 DEF Init, RunnerTypeOK, StageNames, DirStates
<1> QED BY <1>4, <1>5, <1>9 DEF TypesInv

LEMMA TypesStep ==
  ASSUME TypesInv, [Next]_vars
  PROVE  TypesInv'
<1>1. CASE PrepareRunDir \/ PrecheckFails
  BY <1>1, PrepareKeepsTypes
<1>2. CASE BeginPhase \/ EndPhase \/ SkipPhase
  BY <1>2, PhaseStepKeepsTypes
<1>3. CASE OpenFile \/ CloseFile
  BY <1>3, FileStepKeepsTypes
<1>9. CASE DirStep
  BY <1>9, DirStepKeepsTypes
<1>4. CASE Crash
  BY <1>4, CrashKeepsTypes
<1>5. CASE Invoke
  BY <1>5, InvokeKeepsTypes
<1>6. CASE (Tick \/ ServeLate \/ \E j \in JobIds : EndJob(j)) /\ UNCHANGED runner
  BY <1>6, ServerStepKeepsTypes
<1>7. ASSUME NEW t \in Threads, ThreadStep(t), UNCHANGED runner
      PROVE  TypesInv'
  BY <1>7, ThreadSteps, LocalStepKeepsTypes, AnswerKeepsTypes, FailKeepsTypes
<1>8. CASE UNCHANGED vars
  <2>1. ServersTypeOK' /\ Issued' = Issued
    BY <1>8, ServersStayTyped DEF vars, routing, TypesInv, TrafficTypeOK
  <2>2. TrafficTypeOK'
    BY <1>8, <2>1 DEF vars, routing, traffic, TypesInv, TrafficTypeOK
  <2>3. PhaseInv' /\ RunnerTypeOK'
    BY <1>8, RunnerStaysTyped DEF vars, runner, traffic, TypesInv, PhaseInv
  <2> QED BY <2>2, <2>3 DEF TypesInv
<1> QED BY <1>1, <1>2, <1>3, <1>4, <1>5, <1>6, <1>7, <1>8, <1>9 DEF Next, RunnerStep, DirStep

LEMMA TypesInvariant == Spec => []TypesInv
<1>1. TypesInv /\ [Next]_vars => TypesInv'
  BY TypesStep
<1> QED BY <1>1, InitIsTyped, PTL DEF Spec

\* The types of the traffic and of the runner, for any threads, mixes,
\* durations, failures, crashes and invocations: no thread waits to repeat an
\* attempt that was the last, and no index leaves its range.
THEOREM BenchmarkTypeCorrect == Spec => []TypeOK
<1>1. TypesInv => TypeOK
  BY DEF TypesInv, TrafficTypeOK, ServersTypeOK, PhaseInv, RunnerTypeOK, ThreadType, TypeOK,
         RoutingTypeOK, StageNames, PhaseNames
<1> QED BY <1>1, TypesInvariant, PTL
-----------------------------------------------------------------------------
(***************************************************************************)
(* The files of the runs.                                                  *)
(***************************************************************************)
LEMMA FileStates ==
  ASSUME TypesInv
  PROVE  /\ Absent.whole = FALSE /\ Absent.by = 0
         /\ Opened.whole = FALSE /\ Opened.by = execution
         /\ Whole.whole = TRUE /\ Whole.by = execution
         /\ execution \in Nat \ {0} /\ repeat \in Repeats
<1>1. live \in BOOLEAN
  BY DEF TypesInv, RunnerTypeOK
<1>2. execution \in Nat \ {0}
  <2>1. Executions[live] \in Nat \ {0}
    BY <1>1, RunsAssumption
  <2> QED BY <2>1 DEF TypesInv, RunnerTypeOK
<1> QED BY <1>2, EmptyDirIsTyped DEF TypesInv, Absent, Written, Opened, Whole

\* While files are left alone only the stage matters.
LEMMA FilesLeftAlone ==
  ASSUME FilesInv, UNCHANGED <<dirs, files, repeat>>,
         \/ UNCHANGED <<stage, execution, overwrite>>
         \/ stage' \in Ended
         \/ stage' \in PhaseNames /\ stage \in PhaseNames
  PROVE  FilesInv'
<1>1. /\ stage' \in PhaseNames => dirs'[repeat'] = "absent"
      /\ stage' = "remove" => overwrite' /\ dirs'[repeat'] = "partial"
      /\ stage' \in FileNames => dirs'[repeat'] # "partial"
  BY StagesAreNamed DEF FilesInv
<1>2. ASSUME NEW i \in 1..5, stage' = Files[i], NEW k \in 1..5
      PROVE  FileOK(i, k)'
  <2>1. UNCHANGED <<stage, execution>>
    BY <1>2, FileList, StagesAreNamed
  <2>2. FileOK(i, k)
    BY <1>2, <2>1 DEF FilesInv
  <2> QED BY <2>1, <2>2 DEF FileOK, Opened, Whole, Written
<1>3. \A r \in Repeats : EmptyWithoutDir(r)' /\ RunAgrees(r)'
  BY DEF FilesInv, EmptyWithoutDir, RunAgrees
<1> QED BY <1>1, <1>2, <1>3 DEF FilesInv

LEMMA PreparedFiles ==
  ASSUME TypesInv, FilesInv, PrepareRunDir
  PROVE  FilesInv'
<1>1. stage = "prepare" /\ UNCHANGED <<repeat, execution, overwrite, files>> /\ repeat \in Repeats
  BY FileStates DEF PrepareRunDir, PrepareUnchanged
<1>2. CASE stage' = "refused" /\ UNCHANGED dirs
  BY <1>1, <1>2, FilesLeftAlone DEF Ended
<1>3. CASE stage' = "warmup" /\ UNCHANGED dirs /\ dirs[repeat] = "absent"
  <2>1. \A i \in 1..5 : stage' # Files[i]
    BY <1>3, FileList
  <2>2. stage' \notin FileNames /\ stage' # "remove"
    BY <1>3, FileList
  <2> QED BY <1>1, <1>3, <2>1, <2>2 DEF FilesInv, EmptyWithoutDir, RunAgrees
<1>4. CASE stage' = "remove" /\ overwrite /\ dirs' = [dirs EXCEPT ![repeat] = "partial"]
  <2>1. stage' \notin PhaseNames /\ stage' \notin FileNames /\ \A i \in 1..5 : stage' # Files[i]
    BY <1>4, StagesAreNamed, FileList
  <2>2. \A r \in Repeats : dirs'[r] = IF r = repeat THEN "partial" ELSE dirs[r]
    BY <1>4 DEF TypesInv, RunnerTypeOK
  <2>3. \A r \in Repeats : EmptyWithoutDir(r)' /\ RunAgrees(r)'
    BY <1>1, <2>2 DEF FilesInv, EmptyWithoutDir, RunAgrees
  <2> QED BY <1>1, <1>4, <2>1, <2>2, <2>3 DEF FilesInv
<1> QED BY <1>2, <1>3, <1>4, StagesFollow DEF PrepareRunDir, DirExists

\* Removing a directory takes files away, from a run that is then "partial",
\* and in an invocation that may.
LEMMA RemovedFiles ==
  ASSUME TypesInv, FilesInv, RemoveFile \/ RemoveRunDir
  PROVE  FilesInv' /\ (~ overwrite => UNCHANGED files)
<1>1. /\ stage = "remove" /\ overwrite /\ dirs[repeat] = "partial" /\ repeat \in Repeats
      /\ UNCHANGED <<repeat, overwrite, execution>>
  BY FileStates DEF RemoveFile, RemoveRunDir, FilesInv
<1>2. CASE RemoveFile
  <2>0. PICK x : x = Absent
    OBVIOUS
  <2>1. PICK g \in FileNames : files' = [files EXCEPT ![repeat][g] = x]
    BY <1>2, <2>0 DEF RemoveFile
  <2>2. /\ \A r \in Repeats : r # repeat => files'[r] = files[r]
        /\ \A f \in FileNames : files'[repeat][f] \in {files[repeat][f], Absent}
    BY <1>1, <2>0, <2>1 DEF TypesInv, RunnerTypeOK
  <2>3. UNCHANGED <<stage, dirs>>
    BY <1>2 DEF RemoveFile
  <2>4. ASSUME NEW r \in Repeats
        PROVE  EmptyWithoutDir(r)' /\ RunAgrees(r)'
    <3>1. CASE r # repeat
      BY <2>2, <2>3, <2>4, <3>1 DEF FilesInv, EmptyWithoutDir, RunAgrees
    <3>2. CASE r = repeat
      <4>1. files'[r]["metadata.json"].whole =>
              files'[r]["metadata.json"] = files[r]["metadata.json"]
        BY <2>2, <3>2, FileList, FileStates
      <4> QED BY <1>1, <2>2, <2>3, <3>2, <4>1 DEF FilesInv, EmptyWithoutDir, RunAgrees
    <3> QED BY <3>1, <3>2
  <2>5. stage' \notin PhaseNames /\ stage' \notin FileNames /\ \A i \in 1..5 : stage' # Files[i]
    BY <1>1, <2>3, StagesAreNamed, FileList
  <2> QED BY <1>1, <2>3, <2>4, <2>5 DEF FilesInv
<1>3. CASE RemoveRunDir
  <2>1. /\ \A f \in FileNames : files[repeat][f] = Absent
        /\ dirs' = [dirs EXCEPT ![repeat] = "absent"] /\ stage' = "warmup" /\ UNCHANGED files
    BY <1>3, StagesFollow DEF RemoveRunDir
  <2>2. \A r \in Repeats : dirs'[r] = IF r = repeat THEN "absent" ELSE dirs[r]
    BY <2>1 DEF TypesInv, RunnerTypeOK
  <2>3. ASSUME NEW r \in Repeats
        PROVE  EmptyWithoutDir(r)' /\ RunAgrees(r)'
    <3>1. CASE r # repeat
      BY <2>1, <2>2, <3>1 DEF FilesInv, EmptyWithoutDir, RunAgrees
    <3>2. CASE r = repeat
      BY <2>1, <3>2, FileList DEF EmptyWithoutDir, RunAgrees
    <3> QED BY <3>1, <3>2
  <2>4. stage' \notin FileNames /\ stage' # "remove" /\ \A i \in 1..5 : stage' # Files[i]
    BY <2>1, FileList
  <2> QED BY <1>1, <2>1, <2>2, <2>3, <2>4 DEF FilesInv
<1> QED BY <1>1, <1>2, <1>3

\* The first file's directory is made.
LEMMA MadeDir ==
  ASSUME TypesInv, FilesInv, MakeRunDir
  PROVE  FilesInv'
<1>1. /\ stage \in FileNames /\ repeat \in Repeats
      /\ dirs' = [dirs EXCEPT ![repeat] = "present"]
      /\ UNCHANGED <<stage, repeat, files, execution>>
  BY FileStates DEF MakeRunDir, FilesUnchanged
<1>2. \A r \in Repeats : dirs'[r] = IF r = repeat THEN "present" ELSE dirs[r]
  BY <1>1 DEF TypesInv, RunnerTypeOK
<1>3. dirs[repeat] = "absent"
  BY <1>1 DEF MakeRunDir, DirExists
<1>4. ASSUME NEW r \in Repeats
      PROVE  EmptyWithoutDir(r)' /\ RunAgrees(r)'
  BY <1>1, <1>2, <1>3 DEF FilesInv, EmptyWithoutDir, RunAgrees
<1>5. \A i, k \in 1..5 : FileOK(i, k)' <=> FileOK(i, k)
  BY <1>1 DEF FileOK, Opened, Whole, Written
<1>6. stage' \notin PhaseNames /\ stage' # "remove"
  BY <1>1, StagesAreNamed
<1> QED BY <1>1, <1>2, <1>4, <1>5, <1>6 DEF FilesInv

\* The file of the stage is replaced by x; the others stay.
LEMMA FileSet ==
  ASSUME TypesInv, stage \in FileNames, NEW x, files' = [files EXCEPT ![repeat][stage] = x]
  PROVE  /\ files'[repeat][stage] = x
         /\ \A f \in FileNames : f # stage => files'[repeat][f] = files[repeat][f]
         /\ \A r \in Repeats : r # repeat => files'[r] = files[r]
BY FileStates DEF TypesInv, RunnerTypeOK

LEMMA OpenedFiles ==
  ASSUME TypesInv, FilesInv, OpenFile
  PROVE  /\ FilesInv'
         /\ \A r \in Repeats, f \in FileNames :
              files[r][f].by \in 1..execution - 1 => files'[r][f] = files[r][f]
<1>1. PICK x : x = Opened
  OBVIOUS
<1>2. /\ stage \in FileNames /\ UNCHANGED <<stage, repeat, execution, dirs>>
      /\ files' = [files EXCEPT ![repeat][stage] = x]
      /\ dirs[repeat] # "absent"
  BY <1>1 DEF OpenFile, FilesUnchanged, Opened, DirExists
<1>3. /\ files'[repeat][stage] = x
      /\ \A f \in FileNames : f # stage => files'[repeat][f] = files[repeat][f]
      /\ \A r \in Repeats : r # repeat => files'[r] = files[r]
  BY <1>2, FileSet
<1>4. PICK i \in 1..5 : stage = Files[i]
  BY <1>2, FileList
<1>5. \A k \in 1..5 : FileOK(i, k)
  BY <1>4 DEF FilesInv
<1>6. x.whole = FALSE
  BY <1>1, FileStates
<1>7. ASSUME NEW l \in 1..5, stage' = Files[l], NEW k \in 1..5
      PROVE  FileOK(l, k)'
  <2>1. l = i
    BY <1>2, <1>4, <1>7, FileList
  <2>2. Whole' = Whole /\ Opened' = x
    BY <1>1, <1>2 DEF Whole, Opened, Written
  <2>3. CASE k = i
    BY <1>2, <1>3, <1>4, <2>1, <2>2, <2>3 DEF FileOK
  <2>4. CASE k # i
    <3>1. Files[k] \in FileNames /\ Files[k] # stage
      BY <1>4, <2>4, FileList
    <3>2. files'[repeat'][Files[k]] = files[repeat][Files[k]]
      BY <1>2, <1>3, <3>1
    <3> QED BY <1>5, <2>1, <2>2, <2>4, <3>2 DEF FileOK
  <2> QED BY <2>3, <2>4
<1>8. stage' \notin PhaseNames /\ stage' # "remove"
  BY <1>2, StagesAreNamed
<1>9. ASSUME NEW r \in Repeats
      PROVE  EmptyWithoutDir(r)' /\ RunAgrees(r)'
  <2>1. CASE r # repeat
    BY <1>2, <1>3, <2>1 DEF EmptyWithoutDir, RunAgrees, FilesInv
  <2>2. CASE r = repeat
    <3>1. ~ files'[repeat]["metadata.json"].whole
      <4>1. CASE i = 5
        BY <1>3, <1>4, <1>6, <4>1, FileList
      <4>2. CASE i # 5
        <5>1. FileOK(i, 5) /\ 5 > i
          BY <1>5, <4>2
        <5>2. files[repeat]["metadata.json"] = Absent
          BY <5>1, FileList DEF FileOK
        <5>3. stage # "metadata.json"
          BY <1>4, <4>2, FileList
        <5> QED BY <1>3, <5>2, <5>3, FileList, FileStates
      <4> QED BY <4>1, <4>2
    <3> QED BY <1>2, <2>2, <3>1 DEF EmptyWithoutDir, RunAgrees
  <2> QED BY <2>1, <2>2
<1>10. FilesInv'
  BY <1>2, <1>7, <1>8, <1>9 DEF FilesInv
<1>11. ASSUME NEW r \in Repeats, NEW f \in FileNames, files[r][f].by \in 1..execution - 1
       PROVE  files'[r][f] = files[r][f]
  <2>1. CASE r = repeat /\ f = stage
    <3>1. files[r][f] \in {Absent, Opened}
      BY <1>4, <1>5, <2>1 DEF FileOK
    <3>2. files[r][f].by \in {0, execution}
      BY <3>1, FileStates
    <3> QED BY <1>11, <3>2, FileStates
  <2>2. CASE ~ (r = repeat /\ f = stage)
    BY <1>3, <2>2
  <2> QED BY <2>1, <2>2
<1> QED BY <1>10, <1>11

LEMMA ClosedFiles ==
  ASSUME TypesInv, FilesInv, CloseFile
  PROVE  /\ FilesInv'
         /\ \A r \in Repeats, f \in FileNames :
              files[r][f].by \in 1..execution - 1 => files'[r][f] = files[r][f]
<1>1. PICK x : x = Whole
  OBVIOUS
<1>2. /\ stage \in FileNames /\ UNCHANGED <<execution, dirs>> /\ stage' = After(stage)
      /\ files[repeat][stage] = Opened /\ dirs[repeat] = "present"
      /\ files' = [files EXCEPT ![repeat][stage] = x]
      /\ repeat' = IF stage' = "prepare" THEN repeat + 1 ELSE repeat
  <2>1. /\ stage \in FileNames /\ UNCHANGED <<execution, dirs>> /\ stage' = After(stage)
        /\ files[repeat][stage] = Opened
        /\ files' = [files EXCEPT ![repeat][stage] = x]
        /\ repeat' = IF stage' = "prepare" THEN repeat + 1 ELSE repeat
    BY <1>1 DEF CloseFile, FilesUnchanged, Opened, Whole
  <2>2. Opened # Absent /\ repeat \in Repeats
    BY FileStates
  <2>3. dirs[repeat] # "absent" /\ dirs[repeat] # "partial" /\ dirs[repeat] \in DirStates
    BY <2>1, <2>2 DEF FilesInv, EmptyWithoutDir, TypesInv, RunnerTypeOK
  <2> QED BY <2>1, <2>3 DEF DirStates
<1>3. /\ files'[repeat][stage] = x
      /\ \A f \in FileNames : f # stage => files'[repeat][f] = files[repeat][f]
      /\ \A r \in Repeats : r # repeat => files'[r] = files[r]
  BY <1>2, FileSet
<1>4. PICK i \in 1..5 : stage = Files[i]
  BY <1>2, FileList
<1>5. \A k \in 1..5 : FileOK(i, k)
  BY <1>4 DEF FilesInv
<1>6. ASSUME NEW k \in 1..5
      PROVE  /\ k <= i => files'[repeat][Files[k]] = x
             /\ k > i => files'[repeat][Files[k]] = Absent
  <2>1. CASE k = i
    BY <1>3, <1>4, <2>1
  <2>2. CASE k # i
    <3>1. Files[k] \in FileNames /\ Files[k] # stage
      BY <1>4, <2>2, FileList
    <3>2. files'[repeat][Files[k]] = files[repeat][Files[k]]
      BY <1>3, <3>1
    <3>3. FileOK(i, k)
      BY <1>5
    <3> QED BY <1>1, <2>2, <3>2, <3>3 DEF FileOK
  <2> QED BY <2>1, <2>2
<1>7. ASSUME i = 5
      PROVE  FilesInv'
  <2>1. stage' \in {"prepare", "done"}
    BY <1>2, <1>4, <1>7, StagesFollow, FileList
  <2>2. /\ stage' \notin PhaseNames /\ \A l \in 1..5 : stage' # Files[l]
        /\ stage' \notin FileNames /\ stage' # "remove"
    BY <2>1, FileList DEF PhaseNames
  <2>3. \A f \in FileNames : files'[repeat][f] = x
    BY <1>6, <1>7, FileList
  <2>4. \A r \in Repeats : EmptyWithoutDir(r)' /\ RunAgrees(r)'
    <3>1. ASSUME NEW r \in Repeats
          PROVE  EmptyWithoutDir(r)' /\ RunAgrees(r)'
      <4>1. CASE r = repeat
        <5>1. "metadata.json" \in FileNames
          BY FileList
        <5> QED BY <1>2, <2>3, <4>1, <5>1 DEF EmptyWithoutDir, RunAgrees
      <4>2. CASE r # repeat
        BY <1>2, <1>3, <4>2 DEF EmptyWithoutDir, RunAgrees, FilesInv
      <4> QED BY <4>1, <4>2
    <3> QED BY <3>1
  <2> QED BY <2>2, <2>4 DEF FilesInv
<1>8. ASSUME i # 5
      PROVE  FilesInv'
  <2>1. i \in 1..4 /\ i + 1 \in 1..5
    BY <1>8
  <2>2. stage' = Files[i + 1] /\ Files[i + 1] \in FileNames
    BY <1>2, <1>4, <2>1, StagesFollow, FileList
  <2>3. repeat' = repeat
    BY <1>2, <2>2, StagesAreNamed
  <2>4. ASSUME NEW l \in 1..5, stage' = Files[l], NEW k \in 1..5
        PROVE  FileOK(l, k)'
    <3>1. l = i + 1
      <4>1. \A n \in 1..5 : Files[l] = Files[n] => l = n
        BY FileList
      <4> QED BY <2>1, <2>2, <2>4, <4>1
    <3>2. Whole' = x
      BY <1>1, <1>2 DEF Whole, Written
    <3>3. /\ k <= i => files'[repeat'][Files[k]] = x
          /\ k > i => files'[repeat'][Files[k]] = Absent
      BY <1>6, <2>3
    <3> QED BY <3>1, <3>2, <3>3 DEF FileOK
  <2>5. ASSUME NEW r \in Repeats
        PROVE  EmptyWithoutDir(r)' /\ RunAgrees(r)'
    <3>1. CASE r # repeat
      BY <1>2, <1>3, <3>1 DEF EmptyWithoutDir, RunAgrees, FilesInv
    <3>2. CASE r = repeat
      <4>1. files'[repeat]["metadata.json"] = Absent
        BY <1>6, <2>1, FileList
      <4> QED BY <1>2, <3>2, <4>1, FileStates DEF EmptyWithoutDir, RunAgrees
    <3> QED BY <3>1, <3>2
  <2>6. stage' \notin PhaseNames /\ stage' # "remove" /\ dirs'[repeat'] = "present"
    BY <1>2, <2>2, <2>3, StagesAreNamed
  <2> QED BY <2>4, <2>5, <2>6 DEF FilesInv
<1>9. ASSUME NEW r \in Repeats, NEW f \in FileNames, files[r][f].by \in 1..execution - 1
      PROVE  files'[r][f] = files[r][f]
  <2>1. CASE r = repeat /\ f = stage
    BY <1>2, <1>9, <2>1, FileStates
  <2>2. CASE ~ (r = repeat /\ f = stage)
    BY <1>3, <2>2
  <2> QED BY <2>1, <2>2
<1> QED BY <1>7, <1>8, <1>9

\* A phase is followed by the next one or by the first, absent, file.
LEMMA PhaseKeepsFiles ==
  ASSUME TypesInv, FilesInv, UNCHANGED <<dirs, files, repeat, execution>>, stage \in PhaseNames,
         stage' \in {stage, After(stage)}
  PROVE  FilesInv'
<1>1. CASE stage' \in PhaseNames
  BY <1>1, FilesLeftAlone
<1>2. CASE stage' = Files[1]
  <2>1. dirs'[repeat'] = "absent" /\ \A k \in 1..5 : files'[repeat'][Files[k]] = Absent
    BY FileStates, FileList DEF FilesInv, EmptyWithoutDir
  <2>2. ASSUME NEW l \in 1..5, stage' = Files[l], NEW k \in 1..5
        PROVE  FileOK(l, k)'
    <3>1. l = 1
      <4>1. \A n \in 1..5 : Files[l] = Files[n] => l = n
        BY FileList
      <4>2. 1 \in 1..5
        OBVIOUS
      <4> QED BY <1>2, <2>2, <4>1, <4>2
    <3> QED BY <2>1, <3>1 DEF FileOK
  <2>3. stage' \notin PhaseNames /\ stage' # "remove"
    BY <1>2, FileList DEF PhaseNames
  <2>4. \A r \in Repeats : EmptyWithoutDir(r)' /\ RunAgrees(r)'
    BY DEF FilesInv, EmptyWithoutDir, RunAgrees
  <2> QED BY <2>1, <2>2, <2>3, <2>4 DEF FilesInv
<1>3. stage' \in PhaseNames \/ stage' = Files[1]
  BY StagesFollow DEF PhaseNames
<1> QED BY <1>1, <1>2, <1>3

EarlierFileKept ==
  \A r \in Repeats, f \in FileNames :
    ~ overwrite /\ files[r][f].by \in 1..execution - 1 => files'[r][f] = files[r][f]

LEMMA FilesStep ==
  ASSUME TypesInv, FilesInv, [Next]_vars
  PROVE  FilesInv' /\ EarlierFileKept
<1>1. CASE PrepareRunDir
  BY <1>1, PreparedFiles DEF PrepareRunDir, PrepareUnchanged, EarlierFileKept
<1>8. CASE RemoveFile \/ RemoveRunDir
  BY <1>8, RemovedFiles DEF EarlierFileKept
<1>9. CASE MakeRunDir
  BY <1>9, MadeDir DEF MakeRunDir, EarlierFileKept
<1>2. CASE BeginPhase \/ EndPhase \/ SkipPhase
  <2>1. /\ UNCHANGED <<dirs, files, repeat, execution>> /\ stage \in PhaseNames
        /\ stage' \in {stage, After(stage)}
    BY <1>2, StagesAreNamed DEF BeginPhase, EndPhase, SkipPhase, PhaseUnchanged, TypesInv, PhaseInv
  <2> QED BY <2>1, PhaseKeepsFiles DEF EarlierFileKept
<1>3. CASE OpenFile
  BY <1>3, OpenedFiles DEF EarlierFileKept
<1>4. CASE CloseFile
  BY <1>4, ClosedFiles DEF EarlierFileKept
<1>5. CASE PrecheckFails \/ Crash
  <2>1. UNCHANGED <<dirs, files, repeat>> /\ stage' \in Ended
    BY <1>5 DEF PrecheckFails, Crash, Ended
  <2> QED BY <2>1, FilesLeftAlone DEF EarlierFileKept
<1>6. CASE Invoke
  <2>1. stage' = "prepare" /\ UNCHANGED <<dirs, files>>
    BY <1>6 DEF Invoke
  <2>2. /\ stage' \notin PhaseNames /\ \A i \in 1..5 : stage' # Files[i]
        /\ stage' \notin FileNames /\ stage' # "remove"
    BY <2>1, StagesAreNamed, FileList
  <2>3. \A r \in Repeats : EmptyWithoutDir(r)' /\ RunAgrees(r)'
    BY <2>1 DEF FilesInv, EmptyWithoutDir, RunAgrees
  <2> QED BY <2>1, <2>2, <2>3 DEF FilesInv, EarlierFileKept
<1>7. CASE UNCHANGED runner
  BY <1>7, FilesLeftAlone DEF runner, EarlierFileKept
<1> QED BY <1>1, <1>2, <1>3, <1>4, <1>5, <1>6, <1>7, <1>8, <1>9 DEF Next, RunnerStep, DirStep, vars

LEMMA FilesAtFirst ==
  ASSUME Init
  PROVE  FilesInv
<1>1. stage = "prepare" /\ \A r \in Repeats, f \in FileNames : files[r][f] = Absent
  BY DEF Init
<1>2. /\ stage \notin PhaseNames /\ \A i \in 1..5 : stage # Files[i]
      /\ stage \notin FileNames /\ stage # "remove"
  BY <1>1, StagesAreNamed, FileList
<1>3. \A r \in Repeats : EmptyWithoutDir(r) /\ RunAgrees(r)
  BY <1>1, FileList DEF EmptyWithoutDir, RunAgrees, Absent
<1> QED BY <1>2, <1>3 DEF FilesInv

LEMMA FilesInvariant == Spec => []FilesInv
<1>1. TypesInv /\ FilesInv /\ [Next]_vars => FilesInv'
  BY FilesStep
<1> QED BY <1>1, FilesAtFirst, TypesInvariant, PTL DEF Spec

\* Whichever invocations crashed, were refused or replaced the files of
\* earlier ones: the files of a run whose metadata is whole are whole, and of
\* the invocation that wrote it.  One is missing only where a removal was begun
\* and not finished.
THEOREM AggregatedRunsAreOfOneInvocation == Spec => []AggregatedRunsAgree
<1>1. FilesInv => AggregatedRunsAgree
  BY DEF FilesInv, RunAgrees, AggregatedRunsAgree, Readable
<1> QED BY <1>1, FilesInvariant, PTL

\* Without --overwrite no step of an invocation changes what an earlier one
\* wrote, also where that one crashed half way.
THEOREM EarlierFilesStay == Spec => EarlierFilesAreKept
<1>1. TypesInv /\ FilesInv /\ [Next]_vars => [EarlierFileKept]_vars
  BY FilesStep
<1>2. EarlierFileKept <=> \A r \in Repeats, f \in FileNames :
        ~ overwrite /\ files[r][f].by \in 1..execution - 1 => files'[r][f] = files[r][f]
  BY DEF EarlierFileKept
<1> QED BY <1>1, <1>2, TypesInvariant, FilesInvariant, PTL DEF Spec, EarlierFilesAreKept
-----------------------------------------------------------------------------
(***************************************************************************)
(* Operations and their rows.                                              *)
(***************************************************************************)
Handling == {"begin", "call", "backoff"}

Began(t) ==
  /\ threads[t].pc = "loop" /\ threads'[t].pc = "begin"
  /\ threads'[t].op = threads[t].op /\ threads'[t].method = Usable(phase.mix[phase.next])
  /\ rows' = rows /\ begun' = IF phase.recorded THEN begun + 1 ELSE begun
  /\ UNCHANGED known

WentOn(t) ==
  /\ threads[t].pc \in Handling <=> threads'[t].pc \in Handling
  /\ threads'[t].pc # "begin" /\ threads'[t].op = threads[t].op
  /\ UNCHANGED <<rows, begun, known>>

Finished(t) ==
  /\ threads[t].pc = "call" /\ threads'[t].pc = "loop"
  /\ threads'[t].op = threads[t].op + 1
  /\ UNCHANGED begun /\ known \subseteq known'
  /\ \E row : /\ row.op = Operation(t)
              /\ row.code = "OK" /\ row.terminal => row.job \in ended'
              /\ rows' = IF phase.recorded THEN rows \cup {row} ELSE rows

LEMMA FinishForm ==
  ASSUME TypesInv, NEW t \in Threads, NEW code, NEW j, NEW terminal,
         Finish(t, code, j, terminal), threads[t].pc = "call",
         UNCHANGED begun, known \subseteq known',
         code = "OK" /\ terminal => j \in ended'
  PROVE  /\ DOMAIN threads' = Threads
         /\ \A u \in Threads : u # t => threads'[u] = threads[u]
         /\ Finished(t)
<1>1. TrafficTypeOK
  BY DEF TypesInv
<1>2. /\ DOMAIN threads' = Threads
      /\ \A u \in Threads : u # t => threads'[u] = threads[u]
      /\ threads'[t].pc = "loop" /\ threads'[t].op = threads[t].op + 1
  BY <1>1, FinishedThread
<1>3. PICK row : row = Row(t, code, j, terminal)
  OBVIOUS
<1>4. row.op = Operation(t) /\ row.code = code /\ row.job = j
  BY <1>3 DEF Row
<1>5. row.terminal = terminal
  BY <1>3, Zenon DEF Row
<1>6. row.code = "OK" /\ row.terminal => row.job \in ended'
  BY <1>4, <1>5, Zenon
<1>7. rows' = IF phase.recorded THEN rows \cup {row} ELSE rows
  BY <1>3 DEF Finish
<1> QED BY <1>2, <1>4, <1>6, <1>7 DEF Finished

LEMMA ThreadStepForm ==
  ASSUME TypesInv, NEW t \in Threads, ThreadStep(t), UNCHANGED runner
  PROVE  /\ DOMAIN threads' = Threads
         /\ \A u \in Threads : u # t => threads'[u] = threads[u]
         /\ Began(t) \/ WentOn(t) \/ Finished(t)
         /\ ended \subseteq ended'
         /\ phase # NoPhase /\ phase' # NoPhase
         /\ phase'.recorded = phase.recorded
         /\ phase'.name = phase.name /\ phase'.run = phase.run
<1>1. TrafficTypeOK
  BY DEF TypesInv
<1>2. threads[t].pc # "done" /\ (phase' = phase \/ TakeMethod)
  BY ThreadSteps, LocalStepChanges DEF Answer, Fail
<1>3. UNCHANGED <<stage, live, execution, repeat>>
  BY DEF runner
<1>4. phase # NoPhase /\ phase' # NoPhase /\ PhaseInv'
  BY <1>2, <1>3, PhaseGoesOn DEF TypesInv
<1>5. phase'.name = phase.name /\ phase'.run = phase.run /\ phase'.recorded = phase.recorded
  BY <1>3, <1>4 DEF TypesInv, PhaseInv
<1>6. SUFFICES /\ DOMAIN threads' = Threads
               /\ \A u \in Threads : u # t => threads'[u] = threads[u]
               /\ Began(t) \/ WentOn(t) \/ Finished(t)
               /\ ended \subseteq ended'
  BY <1>4, <1>5
<1>7. CASE Begin(t)
  <2>1. /\ threads[t].pc = "loop" /\ UNCHANGED <<rows, known, ended>>
        /\ begun' = IF phase.recorded THEN begun + 1 ELSE begun
    BY <1>7 DEF Begin
  <2>2. /\ DOMAIN threads' = Threads
        /\ \A u \in Threads : u # t => threads'[u] = threads[u]
        /\ threads'[t].pc = "begin" /\ threads'[t].op = threads[t].op
        /\ threads'[t].method = Usable(phase.mix[phase.next])
    BY <1>1, <1>7, BeginningThread DEF SameCall
  <2> QED BY <2>1, <2>2 DEF Began
<1>8. ASSUME LocalStep(t), ~ Begin(t)
      PROVE  /\ DOMAIN threads' = Threads
             /\ \A u \in Threads : u # t => threads'[u] = threads[u]
             /\ WentOn(t) /\ ended \subseteq ended'
  <2>1. UNCHANGED <<rows, begun, known, ended>>
    BY <1>8, LocalStepChanges
  <2>2. CASE EndLoop(t)
    <3>1. threads[t].pc = "loop"
      BY <2>2 DEF EndLoop
    <3>2. /\ DOMAIN threads' = Threads
          /\ \A u \in Threads : u # t => threads'[u] = threads[u]
          /\ threads'[t].pc = "done" /\ threads'[t].op = threads[t].op
      BY <1>1, <2>2, EndingThread DEF SameCall
    <3> QED BY <2>1, <3>1, <3>2 DEF WentOn, Handling
  <2>3. CASE Retry(t)
    <3>1. threads[t].pc = "backoff"
      BY <2>3 DEF Retry
    <3>2. /\ DOMAIN threads' = Threads
          /\ \A u \in Threads : u # t => threads'[u] = threads[u]
          /\ threads'[t].pc = "call" /\ threads'[t].op = threads[t].op
      BY <1>1, <2>3, RetryingThread DEF SameCall
    <3> QED BY <2>1, <3>1, <3>2 DEF WentOn, Handling
  <2>4. CASE ExecuteSubmit(t) \/ ExecuteListJobs(t)
             \/ \E method \in JobScopedMethods : ExecuteJobCall(t, method)
    <3>1. /\ threads[t].pc = "begin"
          /\ \E method, target, j, key : Call(t, method, target, j, key)
      BY <2>4 DEF ExecuteSubmit, Submit, ExecuteListJobs, ExecuteJobCall
    <3>2. /\ DOMAIN threads' = Threads
          /\ \A u \in Threads : u # t => threads'[u] = threads[u]
          /\ threads'[t].pc = "call" /\ threads'[t].op = threads[t].op
      BY <1>1, <3>1, CallingThread
    <3> QED BY <2>1, <3>1, <3>2 DEF WentOn, Handling
  <2> QED BY <1>8, <2>2, <2>3, <2>4 DEF LocalStep
<1>9. CASE Answer(t)
  <2>1. PICK reply \in Replies :
          /\ Serve(Request(t), reply)
          /\ known' = IF threads[t].method = "SubmitJob" /\ reply.code = "OK"
                        THEN known \cup {reply.job} ELSE known
          /\ Finish(t, reply.code, reply.job, reply.terminal)
    BY <1>9 DEF Answer
  <2>2. threads[t].pc = "call" /\ UNCHANGED begun
    BY <1>9 DEF Answer
  <2>3. PICK req : req = Request(t)
    OBVIOUS
  <2>4. ServersTypeOK /\ ended \subseteq Issued /\ req.target \in Servers
    BY <2>2, <2>3, RequestParts DEF TypesInv, TrafficTypeOK, ThreadType
  <2>5. ended \subseteq ended' /\ (reply.terminal => reply.job \in ended')
    BY <2>1, <2>3, <2>4, ServeEffect
  <2>6. known \subseteq known'
    BY <2>1
  <2>7. reply.code = "OK" /\ reply.terminal => reply.job \in ended'
    BY <2>5
  <2> QED BY <2>1, <2>2, <2>5, <2>6, <2>7, FinishForm
<1>10. CASE Fail(t)
  <2>1. threads[t].pc = "call" /\ UNCHANGED <<begun, known, ended>>
    BY <1>10 DEF Fail
  <2>2. CASE MayRetry(threads[t]) /\ threads[t].attempt < MaxAttempts
    <3>1. Set(t, [threads[t] EXCEPT !.pc = "backoff"]) /\ UNCHANGED rows
      BY <1>10, <2>2 DEF Fail
    <3>2. /\ DOMAIN threads' = Threads
          /\ \A u \in Threads : u # t => threads'[u] = threads[u]
          /\ threads'[t].pc = "backoff" /\ threads'[t].op = threads[t].op
      BY <1>1, <3>1, WaitingThread DEF SameCall
    <3> QED BY <2>1, <3>1, <3>2 DEF WentOn, Handling
  <2>3. CASE ~ (MayRetry(threads[t]) /\ threads[t].attempt < MaxAttempts)
    <3>1. Finish(t, "UNAVAILABLE", threads[t].job, FALSE)
      BY <1>10, <2>3 DEF Fail
    <3> QED BY <2>1, <3>1, FinishForm
  <2> QED BY <2>2, <2>3
<1> QED BY <1>7, <1>8, <1>9, <1>10, ThreadSteps

\* What the rest of the system does to a run's operations and rows.
LEMMA OtherSteps ==
  ASSUME TypesInv, [Next]_vars, ~ \E t \in Threads : ThreadStep(t) /\ UNCHANGED runner
  PROVE  /\ ended \subseteq ended'
         /\ \/ /\ rows' = {} /\ begun' = 0 /\ known' = {}
               /\ stage' \in Ended \cup {"remove", "warmup"} /\ phase' = NoPhase
               /\ \A t \in Threads : threads'[t].pc = "done"
            \/ /\ UNCHANGED <<rows, begun, known>>
               /\ \A t \in Threads : threads'[t].pc = "begin" => UNCHANGED threads
<1>1. TrafficTypeOK
  BY DEF TypesInv
<1>2. CASE PrepareRunDir
  <2>1. /\ rows' = {} /\ begun' = 0 /\ known' = {} /\ UNCHANGED <<threads, phase, ended>>
        /\ stage = "prepare" /\ stage' \in {"refused", "remove", "warmup"}
    BY <1>2, StagesFollow DEF PrepareRunDir, PrepareUnchanged, FreshRun
  <2>2. phase = NoPhase
    BY <2>1, StagesAreNamed DEF TypesInv, PhaseInv
  <2> QED BY <2>1, <2>2 DEF TypesInv, PhaseInv, Ended
<1>3. CASE Crash
  <2>1. /\ rows' = {} /\ begun' = 0 /\ known' = {} /\ UNCHANGED ended /\ phase' = NoPhase
        /\ stage' = "crashed" /\ threads' = [t \in Threads |-> NoThread]
    BY <1>3 DEF Crash
  <2>2. NoThread.pc = "done"
    BY DEF NoThread
  <2> QED BY <2>1, <2>2 DEF Ended
<1>4. CASE BeginPhase \/ EndPhase
  <2>1. UNCHANGED <<rows, begun, known, ended>>
    BY <1>4 DEF BeginPhase, EndPhase, PhaseUnchanged
  <2>2. PICK th : threads' = [t \in Threads |-> th] /\ th.pc # "begin"
    <3>1. NoThread.pc = "done" /\ [NoThread EXCEPT !.pc = "loop", !.due = clock].pc = "loop"
      BY DEF NoThread
    <3> QED BY <1>4, <3>1 DEF BeginPhase, EndPhase
  <2> QED BY <2>1, <2>2
<1>5. CASE SkipPhase
  BY <1>5 DEF SkipPhase, PhaseUnchanged
<1>6. CASE DirStep \/ OpenFile \/ CloseFile \/ PrecheckFails \/ Invoke
  <2>1. UNCHANGED <<rows, begun, known, threads, ended>>
    BY <1>6, DirSteps DEF OpenFile, CloseFile, FilesUnchanged, PrecheckFails, Invoke, traffic
  <2> QED BY <2>1
<1>7. CASE Tick
  BY <1>7 DEF Tick
<1>8. CASE ServeLate
  <2>1. UNCHANGED <<rows, begun, known, threads>>
    BY <1>8 DEF ServeLate
  <2>2. PICK req \in late, reply \in Replies : Serve(req, reply)
    BY <1>8 DEF ServeLate
  <2>3. ServersTypeOK /\ ended \subseteq Issued /\ req.target \in Servers
    BY <1>1 DEF TrafficTypeOK
  <2>4. ended \subseteq ended'
    BY <2>2, <2>3, ServeEffect
  <2> QED BY <2>1, <2>4
<1>9. ASSUME NEW j \in JobIds, EndJob(j)
      PROVE  ended \subseteq ended' /\ UNCHANGED <<rows, begun, known, threads>>
  BY <1>9 DEF EndJob
<1>10. CASE UNCHANGED vars
  BY <1>10 DEF vars, traffic
<1> QED BY <1>2, <1>3, <1>4, <1>5, <1>6, <1>7, <1>8, <1>9, <1>10 DEF Next, RunnerStep, DirStep

\* A row that says its job is terminal is about a job that has ended.
CountedInv == \A row \in rows : row.code = "OK" /\ row.terminal => row.job \in ended

LEMMA CountedStep ==
  ASSUME TypesInv, CountedInv, [Next]_vars
  PROVE  CountedInv'
<1>1. ASSUME NEW t \in Threads, ThreadStep(t), UNCHANGED runner
      PROVE  CountedInv'
  <2>1. ended \subseteq ended' /\ (Began(t) \/ WentOn(t) \/ Finished(t))
    BY <1>1, ThreadStepForm
  <2>2. CASE rows' = rows
    BY <2>1, <2>2, Zenon DEF CountedInv
  <2>3. CASE rows' # rows
    <3>1. PICK row : /\ row.code = "OK" /\ row.terminal => row.job \in ended'
                     /\ rows' = rows \cup {row}
      BY <2>1, <2>3, Zenon DEF Began, WentOn, Finished
    <3>2. \A r \in rows' : r \in rows \/ r = row
      BY <3>1
    <3> QED BY <2>1, <3>1, <3>2, Zenon DEF CountedInv
  <2> QED BY <2>2, <2>3
<1>2. CASE ~ \E t \in Threads : ThreadStep(t) /\ UNCHANGED runner
  <2>1. ended \subseteq ended' /\ (rows' = {} \/ rows' = rows)
    BY <1>2, OtherSteps
  <2>2. \A r \in rows' : r \in rows
    BY <2>1
  <2> QED BY <2>1, <2>2, Zenon DEF CountedInv
<1> QED BY <1>1, <1>2

\* Whatever fails, is repeated or comes late: every job of the summary's
\* terminal throughput has ended at its server.
THEOREM CountedJobsEnded == Spec => []CountedJobsHaveEnded
<1>1. Init => CountedInv
  BY DEF Init, CountedInv
<1>2. TypesInv /\ CountedInv /\ [Next]_vars => CountedInv'
  BY CountedStep
<1>3. CountedInv => CountedJobsHaveEnded
  <2>1. ASSUME CountedInv, NEW j \in TerminalJobs
        PROVE  j \in ended
    <3>1. PICK row \in {r \in rows : r.code = "OK" /\ r.terminal} : j = row.job
      BY <2>1 DEF TerminalJobs
    <3> QED BY <2>1, <3>1, Zenon DEF CountedInv
  <2> QED BY <2>1 DEF CountedJobsHaveEnded
<1> QED BY <1>1, <1>2, <1>3, TypesInvariant, PTL DEF Spec

\* A thread that has chosen a call about a job has one to pick.
ChosenInv ==
  \A t \in Threads :
    threads[t].pc = "begin" /\ threads[t].method \in JobScopedMethods => known # {}

LEMMA ChosenStep ==
  ASSUME TypesInv, ChosenInv, [Next]_vars
  PROVE  ChosenInv'
<1>1. ASSUME NEW t \in Threads, ThreadStep(t), UNCHANGED runner
      PROVE  ChosenInv'
  <2>1. /\ \A u \in Threads : u # t => threads'[u] = threads[u]
        /\ Began(t) \/ WentOn(t) \/ Finished(t)
    BY <1>1, ThreadStepForm
  <2>2. known \subseteq known'
    BY <2>1 DEF Began, WentOn, Finished
  <2>3. ASSUME threads'[t].pc = "begin", threads'[t].method \in JobScopedMethods
        PROVE  known' # {}
    <3>1. Began(t)
      BY <2>1, <2>3 DEF WentOn, Finished
    <3>2. known # {}
      BY <2>3, <3>1 DEF Began, Usable, JobScopedMethods
    <3> QED BY <2>2, <3>2
  <2> QED BY <2>1, <2>2, <2>3 DEF ChosenInv
<1>2. CASE ~ \E t \in Threads : ThreadStep(t) /\ UNCHANGED runner
  <2>1. \/ \A t \in Threads : threads'[t].pc = "done"
        \/ /\ UNCHANGED known
           /\ \A t \in Threads : threads'[t].pc = "begin" => UNCHANGED threads
    BY <1>2, OtherSteps
  <2> QED BY <2>1 DEF ChosenInv
<1> QED BY <1>1, <1>2

\* The list of known jobs is emptied only between runs, so that no thread
\* submits in the name of thread 0.
THEOREM TheFallbackIsNeverTaken == Spec => []FallbackIsDead
<1>1. Init => ChosenInv
  BY DEF Init, ChosenInv, NoThread
<1>2. TypesInv /\ ChosenInv /\ [Next]_vars => ChosenInv'
  BY ChosenStep
<1>3. ChosenInv => FallbackIsDead
  BY DEF ChosenInv, FallbackIsDead, Stranded
<1> QED BY <1>1, <1>2, <1>3, TypesInvariant, PTL DEF Spec
-----------------------------------------------------------------------------
(***************************************************************************)
(* Operations are counted when they begin and recorded when they end.  In  *)
(* between their threads handle them, and a thread's rows are about the    *)
(* operations before its current one, so that every row is new.            *)
(***************************************************************************)
InHand == {t \in Threads : threads[t].pc \in Handling}

RowsAreOld ==
  \A row \in rows :
    row.op[2] \in Threads /\ row.op[3] \in Nat /\ row.op[3] < threads[row.op[2]].op

CountInv ==
  /\ stage \in {"remove", "warmup"} \/ (stage = "measure" /\ phase = NoPhase)
       => rows = {} /\ begun = 0
  /\ phase # NoPhase /\ phase.recorded =>
       /\ IsFiniteSet(rows) /\ IsFiniteSet(InHand)
       /\ begun = Cardinality(rows) + Cardinality(InHand)
       /\ RowsAreOld
  /\ stage \in {"cooldown"} \cup FileNames => Cardinality(rows) = begun

LEMMA MeasuredStep ==
  ASSUME TypesInv, NEW t \in Threads, ThreadStep(t), UNCHANGED runner,
         IsFiniteSet(rows), IsFiniteSet(InHand), phase.recorded,
         begun = Cardinality(rows) + Cardinality(InHand), RowsAreOld
  PROVE  /\ IsFiniteSet(rows') /\ IsFiniteSet(InHand')
         /\ begun' = Cardinality(rows') + Cardinality(InHand')
         /\ RowsAreOld'
<1>1. /\ \A u \in Threads : u # t => threads'[u] = threads[u]
      /\ Began(t) \/ WentOn(t) \/ Finished(t)
  BY ThreadStepForm
<1>2. \A u \in Threads : threads[u].op \in Nat
  BY DEF TypesInv, TrafficTypeOK, ThreadType
<1>3. Cardinality(rows) \in Nat /\ Cardinality(InHand) \in Nat
  BY FS_CardinalityType
<1>4. CASE Began(t)
  <2>1. t \notin InHand /\ InHand' = InHand \cup {t} /\ rows' = rows /\ begun' = begun + 1
    BY <1>1, <1>4 DEF Began, InHand, Handling
  <2>2. IsFiniteSet(InHand') /\ Cardinality(InHand') = Cardinality(InHand) + 1
    BY <2>1, FS_AddElement
  <2>3. RowsAreOld'
    BY <1>1, <1>4, <2>1 DEF Began, RowsAreOld
  <2> QED BY <1>3, <2>1, <2>2, <2>3
<1>5. CASE WentOn(t)
  <2>1. InHand' = InHand /\ rows' = rows /\ begun' = begun
    BY <1>1, <1>5 DEF WentOn, InHand
  <2>2. RowsAreOld'
    BY <1>1, <1>5, <2>1 DEF WentOn, RowsAreOld
  <2> QED BY <2>1, <2>2
<1>6. CASE Finished(t)
  <2>1. PICK row : row.op = Operation(t) /\ rows' = rows \cup {row}
    BY <1>6 DEF Finished
  <2>2. threads'[t].op = threads[t].op + 1 /\ begun' = begun
    BY <1>6 DEF Finished
  <2>3. row.op[2] = t /\ row.op[3] = threads[t].op
    BY <2>1 DEF Operation
  <2>4. row \notin rows
    <3>1. row \in rows => threads[t].op < threads[t].op
      BY <2>3 DEF RowsAreOld
    <3> QED BY <1>2, <3>1
  <2>5. IsFiniteSet(rows') /\ Cardinality(rows') = Cardinality(rows) + 1
    BY <2>1, <2>4, FS_AddElement
  <2>6. t \in InHand /\ InHand' = InHand \ {t}
    BY <1>1, <1>6 DEF Finished, InHand, Handling
  <2>7. IsFiniteSet(InHand') /\ Cardinality(InHand') = Cardinality(InHand) - 1
    BY <2>6, FS_RemoveElement
  <2>8. ASSUME NEW r \in rows'
        PROVE  r.op[2] \in Threads /\ r.op[3] \in Nat /\ r.op[3] < threads'[r.op[2]].op
    <3>1. CASE r = row
      BY <1>2, <2>2, <2>3, <3>1
    <3>2. CASE r \in rows
      <4>1. r.op[2] \in Threads /\ r.op[3] \in Nat /\ r.op[3] < threads[r.op[2]].op
        BY <3>2 DEF RowsAreOld
      <4>2. PICK u \in Threads : u = r.op[2]
        BY <4>1
      <4>3. CASE u = t
        <5>1. PICK n \in Nat, k \in Nat : n = threads[t].op /\ k = r.op[3]
          BY <1>2, <4>1
        <5>2. k < n + 1
          BY <4>1, <4>2, <4>3, <5>1
        <5> QED BY <2>2, <4>1, <4>2, <4>3, <5>1, <5>2
      <4>4. CASE u # t
        BY <1>1, <4>1, <4>2, <4>4
      <4> QED BY <4>3, <4>4
    <3> QED BY <2>1, <3>1, <3>2
  <2>9. RowsAreOld'
    BY <2>8 DEF RowsAreOld
  <2> QED BY <1>3, <2>2, <2>5, <2>7, <2>9
<1> QED BY <1>1, <1>4, <1>5, <1>6

LEMMA CountStep ==
  ASSUME TypesInv, CountInv, [Next]_vars
  PROVE  CountInv'
<1>1. phase = NoPhase => phase.recorded = FALSE
  BY DEF NoPhase
<1>2. /\ "warmup" \in PhaseNames /\ "measure" \in PhaseNames /\ "cooldown" \in PhaseNames
      /\ "cooldown" \notin FileNames
  BY StagesAreNamed DEF PhaseNames
<1>3. ASSUME NEW t \in Threads, ThreadStep(t), UNCHANGED runner
      PROVE  CountInv'
  <2>1. /\ Began(t) \/ WentOn(t) \/ Finished(t)
        /\ phase # NoPhase /\ phase' # NoPhase /\ phase'.recorded = phase.recorded
    BY <1>3, ThreadStepForm
  <2>2. stage' = stage /\ stage \in PhaseNames
    BY <1>3, <2>1 DEF runner, TypesInv, PhaseInv
  <2>3. CASE phase.recorded
    <3>1. stage = "measure"
      BY <2>1, <2>3 DEF TypesInv, PhaseInv
    <3>2. /\ IsFiniteSet(rows') /\ IsFiniteSet(InHand')
          /\ begun' = Cardinality(rows') + Cardinality(InHand')
          /\ RowsAreOld'
      BY <1>3, <2>1, <2>3, MeasuredStep DEF CountInv
    <3> QED BY <1>2, <2>1, <2>2, <3>1, <3>2, StagesAreNamed DEF CountInv
  <2>4. CASE ~ phase.recorded
    <3>1. UNCHANGED <<rows, begun>>
      BY <2>1, <2>4 DEF Began, WentOn, Finished
    <3>2. stage # "measure"
      BY <2>1, <2>4 DEF TypesInv, PhaseInv
    <3> QED BY <2>1, <2>2, <2>4, <3>1, <3>2 DEF CountInv
  <2> QED BY <2>3, <2>4
<1>4. CASE ~ \E t \in Threads : ThreadStep(t) /\ UNCHANGED runner
  <2>1. CASE /\ rows' = {} /\ begun' = 0
             /\ stage' \in Ended \cup {"remove", "warmup"} /\ phase' = NoPhase
    <3>1. stage' \notin {"cooldown"} \cup FileNames
      BY <1>2, <2>1, StagesAreNamed DEF Ended, PhaseNames
    <3>2. stage' = "measure" => rows' = {} /\ begun' = 0
      BY <2>1
    <3> QED BY <2>1, <3>1, <3>2 DEF CountInv
  <2>2. CASE UNCHANGED <<rows, begun>>
    <3>1. CASE UNCHANGED <<stage, phase, threads>>
      BY <2>2, <3>1 DEF CountInv, InHand, RowsAreOld
    <3>2. CASE BeginPhase
      <4>1. /\ stage' = stage /\ stage \in PhaseNames /\ phase = NoPhase
            /\ threads' = [t \in Threads |-> [NoThread EXCEPT !.pc = "loop", !.due = clock]]
        BY <3>2, StagesAreNamed DEF BeginPhase
      <4>2. TypesInv'
        BY TypesStep
      <4>3. phase' # NoPhase /\ phase'.recorded => stage = "measure"
        BY <4>1, <4>2 DEF TypesInv, PhaseInv
      <4>4. phase' # NoPhase
        <5>1. PICK mix : phase' = [name |-> stage, run |-> <<execution, repeat>>,
                                   recorded |-> stage = "measure",
                                   mix |-> mix, next |-> 1, stop |-> clock + Durations[stage]]
          BY <3>2, Zenon DEF BeginPhase
        <5>2. phase'.name = stage /\ NoPhase.name = "none"
          BY <5>1 DEF NoPhase
        <5> QED BY <4>1, <5>2 DEF PhaseNames
      <4>5. stage = "measure" => /\ rows' = {} /\ begun' = 0 /\ InHand' = {}
                                 /\ RowsAreOld'
        <5>1. [NoThread EXCEPT !.pc = "loop", !.due = clock].pc = "loop"
          BY DEF NoThread
        <5>2. InHand' = {}
          BY <4>1, <5>1 DEF InHand, Handling
        <5> QED BY <2>2, <4>1, <5>2 DEF CountInv, RowsAreOld
      <4>6. stage = "measure" => begun' = Cardinality(rows') + Cardinality(InHand')
                                 /\ IsFiniteSet(rows') /\ IsFiniteSet(InHand')
        BY <4>5, FS_EmptySet
      <4> QED BY <2>2, <4>1, <4>3, <4>4, <4>5, <4>6, StagesAreNamed DEF CountInv
    <3>3. CASE EndPhase
      <4>1. /\ stage' = After(stage) /\ stage \in PhaseNames /\ phase' = NoPhase
            /\ phase # NoPhase /\ InHand = {}
        BY <3>3 DEF EndPhase, TypesInv, PhaseInv, InHand, Handling
      <4>2. CASE stage = "warmup"
        <5>1. stage' = "measure"
          BY <4>1, <4>2, StagesFollow
        <5> QED BY <1>2, <2>2, <4>1, <4>2, <5>1, StagesAreNamed DEF CountInv, NoPhase
      <4>3. CASE stage = "measure"
        <5>1. stage' = "cooldown" /\ phase.recorded
          BY <4>1, <4>3, StagesFollow DEF TypesInv, PhaseInv
        <5>2. begun = Cardinality(rows) + Cardinality(InHand) /\ IsFiniteSet(rows)
          BY <4>1, <5>1 DEF CountInv
        <5>3. begun = Cardinality(rows)
          BY <4>1, <5>2, FS_EmptySet, FS_CardinalityType
        <5> QED BY <2>2, <4>1, <5>1, <5>3 DEF CountInv
      <4>4. CASE stage = "cooldown"
        <5>1. stage' = Files[1]
          BY <4>1, <4>4, StagesFollow
        <5> QED BY <2>2, <4>1, <4>4, <5>1, FileList, StagesAreNamed DEF CountInv, PhaseNames
      <4> QED BY <4>1, <4>2, <4>3, <4>4 DEF PhaseNames
    <3>4. CASE SkipPhase
      <4>1. /\ stage' = After(stage) /\ stage \in PhaseNames /\ UNCHANGED <<phase, threads>>
            /\ phase = NoPhase
        BY <3>4, StagesAreNamed DEF SkipPhase, Busy, TypesInv, PhaseInv
      <4>2. CASE stage = "warmup"
        <5>1. stage' = "measure"
          BY <4>1, <4>2, StagesFollow
        <5> QED BY <1>2, <2>2, <4>1, <4>2, <5>1, StagesAreNamed DEF CountInv
      <4>3. CASE stage = "measure"
        <5>1. stage' = "cooldown" /\ rows = {} /\ begun = 0
          BY <4>1, <4>3, StagesFollow DEF CountInv
        <5> QED BY <2>2, <4>1, <5>1, FS_EmptySet DEF CountInv
      <4>4. CASE stage = "cooldown"
        <5>1. stage' = Files[1]
          BY <4>1, <4>4, StagesFollow
        <5> QED BY <2>2, <4>1, <4>4, <5>1, FileList, StagesAreNamed DEF CountInv, PhaseNames
      <4> QED BY <4>1, <4>2, <4>3, <4>4 DEF PhaseNames
    <3>5. CASE OpenFile \/ CloseFile \/ PrecheckFails \/ Invoke
      <4>1. /\ UNCHANGED phase /\ phase = NoPhase
            /\ stage' \notin PhaseNames /\ stage' # "remove"
            /\ stage' \in FileNames => stage \in FileNames
        <5>1. CASE OpenFile \/ CloseFile
          <6>1. stage \in FileNames /\ UNCHANGED phase
            BY <3>5, <5>1 DEF OpenFile, CloseFile, FilesUnchanged, traffic
          <6>2. phase = NoPhase
            BY <6>1, StagesAreNamed DEF TypesInv, PhaseInv
          <6>3. stage' = stage \/ stage' = After(stage)
            BY <5>1 DEF OpenFile, CloseFile
          <6>4. After(stage) \notin PhaseNames \cup {"remove"}
            <7>1. PICK i \in 1..5 : stage = Files[i]
              BY <6>1, FileList
            <7>2. CASE i = 5
              BY <7>1, <7>2, FileList, StagesFollow DEF PhaseNames
            <7>3. CASE i # 5
              <8>1. i \in 1..4 /\ i + 1 \in 1..5
                BY <7>3
              <8>2. After(stage) \in FileNames
                BY <7>1, <8>1, FileList, StagesFollow
              <8> QED BY <8>2, StagesAreNamed
            <7> QED BY <7>2, <7>3
          <6> QED BY <6>1, <6>2, <6>3, <6>4, StagesAreNamed
        <5>2. CASE PrecheckFails \/ Invoke
          <6>1. stage' \in {"refused", "prepare"} /\ UNCHANGED phase
                /\ stage \in {"prepare"} \cup Ended
            BY <5>2 DEF PrecheckFails, Invoke, traffic
          <6> QED BY <6>1, StagesAreNamed, FileList DEF TypesInv, PhaseInv, PhaseNames
        <5> QED BY <3>5, <5>1, <5>2
      <4> QED BY <1>2, <2>2, <4>1 DEF CountInv
    <3>6. CASE PrepareRunDir \/ Crash
      <4>1. rows' = {} /\ begun' = 0 /\ stage' \in Ended \cup {"remove", "warmup"}
        BY <3>6, StagesFollow DEF PrepareRunDir, PrepareUnchanged, FreshRun, Crash, Ended
      <4>2. phase' = NoPhase
        BY <3>6, StagesAreNamed DEF PrepareRunDir, PrepareUnchanged, Crash, TypesInv, PhaseInv
      <4> QED BY <2>1, <4>1, <4>2
    <3>9. CASE DirStep
      <4>1. /\ UNCHANGED <<phase, threads>> /\ (stage = "remove" \/ stage \in FileNames)
            /\ stage' = stage \/ (stage = "remove" /\ stage' = "warmup")
        BY <3>9, DirSteps, StagesFollow
      <4>2. CASE stage' = stage
        BY <3>1, <4>1, <4>2
      <4>3. CASE stage = "remove" /\ stage' = "warmup"
        <5>1. phase = NoPhase /\ phase' = NoPhase /\ rows' = {} /\ begun' = 0
          BY <2>2, <4>1, <4>3, StagesAreNamed DEF TypesInv, PhaseInv, CountInv
        <5> QED BY <2>1, <4>3, <5>1
      <4> QED BY <4>1, <4>2, <4>3
    <3>7. CASE Tick \/ ServeLate \/ \E j \in JobIds : EndJob(j)
      <4>1. UNCHANGED <<phase, threads>>
        BY <3>7 DEF Tick, ServeLate, EndJob
      <4>2. CASE UNCHANGED runner
        BY <3>1, <4>1, <4>2 DEF runner
      <4>3. CASE ~ UNCHANGED runner
        BY <4>3, <1>4, <3>2, <3>3, <3>4, <3>5, <3>6, <3>9 DEF Next, RunnerStep, DirStep, vars
      <4> QED BY <4>2, <4>3
    <3>8. CASE UNCHANGED vars
      BY <3>1, <3>8 DEF vars, traffic, runner
    <3> QED BY <1>4, <3>2, <3>3, <3>4, <3>5, <3>6, <3>7, <3>8, <3>9
            DEF Next, RunnerStep, DirStep
  <2>3. \/ /\ rows' = {} /\ begun' = 0
           /\ stage' \in Ended \cup {"remove", "warmup"} /\ phase' = NoPhase
        \/ UNCHANGED <<rows, begun>>
    BY <1>4, OtherSteps
  <2> QED BY <2>1, <2>2, <2>3
<1> QED BY <1>3, <1>4

\* Whatever fails and however late the last answers come: once the measured
\* phase is over the run has one row for each operation begun in it.
THEOREM OperationsHaveTheirRows == Spec => []EveryOperationHasItsRow
<1>1. Init => CountInv
  <2>1. ASSUME Init
        PROVE  CountInv
    <3>1. stage = "prepare" /\ phase = NoPhase
      BY <2>1 DEF Init
    <3> QED BY <3>1, StagesAreNamed DEF CountInv, PhaseNames
  <2> QED BY <2>1
<1>2. TypesInv /\ CountInv /\ [Next]_vars => CountInv'
  BY CountStep
<1>3. CountInv => EveryOperationHasItsRow
  BY DEF CountInv, EveryOperationHasItsRow
<1> QED BY <1>1, <1>2, <1>3, TypesInvariant, PTL DEF Spec
-----------------------------------------------------------------------------
(***************************************************************************)
(* Requests, keys and the jobs they created.  A request is outstanding     *)
(* while its thread waits for an answer or for the next attempt, and while *)
(* it may be executed late.                                                *)
(***************************************************************************)
Sending == {t \in Threads : threads[t].pc \in {"call", "backoff"}}

Outstanding == late \cup {Request(t) : t \in Sending}

\* A thread's first request of an operation.
Sent(t, method, target, j, key) ==
  /\ threads[t].pc = "begin" /\ threads[t].method = method
  /\ threads'[t].pc = "call" /\ threads'[t].op = threads[t].op
  /\ Request(t)' = [method |-> method, target |-> target, job |-> j, key |-> key,
                    of |-> Operation(t)]
  /\ Outstanding' = Outstanding \cup {Request(t)'}
  /\ UNCHANGED late

LEMMA OthersKeepSending ==
  ASSUME NEW t \in Threads, \A u \in Threads : u # t => threads'[u] = threads[u],
         phase'.name = phase.name /\ phase'.run = phase.run
  PROVE  /\ \A u \in Threads : u # t => Request(u)' = Request(u)
         /\ \A u \in Threads : u # t => (u \in Sending' <=> u \in Sending)
BY DEF Request, Operation, Sending

LEMMA SentRequest ==
  ASSUME TypesInv, NEW t \in Threads, NEW method, NEW target, NEW j, NEW key,
         threads[t].pc = "begin", threads[t].method = method,
         Call(t, method, target, j, key), UNCHANGED <<late, phase>>
  PROVE  Sent(t, method, target, j, key)
<1>1. /\ \A u \in Threads : u # t => threads'[u] = threads[u]
      /\ threads'[t].pc = "call" /\ threads'[t].op = threads[t].op
      /\ threads'[t].method = method /\ threads'[t].target = target
      /\ threads'[t].job = j /\ threads'[t].key = key
  BY CallingThread DEF TypesInv
<1>2. Operation(t)' = Operation(t)
  BY <1>1 DEF Operation
<1>3. Request(t)' = [method |-> method, target |-> target, job |-> j, key |-> key,
                     of |-> Operation(t)]
  BY <1>1, <1>2 DEF Request
<1>4. /\ \A u \in Threads : u # t => Request(u)' = Request(u)
      /\ \A u \in Threads : u # t => (u \in Sending' <=> u \in Sending)
  BY <1>1, OthersKeepSending
<1>5. t \notin Sending /\ t \in Sending'
  BY <1>1 DEF Sending
<1>6. Sending \subseteq Threads /\ Sending' \subseteq Threads
  BY DEF Sending
<1>7. ASSUME NEW req
      PROVE  req \in Outstanding' <=> req \in Outstanding \/ req = Request(t)'
  <2>1. req \in Outstanding' <=> req \in late \/ \E u \in Sending' : req = Request(u)'
    BY DEF Outstanding
  <2>2. req \in Outstanding <=> req \in late \/ \E u \in Sending : req = Request(u)
    BY DEF Outstanding
  <2>3. (\E u \in Sending' : req = Request(u)')
          <=> (\E u \in Sending : req = Request(u)) \/ req = Request(t)'
    BY <1>4, <1>5, <1>6
  <2> QED BY <2>1, <2>2, <2>3
<1>8. Outstanding' = Outstanding \cup {Request(t)'}
  BY <1>7
<1> QED BY <1>1, <1>3, <1>8 DEF Sent

\* Requests are not changed from one attempt to the next.
LEMMA NothingSent ==
  ASSUME NEW t \in Threads, \A u \in Threads : u # t => threads'[u] = threads[u],
         phase'.name = phase.name /\ phase'.run = phase.run,
         late' = late \/ (t \in Sending /\ late' = late \cup {Request(t)}),
         t \in Sending' => t \in Sending /\ Request(t)' = Request(t)
  PROVE  Outstanding' \subseteq Outstanding
<1>1. /\ \A u \in Threads : u # t => Request(u)' = Request(u)
      /\ \A u \in Threads : u # t => (u \in Sending' <=> u \in Sending)
  BY OthersKeepSending
<1>2. Sending \subseteq Threads /\ Sending' \subseteq Threads
  BY DEF Sending
<1>3. ASSUME NEW req \in Outstanding'
      PROVE  req \in Outstanding
  <2>1. CASE req \in late'
    BY <2>1 DEF Outstanding
  <2>2. CASE req \notin late'
    <3>1. PICK u \in Sending' : req = Request(u)'
      BY <2>2 DEF Outstanding
    <3>2. u \in Sending /\ req = Request(u)
      BY <1>1, <1>2, <3>1
    <3> QED BY <3>2 DEF Outstanding
  <2> QED BY <2>1, <2>2
<1> QED BY <1>3

LEMMA RequestKept ==
  ASSUME NEW t \in Threads, SameCall(t), threads'[t].method = threads[t].method,
         phase'.name = phase.name /\ phase'.run = phase.run
  PROVE  Request(t)' = Request(t)
BY DEF SameCall, Request, Operation

\* What a thread's step does to the requests.
LEMMA ThreadRequests ==
  ASSUME TypesInv, NEW t \in Threads, ThreadStep(t), UNCHANGED runner
  PROVE  \/ \E target \in Servers :
              ResolveSubmitTarget(BuildKey(t, threads[t].op), target)
              /\ Sent(t, "SubmitJob", target, NoJob, BuildKey(t, threads[t].op))
         \/ \E method \in Methods \ {"SubmitJob"} : \E target, j :
              Sent(t, method, target, j, NoKey)
         \/ Outstanding' \subseteq Outstanding
<1>1. TrafficTypeOK /\ phase'.name = phase.name /\ phase'.run = phase.run
      /\ \A u \in Threads : u # t => threads'[u] = threads[u]
  BY ThreadStepForm DEF TypesInv
<1>2. CASE ExecuteSubmit(t)
  <2>1. UNCHANGED <<late, phase>> /\ threads[t].pc = "begin" /\ threads[t].method = "SubmitJob"
    BY <1>2 DEF ExecuteSubmit, Submit, CallUnchanged
  <2>2. PICK target \in Servers :
          /\ ResolveSubmitTarget(BuildKey(t, threads[t].op), target)
          /\ Call(t, "SubmitJob", target, NoJob, BuildKey(t, threads[t].op))
    BY <1>2 DEF ExecuteSubmit, Submit
  <2>3. Sent(t, "SubmitJob", target, NoJob, BuildKey(t, threads[t].op))
    BY <2>1, <2>2, SentRequest
  <2> QED BY <2>2, <2>3
<1>3. CASE ExecuteListJobs(t)
  <2>1. UNCHANGED <<late, phase>> /\ threads[t].pc = "begin" /\ threads[t].method = "ListJobs"
    BY <1>3 DEF ExecuteListJobs, CallUnchanged
  <2>2. PICK target : Call(t, "ListJobs", target, NoJob, NoKey)
    BY <1>3 DEF ExecuteListJobs
  <2>3. Sent(t, "ListJobs", target, NoJob, NoKey)
    BY <2>1, <2>2, SentRequest
  <2>4. "ListJobs" \in Methods \ {"SubmitJob"}
    BY DEF Methods
  <2> QED BY <2>3, <2>4
<1>4. ASSUME NEW method \in JobScopedMethods, ExecuteJobCall(t, method)
      PROVE  \E m \in Methods \ {"SubmitJob"} : \E target, j : Sent(t, m, target, j, NoKey)
  <2>1. UNCHANGED <<late, phase>> /\ threads[t].pc = "begin" /\ threads[t].method = method
    BY <1>4 DEF ExecuteJobCall, CallUnchanged
  <2>2. PICK target, j : Call(t, method, target, j, NoKey)
    BY <1>4 DEF ExecuteJobCall
  <2>3. Sent(t, method, target, j, NoKey)
    BY <2>1, <2>2, SentRequest
  <2>4. method \in Methods \ {"SubmitJob"}
    BY DEF Methods, JobScopedMethods
  <2> QED BY <2>3, <2>4
<1>5. CASE Begin(t) \/ EndLoop(t)
  <2>1. UNCHANGED late
    BY <1>5 DEF Begin, EndLoop
  <2>2. threads'[t].pc \in {"begin", "done"}
    BY <1>1, <1>5, BeginningThread, EndingThread
  <2>3. t \notin Sending'
    BY <2>2 DEF Sending
  <2> QED BY <1>1, <2>1, <2>3, NothingSent
<1>6. CASE Retry(t)
  <2>1. UNCHANGED late /\ t \in Sending
    BY <1>6 DEF Retry, CallUnchanged, Sending
  <2>2. SameCall(t) /\ threads'[t].method = threads[t].method
    BY <1>1, <1>6, RetryingThread
  <2>3. Request(t)' = Request(t)
    BY <1>1, <2>2, RequestKept
  <2> QED BY <1>1, <2>1, <2>3, NothingSent
<1>7. CASE Answer(t)
  <2>1. UNCHANGED late
    BY <1>7 DEF Answer
  <2>2. \E code, j, terminal : Finish(t, code, j, terminal)
    BY <1>7 DEF Answer
  <2>3. threads'[t].pc = "loop"
    BY <1>1, <2>2, FinishedThread
  <2>4. t \notin Sending'
    BY <2>3 DEF Sending
  <2> QED BY <1>1, <2>1, <2>4, NothingSent
<1>8. CASE Fail(t)
  <2>1. late' = late \cup {Request(t)} /\ t \in Sending
    BY <1>8 DEF Fail, Sending
  <2>2. CASE MayRetry(threads[t]) /\ threads[t].attempt < MaxAttempts
    <3>1. Set(t, [threads[t] EXCEPT !.pc = "backoff"])
      BY <1>8, <2>2 DEF Fail
    <3>2. SameCall(t) /\ threads'[t].method = threads[t].method
      BY <1>1, <3>1, WaitingThread
    <3>3. Request(t)' = Request(t)
      BY <1>1, <3>2, RequestKept
    <3> QED BY <1>1, <2>1, <3>3, NothingSent
  <2>3. CASE ~ (MayRetry(threads[t]) /\ threads[t].attempt < MaxAttempts)
    <3>1. Finish(t, "UNAVAILABLE", threads[t].job, FALSE)
      BY <1>8, <2>3 DEF Fail
    <3>2. threads'[t].pc = "loop"
      BY <1>1, <3>1, FinishedThread
    <3>3. t \notin Sending'
      BY <3>2 DEF Sending
    <3> QED BY <1>1, <2>1, <3>3, NothingSent
  <2> QED BY <2>2, <2>3
<1> QED BY <1>2, <1>3, <1>4, <1>5, <1>6, <1>7, <1>8, ThreadSteps DEF LocalStep

LEMMA RequestsLeftAlone ==
  ASSUME UNCHANGED <<threads, phase>>, late' \subseteq late
  PROVE  Outstanding' \subseteq Outstanding
<1>1. Sending' = Sending /\ \A t \in Threads : Request(t)' = Request(t)
  BY DEF Sending, Request, Operation
<1>2. Sending \subseteq Threads
  BY DEF Sending
<1> QED BY <1>1, <1>2 DEF Outstanding

LEMMA OtherRequests ==
  ASSUME TypesInv, [Next]_vars, ~ \E t \in Threads : ThreadStep(t) /\ UNCHANGED runner
  PROVE  Outstanding' \subseteq Outstanding
<1>1. CASE PrepareRunDir \/ DirStep \/ SkipPhase \/ OpenFile \/ CloseFile \/ PrecheckFails
           \/ Invoke \/ Tick \/ ServeLate \/ (\E j \in JobIds : EndJob(j)) \/ UNCHANGED vars
  <2>1. UNCHANGED <<threads, phase>> /\ late' \subseteq late
    BY <1>1, DirSteps
       DEF PrepareRunDir, PrepareUnchanged, SkipPhase, PhaseUnchanged, OpenFile, CloseFile,
           FilesUnchanged,
                PrecheckFails, Invoke, Tick, ServeLate, EndJob, vars, traffic
  <2> QED BY <2>1, RequestsLeftAlone
<1>2. CASE BeginPhase \/ EndPhase
  <2>1. UNCHANGED late
    BY <1>2 DEF BeginPhase, EndPhase, PhaseUnchanged
  <2>2. PICK th : threads' = [t \in Threads |-> th] /\ th.pc \notin {"call", "backoff"}
    <3>1. NoThread.pc = "done" /\ [NoThread EXCEPT !.pc = "loop", !.due = clock].pc = "loop"
      BY DEF NoThread
    <3> QED BY <1>2, <3>1 DEF BeginPhase, EndPhase
  <2>3. Sending' = {}
    BY <2>2 DEF Sending
  <2> QED BY <2>1, <2>3 DEF Outstanding
<1>3. CASE Crash
  <2>1. NoThread.pc = "done"
    BY DEF NoThread
  <2>2. Sending' = {}
    BY <1>3, <2>1 DEF Crash, Sending
  <2>3. ASSUME NEW req \in late'
        PROVE  req \in Outstanding
    <3>1. req \in late \/ \E t \in Threads : req = Request(t) /\ threads[t].pc = "call"
      BY <1>3, <2>3 DEF Crash
    <3> QED BY <3>1 DEF Outstanding, Sending
  <2> QED BY <2>2, <2>3 DEF Outstanding
<1> QED BY <1>1, <1>2, <1>3 DEF Next, RunnerStep, DirStep

\* Where servers and authors may change.
LEMMA ServersChange ==
  ASSUME TypesInv, [Next]_vars
  PROVE  \/ UNCHANGED <<created, bound, author>>
         \/ \E req \in Outstanding : \E reply \in Replies :
              /\ Serve(req, reply)
              /\ \/ \E t \in Sending : /\ Answer(t) /\ req = Request(t) /\ UNCHANGED runner
                                       /\ Finish(t, reply.code, reply.job, reply.terminal)
                 \/ /\ ServeLate /\ req \in late /\ late' = late \ {req}
                    /\ UNCHANGED <<threads, phase, rows, stage, live, clock>>
<1>1. CASE RunnerStep \/ PrecheckFails \/ Crash \/ Invoke \/ Tick
           \/ (\E j \in JobIds : EndJob(j)) \/ UNCHANGED vars
  BY <1>1, DirSteps DEF RunnerStep, DirStep, PrepareRunDir, PrepareUnchanged, BeginPhase,
              EndPhase, SkipPhase, PhaseUnchanged,
              OpenFile, CloseFile, FilesUnchanged, PrecheckFails, Invoke, Crash, Tick, EndJob,
              vars, traffic, routing
<1>2. CASE ServeLate /\ UNCHANGED runner
  <2>1. PICK req \in late, reply \in Replies : Serve(req, reply) /\ late' = late \ {req}
    BY <1>2 DEF ServeLate
  <2>2. UNCHANGED <<threads, phase, rows, stage, live, clock>>
    BY <1>2 DEF ServeLate, runner
  <2> QED BY <1>2, <2>1, <2>2 DEF Outstanding
<1>3. ASSUME NEW t \in Threads, ThreadStep(t), UNCHANGED runner
      PROVE  \/ UNCHANGED <<created, bound, author>>
             \/ \E req \in Outstanding : \E reply \in Replies :
                  Serve(req, reply) /\ t \in Sending /\ Answer(t) /\ req = Request(t)
                  /\ Finish(t, reply.code, reply.job, reply.terminal)
  <2>1. CASE LocalStep(t)
    BY <2>1, LocalStepChanges
  <2>2. CASE Fail(t)
    BY <2>2 DEF Fail, routing
  <2>3. CASE Answer(t)
    <3>1. PICK reply \in Replies :
            Serve(Request(t), reply) /\ Finish(t, reply.code, reply.job, reply.terminal)
      BY <2>3 DEF Answer
    <3>2. t \in Sending /\ Request(t) \in Outstanding
      BY <2>3 DEF Answer, Sending, Outstanding
    <3> QED BY <2>3, <3>1, <3>2
  <2> QED BY <1>3, <2>1, <2>2, <2>3, ThreadSteps
<1> QED BY <1>1, <1>2, <1>3 DEF Next

-----------------------------------------------------------------------------
(***************************************************************************)
(* A key names one operation.  It holds the time at which its operation    *)
(* began to submit, and the phases of a run do not overlap in time.        *)
(***************************************************************************)
PhaseStart == phase.stop - Durations[phase.name]

TimeInv ==
  phase # NoPhase =>
    /\ PhaseStart <= clock
    /\ \A t \in Threads : /\ threads[t].pc = "done" => phase.stop <= clock
                          /\ threads[t].pc = "begin" => clock < phase.stop

LEMMA TimeStep ==
  ASSUME TypesInv, TimeInv, [Next]_vars
  PROVE  TimeInv'
<1>0. /\ clock \in Nat /\ phase.stop \in Nat
      /\ \A p \in PhaseNames : Durations[p] \in Nat
      /\ phase # NoPhase => phase.name \in PhaseNames
  BY ClockMeasures DEF TypesInv, TrafficTypeOK, PhaseInv
<1>1. ASSUME NEW t \in Threads, ThreadStep(t), UNCHANGED runner
      PROVE  TimeInv'
  <2>1. /\ \A u \in Threads : u # t => threads'[u] = threads[u]
        /\ phase # NoPhase /\ phase'.name = phase.name /\ phase'.run = phase.run
        /\ Began(t) \/ WentOn(t) \/ Finished(t)
    BY <1>1, ThreadStepForm
  <2>2. UNCHANGED clock
    BY <1>1, ThreadSteps, LocalStepChanges DEF Answer, Fail
  <2>3. phase'.stop = phase.stop
    <3>1. threads[t].pc # "done" /\ (phase' = phase \/ TakeMethod)
      BY <1>1, ThreadSteps, LocalStepChanges DEF Answer, Fail
    <3> QED BY <1>1, <3>1, PhaseGoesOn DEF TypesInv, runner
  <2>4. threads'[t].pc = "begin" => clock < phase.stop
    <3>1. CASE Begin(t)
      BY <3>1 DEF Begin
    <3>2. CASE ~ Begin(t)
      <4>1. CASE LocalStep(t)
        <5>1. threads'[t].pc # "begin"
          <6>1. CASE EndLoop(t)
            BY <6>1, EndingThread DEF TypesInv
          <6>2. CASE Retry(t)
            BY <6>2, RetryingThread DEF TypesInv
          <6>3. ASSUME NEW method, NEW target, NEW j, NEW key, Call(t, method, target, j, key)
                PROVE  threads'[t].pc # "begin"
            BY <6>3, CallingThread DEF TypesInv
          <6> QED BY <3>2, <4>1, <6>1, <6>2, <6>3
                  DEF LocalStep, ExecuteSubmit, Submit, ExecuteListJobs, ExecuteJobCall
        <5> QED BY <5>1
      <4>2. CASE Answer(t) \/ Fail(t)
        BY <2>1, <4>2 DEF Answer, Fail, Began, WentOn, Finished
      <4> QED BY <1>1, <4>1, <4>2, ThreadSteps
    <3> QED BY <3>1, <3>2
  <2>5. threads'[t].pc = "done" => phase.stop <= clock
    <3>1. CASE EndLoop(t)
      BY <1>0, <3>1 DEF EndLoop
    <3>2. CASE Begin(t)
      BY <3>2, BeginningThread DEF TypesInv
    <3>3. CASE Retry(t)
      BY <3>3, RetryingThread DEF TypesInv
    <3>4. ASSUME NEW method, NEW target, NEW j, NEW key, Call(t, method, target, j, key)
          PROVE  threads'[t].pc # "done"
      BY <3>4, CallingThread DEF TypesInv
    <3>5. ASSUME NEW code, NEW j, NEW terminal, Finish(t, code, j, terminal)
          PROVE  threads'[t].pc # "done"
      BY <3>5, FinishedThread DEF TypesInv
    <3>6. CASE Set(t, [threads[t] EXCEPT !.pc = "backoff"])
      BY <3>6, WaitingThread DEF TypesInv
    <3> QED BY <1>1, <3>1, <3>2, <3>3, <3>4, <3>5, <3>6, ThreadSteps
            DEF LocalStep, ExecuteSubmit, Submit, ExecuteListJobs, ExecuteJobCall, Answer, Fail
  <2> QED BY <2>1, <2>2, <2>3, <2>4, <2>5 DEF TimeInv, PhaseStart
<1>2. CASE PrepareRunDir \/ DirStep \/ SkipPhase \/ OpenFile \/ CloseFile \/ PrecheckFails
           \/ ServeLate \/ (\E j \in JobIds : EndJob(j)) \/ UNCHANGED vars
  <2>1. UNCHANGED <<threads, phase, clock>>
    BY <1>2, DirSteps
       DEF PrepareRunDir, PrepareUnchanged, SkipPhase, PhaseUnchanged, OpenFile, CloseFile,
           FilesUnchanged, PrecheckFails, ServeLate, EndJob, vars, traffic
  <2> QED BY <2>1 DEF TimeInv, PhaseStart
<1>3. CASE EndPhase \/ Crash
  BY <1>3 DEF EndPhase, Crash, TimeInv
<1>6. CASE Invoke
  <2>1. phase = NoPhase
    BY <1>6, StagesAreNamed DEF Invoke, TypesInv, PhaseInv
  <2> QED BY <1>6, <2>1 DEF Invoke, TimeInv
<1>4. CASE BeginPhase
  <2>1. /\ stage \in PhaseNames /\ UNCHANGED clock
        /\ threads' = [t \in Threads |-> [NoThread EXCEPT !.pc = "loop", !.due = clock]]
    BY <1>4, StagesAreNamed DEF BeginPhase, PhaseUnchanged
  <2>2. PICK mix : phase' = [name |-> stage, run |-> <<execution, repeat>>,
                             recorded |-> stage = "measure", mix |-> mix,
                             next |-> 1, stop |-> clock + Durations[stage]]
    BY <1>4, Zenon DEF BeginPhase
  <2>3. phase'.name = stage /\ phase'.stop = clock + Durations[stage]
    BY <2>2
  <2>4. [NoThread EXCEPT !.pc = "loop", !.due = clock].pc = "loop"
    BY DEF NoThread
  <2>5. \A t \in Threads : threads'[t].pc = "loop"
    BY <2>1, <2>4
  <2>6. PICK d \in Nat : d = Durations[stage]
    BY <1>0, <2>1
  <2>7. (clock + d) - d <= clock
    BY <1>0
  <2> QED BY <2>1, <2>3, <2>5, <2>6, <2>7 DEF TimeInv, PhaseStart
<1>5. CASE Tick
  <2>1. UNCHANGED <<threads, phase>> /\ clock' = clock + 1
        /\ \A t \in Threads : threads[t].pc # "begin"
    BY <1>5 DEF Tick, Sleeps, Waits
  <2>2. ASSUME phase # NoPhase
        PROVE  PhaseStart <= clock + 1 /\ (phase.stop <= clock => phase.stop <= clock + 1)
    <3>1. PICK d \in Nat : d = Durations[phase.name]
      BY <1>0, <2>2
    <3>2. phase.stop - d <= clock
      BY <2>2, <3>1 DEF TimeInv, PhaseStart
    <3> QED BY <1>0, <3>1, <3>2 DEF PhaseStart
  <2> QED BY <2>1, <2>2 DEF TimeInv, PhaseStart
<1> QED BY <1>1, <1>2, <1>3, <1>4, <1>5, <1>6 DEF Next, RunnerStep, DirStep

IsSigned(key, op) ==
  /\ key # NoKey
  /\ \/ \E req \in Outstanding : key = req.key /\ op = req.of
     \/ \E b \in bound : key = b[2] /\ op \in author[b[3]]

\* The operation a key may be of.
KeyFits(key, op) ==
  /\ op = <<op[1], key[1], key[2], op[4]>> /\ key[1] \in Threads /\ key[3] \in Nat
  /\ key[3] <= clock
  /\ phase = NoPhase => key[3] < clock \/ stage = "crashed"
  /\ phase # NoPhase =>
       /\ key[3] < phase.stop
       /\ (op[1] = phase.name /\ op[4] = phase.run) \/ key[3] < PhaseStart

SignedInv ==
  /\ \A key, op : IsSigned(key, op) => KeyFits(key, op)
  /\ \A key, op, other : IsSigned(key, op) /\ IsSigned(key, other) => op = other

AuthorsInv ==
  /\ DOMAIN author = JobIds
  /\ \A j \in JobIds : j \notin Issued => author[j] = {}
  /\ \A j \in Issued : \E op : author[j] = {op}

LEMMA IssuedAreIds ==
  ASSUME TypesInv
  PROVE  /\ Issued \subseteq JobIds
         /\ \A b \in bound : b[3] \in Issued
BY DEF TypesInv, TrafficTypeOK, ServersTypeOK, Issued

\* An executed request gives a job to its operation, or finds one under its
\* key, or leaves all as it is.
LEMMA ServedOutcome ==
  ASSUME TypesInv, NEW req \in Outstanding, NEW reply \in Replies, Serve(req, reply)
  PROVE  \/ /\ req.method = "SubmitJob" /\ UNCHANGED <<created, bound, author>>
            /\ <<req.target, req.key, reply.job>> \in bound
         \/ /\ req.method = "SubmitJob" /\ BoundTo(req.target, req.key) = {}
            /\ reply.job \in JobIds \ Issued /\ Issued' = Issued \cup {reply.job}
            /\ author' = [author EXCEPT ![reply.job] = @ \cup {req.of}]
            /\ bound' = IF req.key = NoKey THEN bound
                                           ELSE bound \cup {<<req.target, req.key, reply.job>>}
         \/ /\ UNCHANGED <<created, bound, author>>
            /\ req.method = "SubmitJob" => reply.code # "OK"
<1>1. CASE ServeSubmit(req, reply)
  <2>1. req.method = "SubmitJob"
    BY <1>1 DEF ServeSubmit
  <2>2. CASE Deduplicate(req.target, req.key, reply.job) /\ UNCHANGED author
    BY <2>1, <2>2 DEF Deduplicate, BoundTo
  <2>3. CASE Create(req.target, req.key, reply.job)
             /\ author' = [author EXCEPT ![reply.job] = @ \cup {req.of}]
    <3>1. /\ created' = [created EXCEPT ![req.target] = @ \cup {reply.job}]
          /\ reply.job \in JobIds \ Issued
      BY <2>3 DEF Create
    <3>2. req.target \in Servers
      <4>1. CASE req \in late
        BY <4>1 DEF TypesInv, TrafficTypeOK
      <4>2. CASE req \notin late
        <5>1. PICK t \in Sending : req = Request(t)
          BY <4>2 DEF Outstanding
        <5> QED BY <5>1, RequestParts DEF Sending, TypesInv, TrafficTypeOK, ThreadType
      <4> QED BY <4>1, <4>2
    <3>3. Issued' = Issued \cup {reply.job}
      <4>1. created \in [Servers -> SUBSET JobIds]
        BY DEF TypesInv, TrafficTypeOK, ServersTypeOK
      <4> QED BY <3>1, <3>2, <4>1 DEF Issued
    <3> QED BY <2>1, <2>3, <3>1, <3>3 DEF Create
  <2>4. CASE reply = Reply("INTERNAL", NoJob, FALSE) /\ UNCHANGED author
             /\ DrawFails(req.target, req.key)
    BY <2>4 DEF Reply, DrawFails
  <2> QED BY <1>1, <2>2, <2>3, <2>4 DEF ServeSubmit
<1>2. CASE ServeJobCall(req, reply)
  BY <1>2 DEF ServeJobCall, JobScopedMethods, routing
<1>3. CASE ServeList(req, reply)
  BY <1>3 DEF ServeList, routing
<1> QED BY <1>1, <1>2, <1>3 DEF Serve

LEMMA ServedAuthors ==
  ASSUME TypesInv, AuthorsInv, SignedInv,
         NEW req \in Outstanding, NEW reply \in Replies, Serve(req, reply)
  PROVE  /\ AuthorsInv' /\ Issued \subseteq Issued'
         /\ \A j \in Issued : author'[j] = author[j]
         /\ req.method = "SubmitJob" /\ reply.code = "OK"
              => reply.job \in Issued' /\ author'[reply.job] = {req.of}
         /\ \A b \in bound' : b \in bound \/ (/\ b[2] = req.key /\ b[2] # NoKey
                                             /\ author'[b[3]] = {req.of})
<1>1. CASE /\ req.method = "SubmitJob" /\ UNCHANGED <<created, bound, author>>
           /\ <<req.target, req.key, reply.job>> \in bound
  <2>1. Issued' = Issued
    BY <1>1 DEF Issued
  <2>2. reply.job \in Issued /\ req.key # NoKey
    BY <1>1, IssuedAreIds DEF TypesInv, TrafficTypeOK, ServersTypeOK
  <2>3. PICK op : author[reply.job] = {op}
    BY <2>2 DEF AuthorsInv
  <2>4. IsSigned(req.key, op) /\ IsSigned(req.key, req.of)
    BY <1>1, <2>2, <2>3 DEF IsSigned
  <2>5. op = req.of
    BY <2>4 DEF SignedInv
  <2>6. AuthorsInv'
    BY <1>1, <2>1 DEF AuthorsInv
  <2> QED BY <1>1, <2>1, <2>2, <2>3, <2>5, <2>6
<1>2. CASE /\ req.method = "SubmitJob" /\ BoundTo(req.target, req.key) = {}
           /\ reply.job \in JobIds \ Issued /\ Issued' = Issued \cup {reply.job}
           /\ author' = [author EXCEPT ![reply.job] = @ \cup {req.of}]
           /\ bound' = IF req.key = NoKey THEN bound
                                          ELSE bound \cup {<<req.target, req.key, reply.job>>}
  <2>1. author[reply.job] = {} /\ DOMAIN author = JobIds
    BY <1>2 DEF AuthorsInv
  <2>2. /\ DOMAIN author' = JobIds /\ author'[reply.job] = {req.of}
        /\ \A j \in JobIds : j # reply.job => author'[j] = author[j]
    BY <1>2, <2>1
  <2>3. \A j \in Issued : j # reply.job /\ j \in JobIds
    BY <1>2, IssuedAreIds
  <2>4. AuthorsInv'
    BY <1>2, <2>2, <2>3 DEF AuthorsInv
  <2> QED BY <1>2, <2>2, <2>3, <2>4
<1>3. CASE /\ UNCHANGED <<created, bound, author>>
           /\ req.method = "SubmitJob" => reply.code # "OK"
  <2>1. Issued' = Issued
    BY <1>3 DEF Issued
  <2> QED BY <1>3, <2>1 DEF AuthorsInv
<1> QED BY <1>1, <1>2, <1>3, ServedOutcome

\* No step but the start of a submission signs anything.
LEMMA NothingSigned ==
  ASSUME TypesInv, AuthorsInv, SignedInv, [Next]_vars, Outstanding' \subseteq Outstanding,
         NEW key, NEW op, IsSigned(key, op)'
  PROVE  IsSigned(key, op)
<1>1. key # NoKey
  BY DEF IsSigned
<1>2. CASE \E req \in Outstanding' : key = req.key /\ op = req.of
  BY <1>1, <1>2 DEF IsSigned
<1>3. ASSUME NEW b \in bound', key = b[2], op \in author'[b[3]]
      PROVE  IsSigned(key, op)
  <2>1. CASE UNCHANGED <<created, bound, author>>
    BY <1>1, <1>3, <2>1 DEF IsSigned
  <2>2. ASSUME NEW req \in Outstanding, NEW reply \in Replies, Serve(req, reply)
        PROVE  IsSigned(key, op)
    <3>1. /\ \A j \in Issued : author'[j] = author[j]
          /\ b \in bound \/ (b[2] = req.key /\ author'[b[3]] = {req.of})
      BY <1>3, <2>2, ServedAuthors
    <3>2. CASE b \in bound
      BY <1>1, <1>3, <3>1, <3>2, IssuedAreIds DEF IsSigned
    <3>3. CASE b[2] = req.key /\ author'[b[3]] = {req.of}
      BY <1>1, <1>3, <3>3 DEF IsSigned
    <3> QED BY <3>1, <3>2, <3>3
  <2> QED BY <2>1, <2>2, ServersChange
<1> QED BY <1>2, <1>3 DEF IsSigned

LEMMA ThreadKeepsPhase ==
  ASSUME TypesInv, NEW t \in Threads, ThreadStep(t), UNCHANGED runner
  PROVE  /\ phase # NoPhase /\ phase' # NoPhase
         /\ phase'.name = phase.name /\ phase'.run = phase.run /\ phase'.stop = phase.stop
         /\ UNCHANGED clock
<1>1. threads[t].pc # "done" /\ (phase' = phase \/ TakeMethod) /\ UNCHANGED clock
  BY ThreadSteps, LocalStepChanges DEF Answer, Fail
<1>2. phase'.stop = phase.stop
  BY <1>1, PhaseGoesOn DEF TypesInv, runner
<1> QED BY <1>1, <1>2, ThreadStepForm

LEMMA KeysStillFit ==
  ASSUME TypesInv, TimeInv, [Next]_vars,
         NEW key, NEW op, KeyFits(key, op)
  PROVE  KeyFits(key, op)'
<1>0. /\ clock \in Nat /\ phase.stop \in Nat /\ key[3] \in Nat /\ key[1] \in Threads
      /\ op = <<op[1], key[1], key[2], op[4]>>
      /\ \A p \in PhaseNames : Durations[p] \in Nat
      /\ phase # NoPhase => phase.name \in PhaseNames
  BY ClockMeasures DEF TypesInv, TrafficTypeOK, PhaseInv, KeyFits
<1>1. ASSUME NEW t \in Threads, ThreadStep(t), UNCHANGED runner
      PROVE  KeyFits(key, op)'
  BY <1>1, ThreadKeepsPhase DEF KeyFits, PhaseStart
<1>2. CASE UNCHANGED <<phase, clock>> /\ (phase = NoPhase => stage # "crashed" \/ stage' = stage)
  BY <1>2 DEF KeyFits, PhaseStart
<1>3. CASE PrepareRunDir \/ DirStep \/ SkipPhase \/ OpenFile \/ CloseFile \/ PrecheckFails
           \/ ((ServeLate \/ \E j \in JobIds : EndJob(j)) /\ UNCHANGED runner) \/ UNCHANGED vars
  <2>1. UNCHANGED <<phase, clock>>
    BY <1>3, DirSteps DEF PrepareRunDir, PrepareUnchanged, SkipPhase, PhaseUnchanged, OpenFile,
                CloseFile, FilesUnchanged, PrecheckFails, ServeLate, EndJob, vars, traffic
  <2>2. stage \notin Ended \/ stage' = stage
    BY <1>3, DirSteps, StagesAreNamed
       DEF PrepareRunDir, SkipPhase, OpenFile, CloseFile, PrecheckFails, vars, runner
  <2> QED BY <1>2, <2>1, <2>2 DEF Ended
<1>4. CASE Crash
  BY <1>4 DEF Crash, KeyFits
<1>8. CASE Invoke
  <2>1. phase = NoPhase /\ phase' = NoPhase /\ clock' = clock + 1
    BY <1>8, StagesAreNamed DEF Invoke, TypesInv, PhaseInv
  <2>2. PICK k \in Nat : k = key[3]
    BY <1>0
  <2>3. k <= clock
    BY <2>2 DEF KeyFits
  <2>4. k < clock + 1 /\ k <= clock + 1
    BY <1>0, <2>3
  <2> QED BY <1>0, <2>1, <2>2, <2>4 DEF KeyFits
<1>5. CASE EndPhase
  <2>1. phase' = NoPhase /\ phase # NoPhase /\ UNCHANGED clock
        /\ \A t \in Threads : threads[t].pc = "done"
    BY <1>5 DEF EndPhase, PhaseUnchanged
  <2>2. phase.stop <= clock /\ key[3] < phase.stop /\ key[3] <= clock
    BY <1>0, <2>1 DEF TimeInv, KeyFits
  <2>3. key[3] < clock
    <3>1. PICK k \in Nat : k = key[3]
      BY <1>0
    <3> QED BY <1>0, <2>2, <3>1
  <2> QED BY <1>0, <2>1, <2>2, <2>3 DEF KeyFits
<1>6. CASE BeginPhase
  <2>1. phase = NoPhase /\ stage \in PhaseNames /\ UNCHANGED clock
    BY <1>6, StagesAreNamed DEF BeginPhase, PhaseUnchanged
  <2>2. PICK mix : phase' = [name |-> stage, run |-> <<execution, repeat>>,
                             recorded |-> stage = "measure", mix |-> mix,
                             next |-> 1, stop |-> clock + Durations[stage]]
    BY <1>6, Zenon DEF BeginPhase
  <2>3. phase'.name = stage /\ phase'.stop = clock + Durations[stage]
    BY <2>2
  <2>4. PICK d \in Nat, k \in Nat : d = Durations[stage] /\ k = key[3]
    BY <1>0, <2>1
  <2>5. k < clock
    BY <2>1, <2>4 DEF KeyFits, PhaseNames
  <2>6. k <= clock /\ k < clock + d /\ k < (clock + d) - d
    BY <1>0, <2>5
  <2>7. phase' # NoPhase
    <3>1. NoPhase.name = "none"
      BY DEF NoPhase
    <3> QED BY <2>1, <2>3, <3>1 DEF PhaseNames
  <2> QED BY <1>0, <2>1, <2>3, <2>4, <2>6, <2>7 DEF KeyFits, PhaseStart
<1>7. CASE Tick /\ UNCHANGED runner
  <2>1. UNCHANGED <<phase, stage>> /\ clock' = clock + 1
    BY <1>7 DEF Tick, runner
  <2>2. PICK k \in Nat : k = key[3]
    BY <1>0
  <2>3. (k < clock => k < clock + 1) /\ (k <= clock => k <= clock + 1)
    BY <1>0
  <2> QED BY <1>0, <2>1, <2>2, <2>3 DEF KeyFits, PhaseStart
<1> QED BY <1>1, <1>3, <1>4, <1>5, <1>6, <1>7, <1>8 DEF Next, RunnerStep, DirStep

\* The key of an operation that submits now is its own.
LEMMA KeyIsFresh ==
  ASSUME TypesInv, TimeInv, SignedInv, NEW t \in Threads, phase # NoPhase,
         threads[t].pc = "begin", NEW key, key = BuildKey(t, threads[t].op), key # NoKey
  PROVE  /\ KeyFits(key, Operation(t))
         /\ \A op : IsSigned(key, op) => op = Operation(t)
<1>0. /\ clock \in Nat /\ phase.stop \in Nat /\ Durations[phase.name] \in Nat
      /\ PhaseStart <= clock /\ clock < phase.stop
  BY ClockMeasures DEF TypesInv, TrafficTypeOK, PhaseInv, TimeInv
<1>1. key = <<t, threads[t].op, clock>>
  BY DEF BuildKey
<1>2. key[1] = t /\ key[2] = threads[t].op /\ key[3] = clock
  BY <1>1
<1>3. Operation(t) = <<phase.name, key[1], key[2], phase.run>>
  BY <1>2 DEF Operation
<1>4. Operation(t)[1] = phase.name /\ Operation(t)[4] = phase.run
  BY <1>3
<1>5. KeyFits(key, Operation(t))
  BY <1>0, <1>2, <1>3, <1>4 DEF KeyFits
<1>6. ASSUME NEW op, IsSigned(key, op)
      PROVE  op = Operation(t)
  <2>1. KeyFits(key, op)
    BY <1>6 DEF SignedInv
  <2>2. /\ op = <<op[1], key[1], key[2], op[4]>>
        /\ (op[1] = phase.name /\ op[4] = phase.run) \/ clock < PhaseStart
    BY <1>2, <2>1 DEF KeyFits
  <2>3. ~ (clock < PhaseStart)
    BY <1>0 DEF PhaseStart
  <2> QED BY <1>3, <2>2, <2>3
<1> QED BY <1>5, <1>6

LEMMA SignedStep ==
  ASSUME TypesInv, TimeInv, AuthorsInv, SignedInv, [Next]_vars
  PROVE  SignedInv'
<1>1. CASE Outstanding' \subseteq Outstanding
  <2>1. \A key, op : IsSigned(key, op)' => IsSigned(key, op)
    BY <1>1, NothingSigned
  <2>2. \A key, op : KeyFits(key, op) => KeyFits(key, op)'
    BY KeysStillFit
  <2> QED BY <2>1, <2>2 DEF SignedInv
<1>2. ASSUME NEW t \in Threads, ThreadStep(t), UNCHANGED runner,
             NEW method, NEW target, NEW j, NEW key, Sent(t, method, target, j, key),
             key = NoKey \/ key = BuildKey(t, threads[t].op)
      PROVE  SignedInv'
  <2>1. phase # NoPhase /\ threads[t].pc = "begin"
    BY <1>2, ThreadKeepsPhase DEF Sent
  <2>2. PICK req : req = Request(t)'
    OBVIOUS
  <2>3. req.key = key /\ req.of = Operation(t) /\ Outstanding' = Outstanding \cup {req}
    BY <1>2, <2>2 DEF Sent
  <2>4. UNCHANGED <<created, bound, author>>
    <3>1. CASE LocalStep(t)
      BY <3>1, LocalStepChanges
    <3>2. CASE Answer(t) \/ Fail(t)
      BY <1>2, <3>2 DEF Answer, Fail, Sent
    <3> QED BY <1>2, <3>1, <3>2, ThreadSteps
  <2>5. ASSUME NEW k, NEW op, IsSigned(k, op)'
        PROVE  IsSigned(k, op) \/ (k = key /\ key # NoKey /\ op = Operation(t))
    BY <2>3, <2>4, <2>5 DEF IsSigned
  <2>6. \A k, op : KeyFits(k, op) => KeyFits(k, op)'
    BY KeysStillFit
  <2>7. CASE key = NoKey
    BY <2>5, <2>6, <2>7 DEF SignedInv
  <2>8. CASE key # NoKey
    <3>1. /\ KeyFits(key, Operation(t))
          /\ \A op : IsSigned(key, op) => op = Operation(t)
      BY <1>2, <2>1, <2>8, KeyIsFresh
    <3>2. PICK new : new = Operation(t)
      OBVIOUS
    <3>3. ASSUME NEW k, NEW op, IsSigned(k, op)'
          PROVE  KeyFits(k, op)'
      <4>1. KeyFits(k, op)
        BY <2>5, <3>1, <3>3 DEF SignedInv
      <4> QED BY <2>6, <4>1
    <3>4. ASSUME NEW k, NEW op, NEW other, IsSigned(k, op)', IsSigned(k, other)'
          PROVE  op = other
      BY <2>5, <3>1, <3>4 DEF SignedInv
    <3> QED BY <3>3, <3>4 DEF SignedInv
  <2> QED BY <2>7, <2>8
<1>3. ASSUME NEW t \in Threads, ThreadStep(t), UNCHANGED runner
      PROVE  SignedInv'
  BY <1>1, <1>2, <1>3, ThreadRequests
<1>4. CASE ~ \E t \in Threads : ThreadStep(t) /\ UNCHANGED runner
  BY <1>1, <1>4, OtherRequests
<1> QED BY <1>3, <1>4

LEMMA AuthorsStep ==
  ASSUME TypesInv, AuthorsInv, SignedInv, [Next]_vars
  PROVE  AuthorsInv' /\ Issued \subseteq Issued' /\ \A j \in Issued : author'[j] = author[j]
<1>1. CASE UNCHANGED <<created, bound, author>>
  <2>1. Issued' = Issued
    BY <1>1 DEF Issued
  <2>2. AuthorsInv'
    BY <1>1, <2>1 DEF AuthorsInv
  <2> QED BY <1>1, <2>1, <2>2
<1>2. ASSUME NEW req \in Outstanding, NEW reply \in Replies, Serve(req, reply)
      PROVE  AuthorsInv' /\ Issued \subseteq Issued' /\ \A j \in Issued : author'[j] = author[j]
  BY <1>2, ServedAuthors
<1> QED BY <1>1, <1>2, ServersChange

\* An accepted submission of the run has a job of its own.
AcceptedInv ==
  \A row \in rows : row.method = "SubmitJob" /\ row.code = "OK" =>
    row.job \in Issued /\ author[row.job] = {row.op}

LEMMA AcceptedStep ==
  ASSUME TypesInv, AuthorsInv, SignedInv, AcceptedInv, [Next]_vars
  PROVE  AcceptedInv'
<1>1. Issued \subseteq Issued' /\ \A j \in Issued : author'[j] = author[j]
  BY AuthorsStep
<1>2. SUFFICES \A row \in rows' : row \in rows
                 \/ (row.method = "SubmitJob" /\ row.code = "OK" =>
                       row.job \in Issued' /\ author'[row.job] = {row.op})
  BY <1>1 DEF AcceptedInv
<1>3. ASSUME NEW t \in Threads, ThreadStep(t), UNCHANGED runner
      PROVE  \A row \in rows' : row \in rows
               \/ (row.method = "SubmitJob" /\ row.code = "OK" =>
                     row.job \in Issued' /\ author'[row.job] = {row.op})
  <2>1. CASE LocalStep(t)
    BY <2>1, LocalStepChanges
  <2>2. ASSUME NEW code, NEW j, NEW terminal, Finish(t, code, j, terminal), NEW row \in rows'
        PROVE  row \in rows \/ (row.op = Operation(t) /\ row.code = code /\ row.job = j
                                /\ row.method = threads[t].method)
    BY <2>2 DEF Finish, Row
  <2>3. CASE Answer(t)
    <3>1. PICK reply \in Replies :
            Serve(Request(t), reply) /\ Finish(t, reply.code, reply.job, reply.terminal)
      BY <2>3 DEF Answer
    <3>2. PICK req : req = Request(t)
      OBVIOUS
    <3>3. req \in Outstanding /\ req.method = threads[t].method /\ req.of = Operation(t)
      BY <2>3, <3>2, RequestParts DEF Answer, Outstanding, Sending
    <3>4. req.method = "SubmitJob" /\ reply.code = "OK"
            => reply.job \in Issued' /\ author'[reply.job] = {req.of}
      BY <3>1, <3>2, <3>3, ServedAuthors
    <3> QED BY <2>2, <3>1, <3>3, <3>4
  <2>4. CASE Fail(t)
    <3>1. UNCHANGED rows \/ Finish(t, "UNAVAILABLE", threads[t].job, FALSE)
      BY <2>4 DEF Fail
    <3> QED BY <2>2, <3>1
  <2> QED BY <1>3, <2>1, <2>3, <2>4, ThreadSteps
<1>4. CASE ~ \E t \in Threads : ThreadStep(t) /\ UNCHANGED runner
  BY <1>4, OtherSteps
<1> QED BY <1>3, <1>4

SubmissionInv == TimeInv /\ AuthorsInv /\ SignedInv /\ AcceptedInv

LEMMA SubmissionsAtFirst ==
  ASSUME Init
  PROVE  SubmissionInv
<1>1. /\ phase = NoPhase /\ late = {} /\ bound = {} /\ rows = {} /\ DOMAIN author = JobIds
      /\ \A j \in JobIds : author[j] = {}
      /\ \A t \in Threads : threads[t] = NoThread
  BY DEF Init, RoutingInit
<1>2. Issued = {}
  BY DEF Init, RoutingInit, Issued
<1>3. Outstanding = {}
  BY <1>1 DEF Outstanding, Sending, NoThread
<1>4. \A key, op : ~ IsSigned(key, op)
  BY <1>1, <1>3 DEF IsSigned
<1> QED BY <1>1, <1>2, <1>4 DEF SubmissionInv, TimeInv, AuthorsInv, SignedInv, AcceptedInv

LEMMA SubmissionInvariant == Spec => []SubmissionInv
<1>1. TypesInv /\ SubmissionInv /\ [Next]_vars => SubmissionInv'
  BY TimeStep, AuthorsStep, SignedStep, AcceptedStep DEF SubmissionInv
<1> QED BY <1>1, SubmissionsAtFirst, TypesInvariant, PTL DEF Spec

\* However often submissions are repeated and whenever they are executed, an
\* accepted one has a job that it alone created: no two operations of an
\* invocation ever carry one key.
THEOREM SubmissionsHaveTheirOwnJobs == Spec => []SubmissionsAreNotMerged
<1>1. SubmissionInv => SubmissionsAreNotMerged
  BY DEF SubmissionInv, AcceptedInv, SubmissionsAreNotMerged
<1> QED BY <1>1, SubmissionInvariant, PTL
-----------------------------------------------------------------------------
(***************************************************************************)
(* One job per operation.  Only the start of an operation sends a request  *)
(* for it, and what executes the request creates its job: without a key it *)
(* is executed once, and with one it finds the job it created before.      *)
(***************************************************************************)
UsedOps == {req.of : req \in Outstanding} \cup UNION {author[j] : j \in JobIds}

\* The order of the stages of a run.
Turn(s) ==
  CASE s \in {"prepare", "remove"} -> 0
    [] s = "warmup" -> 1 [] s = "measure" -> 2 [] s = "cooldown" -> 3
    [] OTHER -> 4

\* Runs before the current one, of this invocation or an earlier one.
Earlier(run) ==
  \E e, r \in Nat : run = <<e, r>> /\ (e < execution \/ (e = execution /\ r < repeat))

\* The operation has sent a request, or could have.
Started(op) ==
  /\ op[1] \in PhaseNames /\ op[2] \in Threads /\ op[3] \in Nat
  /\ \/ Earlier(op[4])
     \/ op[4] = <<execution, repeat>> /\ Turn(op[1]) < Turn(stage)
     \/ /\ op[4] = <<execution, repeat>> /\ phase # NoPhase /\ op[1] = stage
        /\ \/ op[3] < threads[op[2]].op
           \/ op[3] = threads[op[2]].op /\ op[2] \in Sending

UsedInv == \A op \in UsedOps : Started(op)

\* A submission without a key is not repeated.
UnkeyedInv ==
  \A t \in Sending :
    threads[t].method = "SubmitJob" /\ threads[t].key = NoKey => Request(t) \notin late

RequestsInv ==
  /\ \A req, other \in Outstanding : req.of = other.of => req = other
  /\ \A req \in Outstanding : \A j \in JobIds :
       req.method = "SubmitJob" /\ req.of \in author[j] =>
         req.key # NoKey /\ <<req.target, req.key, j>> \in bound

OneJobInv == UsedInv /\ UnkeyedInv /\ RequestsInv /\ OneJobPerOperation

LEMMA TurnsAreNumbers ==
  /\ \A s : Turn(s) \in 0..4
  /\ Turn("prepare") = 0 /\ Turn("remove") = 0
  /\ Turn("warmup") = 1 /\ Turn("measure") = 2 /\ Turn("cooldown") = 3
  /\ \A s \in FileNames \cup Ended : Turn(s) = 4
<1>1. \A s \in FileNames \cup Ended : s \notin PhaseNames \cup {"prepare", "remove"}
  BY StagesAreNamed
<1> QED BY <1>1 DEF Turn, PhaseNames

LEMMA RunsAreNumbered ==
  ASSUME TypesInv
  PROVE  execution \in Nat /\ repeat \in Nat
<1>1. PICK n, k : execution \in 1..n /\ repeat \in 0..k
  BY DEF TypesInv, RunnerTypeOK
<1>2. live \in BOOLEAN
  BY DEF TypesInv, RunnerTypeOK
<1> QED BY <1>1

\* A run goes from stage to stage, to its end or to that of the invocation;
\* then the next run begins.
LEMMA TurnsGrow ==
  ASSUME TypesInv, [Next]_vars
  PROVE  \/ /\ UNCHANGED <<execution, repeat>>
            /\ stage' = stage \/ (/\ Turn(stage) <= Turn(stage')
                                  /\ stage \in PhaseNames => Turn(stage) < Turn(stage'))
         \/ execution' = execution + 1 /\ repeat' = 0
         \/ UNCHANGED execution /\ repeat' = repeat + 1
<1>1. /\ After("prepare") = "warmup" /\ After("warmup") = "measure"
      /\ After("measure") = "cooldown" /\ After("cooldown") \in FileNames
  BY StagesFollow, FileList
<1>2. \A s \in PhaseNames : Turn(s) < Turn(After(s))
  BY <1>1, TurnsAreNumbers DEF PhaseNames
<1>3. \A s \in PhaseNames : Turn(s) <= Turn(After(s))
  BY <1>1, TurnsAreNumbers DEF PhaseNames
<1>4. CASE PrepareRunDir \/ PrecheckFails
  <2>1. /\ stage = "prepare" /\ stage' \in {"refused", "remove", "warmup"}
        /\ UNCHANGED <<execution, repeat>>
    BY <1>1, <1>4 DEF PrepareRunDir, PrepareUnchanged, PrecheckFails
  <2> QED BY <2>1, TurnsAreNumbers, StagesAreNamed DEF Ended
<1>11. CASE DirStep
  <2>1. UNCHANGED <<execution, repeat>>
        /\ (stage' = stage \/ (stage = "remove" /\ stage' = "warmup"))
    BY <1>1, <1>11, DirSteps
  <2> QED BY <2>1, TurnsAreNumbers, StagesAreNamed
<1>5. CASE EndPhase
  BY <1>2, <1>3, <1>5 DEF EndPhase, PhaseUnchanged, TypesInv, PhaseInv
<1>6. CASE SkipPhase
  BY <1>2, <1>3, <1>6, StagesAreNamed DEF SkipPhase, PhaseUnchanged
<1>7. CASE CloseFile
  <2>1. stage \in FileNames /\ stage' = After(stage) /\ UNCHANGED execution
        /\ repeat' = IF stage' = "prepare" THEN repeat + 1 ELSE repeat
    BY <1>7 DEF CloseFile, FilesUnchanged
  <2>2. CASE stage' = "prepare"
    BY <2>1, <2>2
  <2>3. CASE stage' # "prepare"
    <3>1. stage' \in FileNames \cup Ended \/ stage' \in PhaseNames \cup {"remove"}
      BY <2>1, <2>3, StagesAreNamed DEF StageNames
    <3>2. stage' \notin PhaseNames \cup {"remove"}
      <4>1. PICK i \in 1..5 : stage = Files[i]
        BY <2>1, FileList
      <4>2. CASE i = 5
        BY <2>1, <4>1, <4>2, StagesFollow, FileList DEF PhaseNames
      <4>3. CASE i \in 1..4
        <5>1. After(Files[i]) = Files[i + 1] /\ i + 1 \in 1..5
          BY <4>3, StagesFollow
        <5>2. stage' \in FileNames
          BY <2>1, <4>1, <5>1, FileList
        <5> QED BY <5>2, StagesAreNamed
      <4> QED BY <4>2, <4>3
    <3> QED BY <2>1, <2>3, <3>1, <3>2, TurnsAreNumbers, StagesAreNamed
  <2> QED BY <2>2, <2>3
<1>8. CASE Crash
  <2>1. stage' = "crashed" /\ stage \notin Ended /\ UNCHANGED <<execution, repeat>>
    BY <1>8 DEF Crash
  <2>2. Turn(stage') = 4
    BY <2>1, TurnsAreNumbers DEF Ended
  <2>3. stage \in PhaseNames => Turn(stage) < 4
    BY TurnsAreNumbers DEF PhaseNames
  <2>4. Turn(stage) <= 4
    BY TurnsAreNumbers
  <2> QED BY <2>1, <2>2, <2>3, <2>4
<1>9. CASE Invoke
  BY <1>9 DEF Invoke
<1>10. CASE BeginPhase \/ OpenFile \/ UNCHANGED runner
  BY <1>10 DEF BeginPhase, PhaseUnchanged, OpenFile, FilesUnchanged, runner
<1> QED BY <1>4, <1>5, <1>6, <1>7, <1>8, <1>9, <1>10, <1>11
        DEF Next, RunnerStep, DirStep, vars

\* What was an earlier run stays one, and a run that is left becomes one.
LEMMA RunsGoBy ==
  ASSUME TypesInv, [Next]_vars
  PROVE  /\ \A run : Earlier(run) => Earlier(run)'
         /\ \/ UNCHANGED <<execution, repeat>>
            \/ \A run : run = <<execution, repeat>> => Earlier(run)'
<1>1. execution \in Nat /\ repeat \in Nat
  BY RunsAreNumbered
<1>2. CASE UNCHANGED <<execution, repeat>>
  BY <1>2 DEF Earlier
<1>3. CASE execution' = execution + 1 /\ repeat' = 0
  <2>1. ASSUME NEW e \in Nat, e < execution \/ e = execution
        PROVE  e < execution'
    BY <1>1, <1>3, <2>1
  <2>2. ASSUME NEW run, Earlier(run)
        PROVE  Earlier(run)'
    <3>1. PICK e \in Nat, r \in Nat :
            run = <<e, r>> /\ (e < execution \/ (e = execution /\ r < repeat))
      BY <2>2 DEF Earlier
    <3>2. e < execution'
      BY <2>1, <3>1
    <3> QED BY <3>1, <3>2 DEF Earlier
  <2>3. ASSUME NEW run, run = <<execution, repeat>>
        PROVE  Earlier(run)'
    BY <1>1, <2>1, <2>3 DEF Earlier
  <2> QED BY <2>2, <2>3
<1>4. CASE UNCHANGED execution /\ repeat' = repeat + 1
  <2>1. ASSUME NEW r \in Nat, r < repeat \/ r = repeat
        PROVE  r < repeat'
    BY <1>1, <1>4, <2>1
  <2>2. ASSUME NEW run, Earlier(run)
        PROVE  Earlier(run)'
    <3>1. PICK e \in Nat, r \in Nat :
            run = <<e, r>> /\ (e < execution \/ (e = execution /\ r < repeat))
      BY <2>2 DEF Earlier
    <3>2. e < execution' \/ (e = execution' /\ r < repeat')
      BY <1>4, <2>1, <3>1
    <3> QED BY <3>1, <3>2 DEF Earlier
  <2>3. ASSUME NEW run, run = <<execution, repeat>>
        PROVE  Earlier(run)'
    <3>1. repeat < repeat' /\ execution = execution'
      BY <1>1, <1>4, <2>1
    <3> QED BY <1>1, <2>3, <3>1 DEF Earlier
  <2> QED BY <2>2, <2>3
<1> QED BY <1>2, <1>3, <1>4, TurnsGrow

LEMMA StartedStep ==
  ASSUME TypesInv, [Next]_vars, NEW op, Started(op)
  PROVE  Started(op)'
<1>0. /\ op[1] \in PhaseNames /\ op[2] \in Threads /\ op[3] \in Nat
      /\ \A t \in Threads : threads[t].op \in Nat
  BY DEF Started, TypesInv, TrafficTypeOK, ThreadType
<1>1. CASE Earlier(op[4]) \/ (op[4] = <<execution, repeat>> /\ ~ UNCHANGED <<execution, repeat>>)
  <2>1. PICK run : run = op[4]
    OBVIOUS
  <2>2. Earlier(run) => Earlier(run)'
    BY RunsGoBy
  <2>3. Earlier(op[4])'
    BY <1>1, <2>1, <2>2, RunsGoBy
  <2> QED BY <1>0, <2>3 DEF Started
<1>2. CASE op[4] = <<execution, repeat>> /\ UNCHANGED <<execution, repeat>>
           /\ \/ Turn(op[1]) < Turn(stage)
              \/ op[1] = stage /\ stage' # stage
  <2>1. stage' = stage \/ (/\ Turn(stage) <= Turn(stage')
                           /\ stage \in PhaseNames => Turn(stage) < Turn(stage'))
    <3>1. ~ (execution + 1 = execution) /\ ~ (repeat + 1 = repeat)
      BY RunsAreNumbered
    <3> QED BY <1>2, <3>1, TurnsGrow
  <2>2. Turn(op[1]) < Turn(stage')
    BY <1>0, <1>2, <2>1, TurnsAreNumbers
  <2> QED BY <1>0, <1>2, <2>2 DEF Started, Turn
<1>3. CASE /\ op[4] = <<execution, repeat>> /\ UNCHANGED <<execution, repeat>>
           /\ phase # NoPhase /\ op[1] = stage /\ stage' = stage
           /\ \/ op[3] < threads[op[2]].op
              \/ op[3] = threads[op[2]].op /\ op[2] \in Sending
  <2>1. ASSUME NEW t \in Threads, ThreadStep(t), UNCHANGED runner
        PROVE  Started(op)'
    <3>1. /\ \A u \in Threads : u # t => threads'[u] = threads[u]
          /\ phase' # NoPhase
          /\ Began(t) \/ WentOn(t) \/ Finished(t)
      BY <2>1, ThreadStepForm
    <3>2. \/ op[3] < threads'[op[2]].op
          \/ op[3] = threads'[op[2]].op /\ op[2] \in Sending'
      <4>1. CASE op[2] # t
        BY <1>0, <1>3, <3>1, <4>1 DEF Sending
      <4>2. CASE op[2] = t /\ (Began(t) \/ WentOn(t))
        BY <1>0, <1>3, <4>2 DEF Sending, Began, WentOn, Handling
      <4>3. CASE op[2] = t /\ Finished(t)
        <5>1. PICK n \in Nat, k \in Nat : n = threads[t].op /\ k = op[3]
          BY <1>0, <4>3
        <5>2. k < n \/ k = n
          BY <1>3, <4>3, <5>1
        <5>3. k < n + 1
          BY <5>2
        <5> QED BY <4>3, <5>1, <5>3 DEF Finished
      <4> QED BY <3>1, <4>1, <4>2, <4>3
    <3> QED BY <1>0, <1>3, <3>1, <3>2 DEF Started
  <2>2. CASE UNCHANGED <<threads, phase>>
    <3>1. Sending' = Sending
      BY <2>2 DEF Sending
    <3> QED BY <1>0, <1>3, <2>2, <3>1 DEF Started
  <2>3. CASE PrepareRunDir \/ DirStep \/ SkipPhase \/ OpenFile \/ CloseFile \/ PrecheckFails
             \/ Invoke \/ Tick \/ ServeLate \/ (\E j \in JobIds : EndJob(j)) \/ UNCHANGED vars
    BY <2>2, <2>3, DirSteps
       DEF PrepareRunDir, PrepareUnchanged, SkipPhase, PhaseUnchanged, OpenFile, CloseFile,
           FilesUnchanged, PrecheckFails, Invoke, Tick, ServeLate, EndJob, vars, traffic
  <2>4. CASE EndPhase
    <3>1. stage \in PhaseNames /\ stage' = After(stage)
      BY <2>4 DEF EndPhase, TypesInv, PhaseInv
    <3> QED BY <1>3, <3>1, StagesFollow, FileList DEF PhaseNames
  <2>5. CASE BeginPhase
    BY <1>3, <2>5 DEF BeginPhase
  <2>6. CASE Crash
    BY <1>0, <1>3, <2>6, StagesAreNamed DEF Crash, Ended
  <2> QED BY <2>1, <2>3, <2>4, <2>5, <2>6 DEF Next, RunnerStep, DirStep
<1> QED BY <1>1, <1>2, <1>3 DEF Started

\* An operation that begins to call has not been used, and is started then.
LEMMA NewOperation ==
  ASSUME TypesInv, NEW t \in Threads, threads[t].pc = "begin",
         phase # NoPhase
  PROVE  /\ ~ Started(Operation(t))
         /\ Operation(t)[1] = stage /\ Operation(t)[2] = t /\ Operation(t)[3] = threads[t].op
         /\ Operation(t)[4] = <<execution, repeat>>
<1>1. /\ Operation(t)[1] = stage /\ Operation(t)[2] = t /\ Operation(t)[3] = threads[t].op
      /\ Operation(t)[4] = <<execution, repeat>> /\ threads[t].op \in Nat
  BY DEF Operation, TypesInv, PhaseInv, TrafficTypeOK, ThreadType
<1>2. t \notin Sending
  BY DEF Sending
<1>3. ~ (Turn(stage) < Turn(stage)) /\ ~ (threads[t].op < threads[t].op)
  BY <1>1, TurnsAreNumbers
<1>4. ~ Earlier(<<execution, repeat>>)
  BY RunsAreNumbered DEF Earlier
<1> QED BY <1>1, <1>2, <1>3, <1>4 DEF Started

\* A thread's request is of its own operation.
LEMMA RequestsDiffer ==
  ASSUME NEW t \in Threads, NEW u \in Threads, Request(t) = Request(u)
  PROVE  t = u
<1>1. Request(t).of = <<phase.name, t, threads[t].op, phase.run>>
      /\ Request(u).of = <<phase.name, u, threads[u].op, phase.run>>
  BY DEF Request, Operation
<1> QED BY <1>1

\* The start of a call touches no server.
LEMMA SentIsLocal ==
  ASSUME NEW t \in Threads, ThreadStep(t), threads[t].pc = "begin"
  PROVE  UNCHANGED <<created, bound, author>>
<1>1. CASE LocalStep(t)
  BY <1>1, LocalStepChanges
<1>2. CASE Answer(t) \/ Fail(t)
  BY <1>2 DEF Answer, Fail
<1> QED BY <1>1, <1>2, ThreadSteps

\* A step sends a first request or none.
LEMMA RequestSteps ==
  ASSUME TypesInv, [Next]_vars
  PROVE  \/ Outstanding' \subseteq Outstanding
         \/ \E t \in Threads : \E method, target, j, key :
              /\ Sent(t, method, target, j, key) /\ ThreadStep(t) /\ UNCHANGED runner
              /\ phase # NoPhase /\ phase' # NoPhase
              /\ phase'.name = phase.name /\ phase'.run = phase.run
              /\ \A u \in Threads : u # t => threads'[u] = threads[u]
<1>1. ASSUME NEW t \in Threads, ThreadStep(t), UNCHANGED runner
      PROVE  \/ Outstanding' \subseteq Outstanding
             \/ \E method, target, j, key : Sent(t, method, target, j, key)
  BY <1>1, ThreadRequests
<1>2. ASSUME NEW t \in Threads, ThreadStep(t), UNCHANGED runner
      PROVE  /\ phase # NoPhase /\ phase' # NoPhase
             /\ phase'.name = phase.name /\ phase'.run = phase.run
             /\ \A u \in Threads : u # t => threads'[u] = threads[u]
  BY <1>2, ThreadStepForm
<1>3. CASE ~ \E t \in Threads : ThreadStep(t) /\ UNCHANGED runner
  BY <1>3, OtherRequests
<1> QED BY <1>1, <1>2, <1>3

\* Only a first request uses an operation that was not.
LEMMA NothingUsed ==
  ASSUME TypesInv, AuthorsInv, AuthorsInv', [Next]_vars, Outstanding' \subseteq Outstanding,
         NEW op \in UsedOps'
  PROVE  op \in UsedOps
<1>1. \/ \E req \in Outstanding' : op = req.of
      \/ \E j \in JobIds : op \in author'[j]
  BY DEF UsedOps
<1>2. CASE \E req \in Outstanding' : op = req.of
  BY <1>2 DEF UsedOps
<1>3. ASSUME NEW j \in JobIds, op \in author'[j]
      PROVE  op \in UsedOps
  <2>1. CASE UNCHANGED <<created, bound, author>>
    BY <1>3, <2>1 DEF UsedOps
  <2>2. ASSUME NEW req \in Outstanding, NEW reply \in Replies, Serve(req, reply)
        PROVE  op \in UsedOps
    <3>1. author' = author \/ author' = [author EXCEPT ![reply.job] = @ \cup {req.of}]
      BY <2>2, ServedOutcome
    <3>2. op \in author[j] \/ op = req.of
      BY <1>3, <3>1 DEF AuthorsInv
    <3> QED BY <1>3, <2>2, <3>2 DEF UsedOps
  <2> QED BY <2>1, <2>2, ServersChange
<1> QED BY <1>1, <1>2, <1>3

LEMMA UsedStep ==
  ASSUME TypesInv, AuthorsInv, AuthorsInv', UsedInv, [Next]_vars
  PROVE  UsedInv'
<1>1. \A op \in UsedOps : Started(op)'
  BY StartedStep DEF UsedInv
<1>2. CASE Outstanding' \subseteq Outstanding
  <2>1. \A op \in UsedOps' : op \in UsedOps
    BY <1>2, NothingUsed
  <2> QED BY <1>1, <2>1 DEF UsedInv
<1>3. ASSUME NEW t \in Threads, NEW method, NEW target, NEW j, NEW key,
             Sent(t, method, target, j, key), ThreadStep(t), UNCHANGED runner,
             phase # NoPhase, phase' # NoPhase
      PROVE  UsedInv'
  <2>1. PICK new : new = Operation(t)
    OBVIOUS
  <2>2. threads[t].pc = "begin" /\ threads'[t].pc = "call" /\ threads'[t].op = threads[t].op
    BY <1>3 DEF Sent
  <2>3. /\ new[1] = stage /\ new[2] = t /\ new[3] = threads[t].op /\ new[3] \in Nat
        /\ new[4] = <<execution, repeat>>
    BY <1>3, <2>1, <2>2, NewOperation DEF TypesInv, TrafficTypeOK, ThreadType
  <2>4. stage \in PhaseNames /\ UNCHANGED <<stage, execution, repeat>>
    BY <1>3 DEF TypesInv, PhaseInv, runner
  <2>5. Started(new)'
    BY <1>3, <2>2, <2>3, <2>4 DEF Started, Sending
  <2>6. ASSUME NEW op \in UsedOps'
        PROVE  op \in UsedOps \/ op = new
    <3>1. UNCHANGED author
      BY <1>3, <2>2, SentIsLocal
    <3>2. PICK req : req = Request(t)'
      OBVIOUS
    <3>3. req.of = new /\ Outstanding' = Outstanding \cup {req}
      BY <1>3, <2>1, <3>2 DEF Sent
    <3> QED BY <2>6, <3>1, <3>3 DEF UsedOps
  <2> QED BY <1>1, <2>5, <2>6 DEF UsedInv
<1> QED BY <1>2, <1>3, RequestSteps

LEMMA UnkeyedStep ==
  ASSUME TypesInv, UsedInv, UnkeyedInv, [Next]_vars
  PROVE  UnkeyedInv'
<1>1. ASSUME NEW t \in Threads, ThreadStep(t), UNCHANGED runner
      PROVE  UnkeyedInv'
  <2>1. /\ TrafficTypeOK /\ phase # NoPhase /\ phase'.name = phase.name /\ phase'.run = phase.run
        /\ \A u \in Threads : u # t => threads'[u] = threads[u]
    BY <1>1, ThreadStepForm DEF TypesInv
  <2>2. /\ \A u \in Threads : u # t => Request(u)' = Request(u)
        /\ \A u \in Threads : u # t => (u \in Sending' <=> u \in Sending)
    BY <2>1, OthersKeepSending
  <2>3. late' = late \/ late' = late \cup {Request(t)}
    BY <1>1, ThreadSteps, LocalStepChanges DEF Answer, Fail
  <2>4. ASSUME NEW u \in Sending', u # t, threads'[u].method = "SubmitJob",
               threads'[u].key = NoKey
        PROVE  Request(u)' \notin late'
    <3>1. u \in Threads
      BY DEF Sending
    <3>2. Request(u)' = Request(u) /\ u \in Sending /\ threads'[u] = threads[u]
      BY <2>1, <2>2, <2>4, <3>1
    <3>3. Request(u) \notin late
      BY <2>4, <3>2 DEF UnkeyedInv
    <3> QED BY <2>3, <2>4, <3>1, <3>2, <3>3, RequestsDiffer
  <2>5. ASSUME t \in Sending', threads'[t].method = "SubmitJob", threads'[t].key = NoKey
        PROVE  Request(t)' \notin late'
    <3>1. CASE Retry(t)
      <4>1. UNCHANGED late /\ t \in Sending
        BY <3>1 DEF Retry, CallUnchanged, Sending
      <4>2. SameCall(t) /\ threads'[t].method = threads[t].method
        BY <2>1, <3>1, RetryingThread
      <4>3. Request(t)' = Request(t) /\ threads'[t].key = threads[t].key
        BY <2>1, <4>2, RequestKept DEF SameCall
      <4> QED BY <2>5, <4>1, <4>2, <4>3 DEF UnkeyedInv
    <3>2. CASE threads[t].pc = "begin"
      <4>1. PICK new : new = Operation(t)
        OBVIOUS
      <4>2. ~ Started(new)
        BY <2>1, <3>2, <4>1, NewOperation
      <4>3. UNCHANGED late
        BY <1>1, <3>2, ThreadSteps, LocalStepChanges DEF Answer, Fail
      <4>4. Request(t)'.of = new
        <5>1. threads'[t].op = threads[t].op
          BY <1>1, <3>2, ThreadStepForm DEF Began, WentOn, Finished
        <5> QED BY <2>1, <4>1, <5>1 DEF Request, Operation
      <4>5. \A req \in late : Started(req.of)
        BY DEF UsedInv, UsedOps, Outstanding
      <4> QED BY <4>2, <4>3, <4>4, <4>5
    <3>3. CASE Begin(t) \/ EndLoop(t)
      BY <2>1, <2>5, <3>3, BeginningThread, EndingThread DEF Sending
    <3>4. ASSUME NEW code, NEW j, NEW terminal, Finish(t, code, j, terminal)
          PROVE  t \notin Sending'
      BY <2>1, <3>4, FinishedThread DEF Sending
    <3>5. CASE Answer(t)
      BY <2>5, <3>4, <3>5 DEF Answer
    <3>6. CASE Fail(t)
      <4>1. CASE MayRetry(threads[t]) /\ Set(t, [threads[t] EXCEPT !.pc = "backoff"])
        <5>1. SameCall(t) /\ threads'[t].method = threads[t].method
          BY <2>1, <4>1, WaitingThread
        <5>2. threads'[t].key = threads[t].key
          BY <5>1 DEF SameCall
        <5> QED BY <2>5, <4>1, <5>1, <5>2 DEF MayRetry
      <4>2. CASE Finish(t, "UNAVAILABLE", threads[t].job, FALSE)
        BY <2>5, <3>4, <4>2
      <4> QED BY <3>6, <4>1, <4>2 DEF Fail
    <3> QED BY <1>1, <3>1, <3>2, <3>3, <3>5, <3>6, ThreadSteps
            DEF LocalStep, ExecuteSubmit, ExecuteListJobs, ExecuteJobCall
  <2> QED BY <2>4, <2>5 DEF UnkeyedInv
<1>2. CASE PrepareRunDir \/ DirStep \/ SkipPhase \/ OpenFile \/ CloseFile \/ PrecheckFails
           \/ Invoke \/ Tick \/ ServeLate \/ (\E j \in JobIds : EndJob(j)) \/ UNCHANGED vars
  <2>1. UNCHANGED <<threads, phase>> /\ late' \subseteq late
    BY <1>2, DirSteps
       DEF PrepareRunDir, PrepareUnchanged, SkipPhase, PhaseUnchanged, OpenFile, CloseFile,
           FilesUnchanged,
                PrecheckFails, Invoke, Tick, ServeLate, EndJob, vars, traffic
  <2>2. Sending' = Sending /\ \A t \in Threads : Request(t)' = Request(t)
    BY <2>1 DEF Sending, Request, Operation
  <2> QED BY <2>1, <2>2 DEF UnkeyedInv, Sending
<1>3. CASE BeginPhase \/ EndPhase \/ Crash
  <2>1. PICK th : threads' = [t \in Threads |-> th] /\ th.pc \notin {"call", "backoff"}
    <3>1. NoThread.pc = "done" /\ [NoThread EXCEPT !.pc = "loop", !.due = clock].pc = "loop"
      BY DEF NoThread
    <3> QED BY <1>3, <3>1 DEF BeginPhase, EndPhase, Crash
  <2>2. Sending' = {}
    BY <2>1 DEF Sending
  <2> QED BY <2>2 DEF UnkeyedInv
<1> QED BY <1>1, <1>2, <1>3 DEF Next, RunnerStep, DirStep

\* A server that executes a submission for the first time finds no other job
\* of its operation, and leaves none of its requests without the job's key.
LEMMA CreatedOnce ==
  ASSUME TypesInv, AuthorsInv, UnkeyedInv, RequestsInv, OneJobPerOperation,
         Outstanding' \subseteq Outstanding, NEW req \in Outstanding, NEW job \in JobIds \ Issued,
         req.method = "SubmitJob", BoundTo(req.target, req.key) = {},
         author' = [author EXCEPT ![job] = @ \cup {req.of}],
         bound' = IF req.key = NoKey THEN bound ELSE bound \cup {<<req.target, req.key, job>>},
         req.key = NoKey => req \notin Outstanding'
  PROVE  RequestsInv' /\ OneJobPerOperation'
<1>1. author[job] = {} /\ DOMAIN author = JobIds
  BY DEF AuthorsInv
<1>2. /\ author'[job] = {req.of}
      /\ \A j \in JobIds : j # job => author'[j] = author[j]
  BY <1>1
<1>3. ASSUME NEW j \in JobIds, req.of \in author[j]
      PROVE  FALSE
  BY <1>3 DEF RequestsInv, BoundTo
<1>4. OneJobPerOperation'
  BY <1>2, <1>3 DEF OneJobPerOperation
<1>5. bound \subseteq bound' /\ (req.key # NoKey => <<req.target, req.key, job>> \in bound')
  OBVIOUS
<1>6. ASSUME NEW r \in Outstanding', NEW j \in JobIds, r.method = "SubmitJob", r.of \in author'[j]
      PROVE  r.key # NoKey /\ <<r.target, r.key, j>> \in bound'
  <2>1. CASE j = job
    <3>1. r = req
      BY <1>2, <1>6, <2>1 DEF RequestsInv
    <3> QED BY <1>5, <1>6, <2>1, <3>1
  <2>2. CASE j # job
    BY <1>2, <1>5, <1>6, <2>2 DEF RequestsInv
  <2> QED BY <2>1, <2>2
<1> QED BY <1>4, <1>6 DEF RequestsInv

\* A request without a key is gone once it is executed: its thread stops
\* sending it, and no failed attempt left it behind.
LEMMA ExecutedRequestIsGone ==
  ASSUME TypesInv, UnkeyedInv, NEW req \in Outstanding,
         req.method = "SubmitJob", req.key = NoKey,
         \/ \E t \in Sending : /\ Answer(t) /\ req = Request(t) /\ UNCHANGED runner
                               /\ \E code, j, terminal : Finish(t, code, j, terminal)
         \/ late' = late \ {req} /\ req \in late /\ UNCHANGED <<threads, phase>>
  PROVE  req \notin Outstanding'
<1>1. ASSUME NEW t \in Sending, Answer(t), req = Request(t), UNCHANGED runner,
             NEW code, NEW j, NEW terminal, Finish(t, code, j, terminal)
      PROVE  req \notin Outstanding'
  <2>1. t \in Threads /\ TrafficTypeOK
    BY DEF Sending, TypesInv
  <2>2. threads'[t].pc = "loop" /\ \A u \in Threads : u # t => threads'[u] = threads[u]
    BY <1>1, <2>1, FinishedThread
  <2>3. UNCHANGED <<late, phase>> /\ t \notin Sending'
    BY <1>1, <2>2 DEF Answer, Sending
  <2>4. req \notin late
    <3>1. threads[t].method = "SubmitJob" /\ threads[t].key = NoKey
      BY <1>1, RequestParts
    <3> QED BY <1>1, <3>1 DEF UnkeyedInv
  <2>5. ASSUME NEW u \in Sending', req = Request(u)'
        PROVE  FALSE
    <3>1. u \in Threads /\ u # t
      BY <2>3, <2>5 DEF Sending
    <3>2. Request(u)' = Request(u)
      BY <2>1, <2>2, <2>3, <3>1, OthersKeepSending
    <3> QED BY <1>1, <2>1, <2>5, <3>1, <3>2, RequestsDiffer
  <2> QED BY <2>3, <2>4, <2>5 DEF Outstanding
<1>2. CASE late' = late \ {req} /\ req \in late /\ UNCHANGED <<threads, phase>>
  <2>1. Sending' = Sending /\ \A t \in Threads : Request(t)' = Request(t)
    BY <1>2 DEF Sending, Request, Operation
  <2>2. ASSUME NEW u \in Sending, req = Request(u)
        PROVE  FALSE
    <3>1. threads[u].method = "SubmitJob" /\ threads[u].key = NoKey
      BY <2>2, RequestParts
    <3> QED BY <1>2, <2>2, <3>1 DEF UnkeyedInv
  <2> QED BY <1>2, <2>1, <2>2 DEF Outstanding, Sending
<1> QED BY <1>1, <1>2

LEMMA RequestsStep ==
  ASSUME TypesInv, AuthorsInv, UsedInv, UnkeyedInv, RequestsInv, OneJobPerOperation, [Next]_vars
  PROVE  RequestsInv' /\ OneJobPerOperation'
<1>1. CASE Outstanding' \subseteq Outstanding
  <2>1. CASE UNCHANGED <<created, bound, author>>
    BY <1>1, <2>1 DEF RequestsInv, OneJobPerOperation
  <2>2. ASSUME NEW req \in Outstanding, NEW reply \in Replies, Serve(req, reply),
               \/ \E t \in Sending : /\ Answer(t) /\ req = Request(t) /\ UNCHANGED runner
                                     /\ Finish(t, reply.code, reply.job, reply.terminal)
               \/ late' = late \ {req} /\ req \in late /\ UNCHANGED <<threads, phase>>
        PROVE  RequestsInv' /\ OneJobPerOperation'
    <3>1. CASE /\ req.method = "SubmitJob" /\ BoundTo(req.target, req.key) = {}
               /\ reply.job \in JobIds \ Issued
               /\ author' = [author EXCEPT ![reply.job] = @ \cup {req.of}]
               /\ bound' = IF req.key = NoKey THEN bound
                                              ELSE bound \cup {<<req.target, req.key, reply.job>>}
      <4>1. req.key = NoKey => req \notin Outstanding'
        BY <2>2, <3>1, ExecutedRequestIsGone
      <4> QED BY <1>1, <2>2, <3>1, <4>1, CreatedOnce
    <3>2. CASE UNCHANGED <<created, bound, author>>
      BY <2>1, <3>2
    <3> QED BY <2>2, <3>1, <3>2, ServedOutcome
  <2> QED BY <2>1, <2>2, ServersChange
<1>2. ASSUME NEW t \in Threads, NEW method, NEW target, NEW j, NEW key,
             Sent(t, method, target, j, key), ThreadStep(t), phase # NoPhase
      PROVE  RequestsInv' /\ OneJobPerOperation'
  <2>1. threads[t].pc = "begin"
    BY <1>2 DEF Sent
  <2>2. UNCHANGED <<created, bound, author>>
    BY <1>2, <2>1, SentIsLocal
  <2>3. PICK req : req = Request(t)'
    OBVIOUS
  <2>4. req.of = Operation(t) /\ Outstanding' = Outstanding \cup {req}
    BY <1>2, <2>3 DEF Sent
  <2>5. req.of \notin UsedOps
    BY <1>2, <2>1, <2>4, NewOperation DEF UsedInv
  <2>6. /\ \A r \in Outstanding : r.of # req.of
        /\ \A k \in JobIds : req.of \notin author[k]
    BY <2>5 DEF UsedOps
  <2> QED BY <2>2, <2>4, <2>6 DEF RequestsInv, OneJobPerOperation
<1> QED BY <1>1, <1>2, RequestSteps

LEMMA OneJobAtFirst ==
  ASSUME Init
  PROVE  OneJobInv
<1>1. /\ late = {} /\ \A j \in JobIds : author[j] = {}
      /\ \A t \in Threads : threads[t] = NoThread
  BY DEF Init
<1>2. Sending = {} /\ Outstanding = {}
  BY <1>1 DEF Outstanding, Sending, NoThread
<1> QED BY <1>1, <1>2 DEF OneJobInv, UsedInv, UsedOps, UnkeyedInv, RequestsInv, OneJobPerOperation

\* An operation creates at most one job, however often its submission is
\* repeated and whenever its attempts are executed.
THEOREM OperationsCreateOneJob == Spec => []OneJobPerOperation
<1>1. Init => OneJobInv
  BY OneJobAtFirst
<1>2. TypesInv /\ SubmissionInv /\ SubmissionInv' /\ OneJobInv /\ [Next]_vars
        => OneJobInv'
  BY UsedStep, UnkeyedStep, RequestsStep DEF SubmissionInv, OneJobInv
<1>3. OneJobInv => OneJobPerOperation
  BY DEF OneJobInv
<1> QED BY <1>1, <1>2, <1>3, TypesInvariant, SubmissionInvariant, PTL DEF Spec
=============================================================================
