----------------------------- MODULE Benchmark -----------------------------
(***************************************************************************)
(* Runs of a benchmark scenario: BenchmarkRunner.run                       *)
(* (common/loadgen_contracts.py) as scripts/loadgen/                       *)
(* run_benchmark_scaffold.py invokes it, with live traffic or without, and *)
(* what scripts/loadgen/aggregate_starter_matrix.py takes from the files.  *)
(* An invocation may crash at any time, in the middle of writing a file    *)
(* too; the files stay, and a later invocation may replace them.           *)
(***************************************************************************)
EXTENDS Traffic

CONSTANTS Durations,      \* phase -> its duration in ticks
          Repetitions,    \* the scenario's, with live traffic or not
          Executions      \* invocations, with live traffic or not: the bound on them

Phases == <<"warmup", "measure", "cooldown">>

Files == <<"rows.jsonl", "rows.csv", "summary.json", "summary.csv", "metadata.json">>

FileNames == {Files[i] : i \in 1..Len(Files)}

Repeats == 0..Max({Repetitions[TRUE], Repetitions[FALSE]}) - 1

ASSUME RunsAssumption ==
  /\ Durations \in [{"warmup", "measure", "cooldown"} -> Nat]
  /\ {Repetitions, Executions} \subseteq [BOOLEAN -> Nat \ {0}]

VARIABLES stage,       \* what the invocation does now
          live,        \* --live-traffic was given
          overwrite,   \* --overwrite was given
          execution,   \* how many invocations there were
          repeat,      \* the run of this invocation
          dirs,        \* run -> its directory
          files        \* run -> file -> the invocation that wrote it, and whether wholly

runner == <<stage, live, overwrite, execution, repeat, dirs, files>>

vars == <<routing, traffic, runner>>

\* A directory that is "partial" is there; its removal was begun.
DirStates == {"absent", "present", "partial"}

Absent == [by |-> 0, whole |-> FALSE]

Ended == {"done", "refused", "crashed"}

FirstOf(list) == list[1]

\* What follows stage s.
After(s) ==
  CASE s = "prepare" -> FirstOf(Phases)
    [] s = "warmup"  -> "measure"
    [] s = "measure" -> "cooldown"
    [] s = "cooldown" -> FirstOf(Files)
    [] \E i \in 1..4 : s = Files[i] -> Files[1 + CHOOSE i \in 1..4 : s = Files[i]]
    [] s = "metadata.json" -> IF repeat + 1 < Repetitions[live] THEN "prepare" ELSE "done"
-----------------------------------------------------------------------------
Init ==
  /\ RoutingInit
  /\ scenario \in [design : Designs, mode : Modes]
  \* Design A runs no nodes.
  /\ scenario.design = "A_microservices" => order = CHOOSE o \in Configurations : TRUE
  /\ clock = 0
  /\ phase = NoPhase
  /\ threads = [t \in Threads |-> NoThread]
  /\ known = {} /\ rows = {} /\ late = {} /\ ended = {}
  /\ failures = 0 /\ begun = 0
  /\ author = [j \in JobIds |-> {}]
  /\ stage = "prepare"
  /\ live \in BOOLEAN /\ overwrite \in BOOLEAN
  /\ execution = 1 /\ repeat = 0
  /\ dirs = [r \in Repeats |-> "absent"]
  /\ files = [r \in Repeats |-> [f \in FileNames |-> Absent]]

\* --precheck-health finds a target that takes no connection.
PrecheckFails ==
  /\ stage = "prepare" /\ repeat = 0
  /\ stage' = "refused"
  /\ UNCHANGED <<routing, traffic, live, overwrite, execution, repeat, dirs,
                 files>>

\* A run has a router and a list of known jobs of its own, and no rows.
FreshRun ==
  /\ known' = {} /\ rows' = {} /\ begun' = 0
  /\ rr' = Start

\* An empty directory counts.
DirExists(r) == dirs[r] # "absent"

PrepareUnchanged ==
  UNCHANGED <<files, order, created, bound, scenario, clock, phase, threads, failures, late,
              ended, author, live, overwrite, execution, repeat>>

\* A slip TLC must notice: the old files are left to be overwritten.
PrepareRunDirInPlace ==
  /\ stage = "prepare"
  /\ stage' = IF DirExists(repeat) /\ ~overwrite THEN "refused" ELSE After("prepare")
  /\ UNCHANGED dirs
  /\ FreshRun
  /\ PrepareUnchanged

\* A slip TLC must notice: --overwrite is not asked for.
PrepareRunDirForced ==
  /\ stage = "prepare"
  /\ IF DirExists(repeat)
       THEN stage' = "remove" /\ dirs' = [dirs EXCEPT ![repeat] = "partial"]
       ELSE stage' = After("prepare") /\ UNCHANGED dirs
  /\ FreshRun
  /\ PrepareUnchanged

\* The directory of an earlier invocation's run is refused, or its removal
\* begins.
PrepareRunDir ==
  /\ stage = "prepare"
  /\ \/ ~DirExists(repeat) /\ stage' = After("prepare") /\ UNCHANGED dirs
     \/ DirExists(repeat) /\ ~overwrite /\ stage' = "refused" /\ UNCHANGED dirs
     \/ /\ DirExists(repeat) /\ overwrite
        /\ stage' = "remove"
        /\ dirs' = [dirs EXCEPT ![repeat] = "partial"]
  /\ FreshRun
  /\ PrepareUnchanged

\* shutil.rmtree unlinks the files one by one, in the order the directory
\* lists them, which is any.
RemoveFile ==
  /\ stage = "remove"
  /\ \E f \in FileNames :
       /\ files[repeat][f] # Absent
       /\ files' = [files EXCEPT ![repeat][f] = Absent]
  /\ UNCHANGED <<routing, traffic, stage, live, overwrite, execution, repeat, dirs>>

\* Then it removes the directory.
RemoveRunDir ==
  /\ stage = "remove"
  /\ \A f \in FileNames : files[repeat][f] = Absent
  /\ dirs' = [dirs EXCEPT ![repeat] = "absent"]
  /\ stage' = After("prepare")
  /\ UNCHANGED <<routing, traffic, live, overwrite, execution, repeat, files>>

\* A phase of some duration with live traffic starts the threads.
Busy == live /\ Durations[stage] > 0

PhaseUnchanged == UNCHANGED <<routing, scenario, clock, known, rows, failures, late, ended,
                              author, begun, live, overwrite, execution, repeat, dirs, files>>

BeginPhase ==
  /\ stage \in {Phases[i] : i \in 1..3} /\ Busy
  /\ phase = NoPhase
  /\ \E mix \in Mixes[stage] :
       phase' = [name |-> stage, run |-> <<execution, repeat>>,
                 recorded |-> stage = "measure", mix |-> mix, next |-> 1,
                 stop |-> clock + Durations[stage]]
  /\ threads' = [t \in Threads |-> [NoThread EXCEPT !.pc = "loop", !.due = clock]]
  /\ stage' = stage
  /\ PhaseUnchanged

\* A slip TLC must notice: the threads are not joined.
EndPhaseAtOnce ==
  /\ phase # NoPhase
  /\ clock >= phase.stop
  /\ phase' = NoPhase
  /\ threads' = [t \in Threads |-> NoThread]
  /\ stage' = After(stage)
  /\ PhaseUnchanged

\* run_phase joins its threads.
EndPhase ==
  /\ phase # NoPhase
  /\ \A t \in Threads : threads[t].pc = "done"
  /\ phase' = NoPhase
  /\ threads' = [t \in Threads |-> NoThread]
  /\ stage' = After(stage)
  /\ PhaseUnchanged

\* Without traffic a phase is slept through.
SkipPhase ==
  /\ stage \in {Phases[i] : i \in 1..3} /\ ~Busy
  /\ stage' = After(stage)
  /\ UNCHANGED <<phase, threads>>
  /\ PhaseUnchanged

Written(whole) == [by |-> execution, whole |-> whole]

FilesUnchanged == UNCHANGED <<routing, traffic, live, overwrite, execution>>

\* The first file to be written makes the directory.
MakeRunDir ==
  /\ stage \in FileNames /\ ~DirExists(repeat)
  /\ dirs' = [dirs EXCEPT ![repeat] = "present"]
  /\ UNCHANGED <<stage, repeat, files>>
  /\ FilesUnchanged

\* The file is created, or emptied, and then written.
OpenFile ==
  /\ stage \in FileNames /\ DirExists(repeat)
  /\ files[repeat][stage] # Written(FALSE)
  /\ files' = [files EXCEPT ![repeat][stage] = Written(FALSE)]
  /\ UNCHANGED <<stage, repeat, dirs>>
  /\ FilesUnchanged

CloseFile ==
  /\ stage \in FileNames
  /\ files[repeat][stage] = Written(FALSE)
  /\ files' = [files EXCEPT ![repeat][stage] = Written(TRUE)]
  /\ stage' = After(stage)
  /\ repeat' = IF stage' = "prepare" THEN repeat + 1 ELSE repeat
  /\ UNCHANGED dirs
  /\ FilesUnchanged

\* The process dies: the threads and what they know are gone, their requests
\* may still be executed.
Crash ==
  /\ stage \notin Ended
  /\ execution < Executions[live]
  /\ stage' = "crashed"
  /\ late' = late \cup {Request(t) : t \in {s \in Threads : threads[s].pc = "call"}}
  /\ phase' = NoPhase
  /\ threads' = [t \in Threads |-> NoThread]
  /\ known' = {} /\ rows' = {} /\ begun' = 0
  /\ UNCHANGED <<routing, scenario, clock, failures, ended, author, live, overwrite, execution,
                 repeat, dirs, files>>

\* The same command once more, with --overwrite or without: a process that
\* starts takes longer than the clock's unit.
Invoke ==
  /\ stage \in Ended
  /\ execution < Executions[live]
  /\ execution' = execution + 1
  /\ clock' = clock + 1
  /\ stage' = "prepare"
  /\ repeat' = 0
  /\ overwrite' \in BOOLEAN
  /\ UNCHANGED <<routing, scenario, phase, threads, known, rows, failures, late, ended,
                 author, begun, live, dirs, files>>

RunnerStep ==
  \/ PrepareRunDir \/ RemoveFile \/ RemoveRunDir
  \/ BeginPhase \/ EndPhase \/ SkipPhase
  \/ MakeRunDir \/ OpenFile \/ CloseFile

Next ==
  \/ RunnerStep
  \/ PrecheckFails
  \/ Crash
  \/ Invoke
  \/ (Tick \/ ServeLate) /\ UNCHANGED runner
  \/ \E t \in Threads : ThreadStep(t) /\ UNCHANGED runner
  \/ \E j \in JobIds : EndJob(j) /\ UNCHANGED runner

Spec == Init /\ [][Next]_vars

\* An invocation runs on, its threads run on and time passes; nothing else
\* has to happen.
Fairness ==
  /\ WF_vars(RunnerStep)
  /\ WF_vars(Tick /\ UNCHANGED runner)
  /\ \A t \in Threads : WF_vars(ThreadStep(t) /\ UNCHANGED runner)

FairSpec == Spec /\ Fairness
-----------------------------------------------------------------------------
\* The types of the traffic's and the runner's variables.
TypeOK ==
  /\ RoutingTypeOK
  /\ scenario \in [design : Designs, mode : Modes]
  /\ phase.stop \in Nat /\ phase.recorded \in BOOLEAN
  /\ \A t \in Threads :
       /\ threads[t].pc \in {"done", "loop", "begin", "call", "backoff"}
       /\ threads[t].attempt \in 0..MaxAttempts
       /\ threads[t].sent \in 0..clock
  /\ known \subseteq Issued /\ ended \subseteq Issued
  /\ failures \in 0..MaxFailures
  /\ stage \in Ended \cup {"prepare", "remove", "warmup", "measure", "cooldown"} \cup FileNames
  /\ execution \in 1..Executions[live]
  /\ repeat \in 0..Repetitions[live] - 1
  /\ dirs \in [Repeats -> DirStates]
  /\ files \in [Repeats -> [FileNames -> [by : 0..execution, whole : BOOLEAN]]]

\* An operation creates at most one job, however often its submission is
\* repeated and whenever the attempts are executed: only a submission that
\* carries a key is repeated, under the same key and at the same server.
OneJobPerOperation ==
  \A j, k \in JobIds : j # k => author[j] \cap author[k] = {}

\* An accepted submission has a job of its own: no other operation's key, of
\* another thread or phase, makes the server answer with that one's job.
SubmissionsAreNotMerged ==
  \A row \in rows : row.method = "SubmitJob" /\ row.code = "OK" =>
    author[row.job] = {row.op}

\* Where every node orders the nodes as the client does, no call about a job
\* the run knows is answered NOT_FOUND: it goes to the node that created it.
FollowUpsFindTheirJob ==
  (\A n \in Nodes : Agrees(n)) => \A row \in rows : row.code # "NOT_FOUND"

\* The branch that submits a job in the name of thread 0 and operation -1,
\* under a key two threads could share, is never taken: a thread that chose a
\* call about a job still finds one when it picks it.
FallbackIsDead == \A t \in Threads : ~Stranded(t)

\* Once the measured phase is over, each operation begun in it has its row,
\* also those that ended after the phase's last tick.
EveryOperationHasItsRow ==
  live /\ stage \in {"cooldown"} \cup FileNames => Cardinality(rows) = begun

\* The summary's unique terminal jobs.
TerminalJobs == {row.job : row \in {r \in rows : r.code = "OK" /\ r.terminal}}

\* A job counted in the terminal throughput has ended at its server: a
\* cancellation that was only taken note of does not count.
CountedJobsHaveEnded == TerminalJobs \subseteq ended

\* The runs the aggregation takes, and whether it can read them.
Aggregated(r) == files[r]["summary.json"] # Absent /\ files[r]["metadata.json"] # Absent

Readable(r) == files[r]["metadata.json"].whole

\* What is aggregated of a run is of one invocation: each of its files was
\* wholly written by the one that wrote its metadata, whatever crashed or was
\* repeated.  Files are missing only where --overwrite has begun to remove them
\* and was cut off: such a run may still have its summary and metadata, and be
\* aggregated without its rows.
AggregatedRunsAgree ==
  \A r \in Repeats : Aggregated(r) /\ Readable(r) =>
    \A f \in FileNames :
      \/ files[r][f] = files[r]["metadata.json"]
      \/ files[r][f] = Absent /\ dirs[r] = "partial"

\* Without --overwrite no invocation touches a file that an earlier one wrote.
EarlierFilesAreKept ==
  [][\A r \in Repeats, f \in FileNames :
       ~overwrite /\ files[r][f].by \in 1..execution - 1 => files'[r][f] = files[r][f]]_vars

\* Every invocation ends, with its files written or refused, or crashes: no
\* thread waits for ever, since every attempt has a deadline and attempts are
\* counted.
InvocationsEnd == []<>(stage \in Ended)
=============================================================================
