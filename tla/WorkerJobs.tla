------------------------------ MODULE WorkerJobs ------------------------------
(***************************************************************************)
(* A worker process: the loops of interfaces/cli/worker.py, the job runner,*)
(* and what it keeps by task: media streams, event collectors, contexts.   *)
(*                                                                         *)
(* The loops share one event loop.  Fetching a job, building its modules   *)
(* and starting its stream happen without an await, and so do the end of a *)
(* run, its clean-up and the report; between them other runs go on, and the*)
(* modules themselves are threads.                                         *)
(***************************************************************************)
EXTENDS Integers, Sequences, FiniteSets

CONSTANTS
    Jobs,         \* job ids, numbers as task ids are
    Loops,        \* the coroutines that run schedule_jobs
    MaxTries,     \* the manager hands out a job at most so often
    Configs       \* what a worker may meet: [max, tries, taskOf, rules, faults]

AllRules == {"subtitle", "person", "banned", "script"}

(* What may go wrong: a task that cannot be parsed, a media source that    *)
(* cannot be built, a module that raises or returns None, a stream that    *)
(* breaks, or ends and closes nothing, a report that is lost; a job handed *)
(* out while it runs.                                                      *)
AllFaults == {"parse", "source", "module", "stream", "stall", "unsent", "twice"}

ASSUME WorkerAssumption ==
    /\ Jobs \subseteq Nat /\ IsFiniteSet(Jobs) /\ IsFiniteSet(Loops)
    /\ MaxTries \in Nat \ {0}
    /\ Configs \subseteq [max: Nat \ {0}, tries: [Jobs -> 0 .. MaxTries], taskOf: [Jobs -> Nat],
                          rules: SUBSET AllRules, faults: SUBSET AllFaults]

VARIABLES
    config,             \* the member of Configs this worker runs with
    loop,               \* per loop: where it is, and its run <<job, attempt>>
    handed,             \* per job: how often handed out, and whether it may be again
    running_jobs,       \* the ids the runner counts
    streams,            \* MediaStreamFactory._streams: per key a stream, if any
    managed_collector,  \* EventFactory: keys <<task, module>>
    container,          \* TaskContextStore: per task the run whose context it is
    channel,            \* per reader: no channel, open or marked closed
    thread,             \* per reader: not started, running, its result, result seen
    reported            \* history: the last run that ended: whether it was through with its
                        \* modules, whether a report was sent, the modules with results

vars == <<config, loop, handed, running_jobs, streams, managed_collector, container,
          channel, thread, reported>>

Runs == Jobs \X (1 .. MaxTries)

NoRun == <<0, 0>>

Task(r) == config.taskOf[r[1]]

(* Every number that occurs as a key: of a task, or wrongly of a job. *)
Keys == Jobs \union {c.taskOf[j] : c \in Configs, j \in Jobs}

PhaseOne == {"subtitle", "person", "speech"}

PhaseTwo == {"banned", "script"}

Modules == PhaseOne \union PhaseTwo

Readers == Runs \X Modules

StoppedStream == [stopped |-> TRUE, stalled |-> FALSE, live |-> 0, message_channels |-> {}]

NewStream == [stopped |-> FALSE, stalled |-> FALSE, live |-> 0, message_channels |-> {}]

Init ==
    /\ config \in Configs
    /\ loop = [l \in Loops |-> [pc |-> "idle", run |-> NoRun]]
    /\ handed = [j \in Jobs |-> [tries |-> 0, ready |-> TRUE]]
    /\ running_jobs = {} /\ managed_collector = {}
    /\ reported = [through |-> FALSE, ok |-> FALSE, results |-> {}]
    /\ streams = [k \in Keys |-> <<>>] /\ container = [k \in Keys |-> NoRun]
    /\ channel = [d \in Readers |-> "none"] /\ thread = [d \in Readers |-> "off"]

-----------------------------------------------------------------------------
(* Which modules a task needs; speech recognition serves three of them. *)

need_speech_detection == config.rules \intersect {"subtitle", "script", "banned"} # {}

ModulesOf == config.rules \union (IF need_speech_detection THEN {"speech"} ELSE {})

NeedsFrames == PhaseOne \intersect ModulesOf

(* The order in which they are created. *)
Place == [subtitle |-> 1, person |-> 2, speech |-> 3]

(* The readers of run r that have no stream: each module's call tries to   *)
(* construct one, and from the first that succeeds all have it.            *)
BuildOutcomes(r) ==
    IF streams[Task(r)] = <<>> /\ "source" \in config.faults
    THEN {{m \in NeedsFrames : Place[m] <= n} : n \in 0 .. Cardinality(PhaseOne)}
    ELSE {{}}

(* One stream per key: a sequence of at most one. *)
StreamAt(k) == IF streams[k] = <<>> THEN NewStream ELSE streams[k][1]

(* start: two more loops, which end at once on a stream that was stopped.  *)
Started(s, readers) ==
    [s EXCEPT !.message_channels = @ \union readers,
              !.live = IF s.stopped THEN @ ELSE @ + 1]

-----------------------------------------------------------------------------
(* create_job_report: the names results are passed by and asked for, and   *)
(* the fields of the report's entities, all of them required, as none has  *)
(* a default.  Each rule is a rule point of its own.                       *)
PassedAs == [subtitle |-> "subtitle_matching_job_result", person |-> "person_tracking_job_result",
             banned |-> "banned_word_detection_job_result", script |-> "script_matching_job_result"]

AskedFor == [subtitle |-> "subtitle_match_job_result", person |-> "human_tracking_job_result",
             banned |-> "banned_word_detection_job_result", script |-> "script_match_job_result"]

PointGets == [subtitle |-> {"subtitle_matching_report", "subtitle_cfg"},
              person   |-> {"person_tracking_report", "same_frame_cfg"},
              banned   |-> {"banned_word_detection_report", "banword_cfg"},
              script   |-> {"script_matching_report", "script_cfg"}]

RulePointReport == {"script_match_report", "banword_detection_report", "person_tracking_report",
                    "subtitle_matching_report", "script_cfg", "verification_cfgs",
                    "document_cfgs", "same_frame_cfg", "banword_cfg", "subtitle_cfg"}

AiResult == {"auc", "subtitle", "subtitle_continuous_appear"}

AiGets(results) ==
    UNION {IF m = "subtitle" THEN {"subtitle", "subtitle_continuous_appear"}
           ELSE IF m \in {"banned", "script"} THEN {"auc"} ELSE {} : m \in results}

create_job_report(results) ==
    /\ \A m \in config.rules : /\ AskedFor[m] \in {PassedAs[n] : n \in results \ {"speech"}}
                                /\ RulePointReport \subseteq PointGets[m]
    /\ AiResult \subseteq AiGets(results)

-----------------------------------------------------------------------------
(* The end of a run: clean-up, report, and the next poll.                  *)

(* Streams and collectors are looked up under the JOB's id. *)
Cleanup_AllByJob(r) ==
    /\ managed_collector' = {c \in managed_collector : c[1] # r[1]}
    /\ streams' = [streams EXCEPT ![r[1]] = <<>>]
    /\ container' = [container EXCEPT ![r[1]] = NoRun]

Cleanup(r) ==
    /\ managed_collector' = {c \in managed_collector : c[1] # r[1]}
    /\ streams' = [streams EXCEPT ![r[1]] = <<>>]
    /\ container' = [container EXCEPT ![Task(r)] = NoRun]

(* force_stop closes what the stream popped under the job's id still had. *)
StoppedReaders(r) == IF r = NoRun THEN {} ELSE StreamAt(r[1]).message_channels

(* A run that is through with its modules makes its report.  A report the  *)
(* manager gets ends a job, or has it handed out again.                    *)
SendReport(r, through) ==
    LET results == {m \in Modules : thread[<<r, m>>] \in {"ok", "seenok"}}
        ok      == through /\ create_job_report(results)
    IN  /\ reported' = [through |-> through, ok |-> ok, results |-> results]
        /\ \/ handed' = [handed EXCEPT ![r[1]].ready = @ \/ ~ok]
           \/ "unsent" \in config.faults /\ UNCHANGED handed

(* Threads the run leaves behind are not waited for.  A second pop of the  *)
(* same id raises out of run_job and ends the loop.                        *)
EndRun(l, r, through) ==
    IF r[1] \in running_jobs
    THEN /\ running_jobs' = running_jobs \ {r[1]}
         /\ Cleanup(r) /\ SendReport(r, through)
         /\ loop' = [loop EXCEPT ![l] = [pc |-> "idle", run |-> NoRun]]
    ELSE /\ loop' = [loop EXCEPT ![l] = [pc |-> "dead", run |-> r]]
         /\ UNCHANGED <<running_jobs, managed_collector, streams, container, reported, handed>>

Closed_FinishedOnly(readers, r) ==
    [d \in Readers |-> IF channel[d] = "open" /\ d \in readers THEN "closed" ELSE channel[d]]

(* The channels after those of readers are marked and r's clean-up is done.*)
Closed(readers, r) ==
    [d \in Readers |-> IF channel[d] = "open" /\ d \in readers \union StoppedReaders(r)
                       THEN "closed" ELSE channel[d]]

-----------------------------------------------------------------------------
(* A loop fetches a job and starts its run.                                *)

HasRoom_OneMore == Cardinality(running_jobs) <= config.max

HasRoom == Cardinality(running_jobs) < config.max

(* The manager hands out a job that is free, or one it has lost track of. *)
Hands(j) ==
    /\ handed[j].tries < config.tries[j]
    /\ handed[j].ready \/ "twice" \in config.faults

Hand(j) == [handed EXCEPT ![j] = [tries |-> @.tries + 1, ready |-> FALSE]]

Fetches(l, r) ==
    /\ loop[l].pc = "idle" /\ HasRoom
    /\ Hands(r[1]) /\ r[2] = handed[r[1]].tries + 1

Launch(r, M) == [d \in Readers |-> IF d[1] = r /\ d[2] \in M THEN "run" ELSE thread[d]]

(* create_*_modules, start_media_stream, the threads of phase 1. *)
StartRun(l, r) ==
    /\ Fetches(l, r) /\ NeedsFrames # {}
    /\ \E lost \in BuildOutcomes(r) :
         LET served == {r} \X (NeedsFrames \ lost)
         IN  /\ streams' = IF served = {} THEN streams
                           ELSE [streams EXCEPT ![Task(r)] = <<Started(StreamAt(Task(r)), served)>>]
             /\ channel' = [d \in Readers |-> IF d \in served THEN "open" ELSE channel[d]]
    /\ thread' = Launch(r, NeedsFrames)
    /\ handed' = Hand(r[1]) /\ running_jobs' = running_jobs \union {r[1]}
    /\ container' = [container EXCEPT ![Task(r)] = r]
    /\ managed_collector' = managed_collector \union {<<Task(r), m>> : m \in ModulesOf}
    /\ loop' = [loop EXCEPT ![l] = [pc |-> "phase1", run |-> r]]
    /\ UNCHANGED <<config, reported>>

(* A run that ends before its first await: the task cannot be parsed, or   *)
(* has no rules.  Its clean-up is the same.                                *)
RunAtOnce(l, r) ==
    /\ Fetches(l, r)
    /\ \E through \in BOOLEAN :
         LET ok == through /\ create_job_report({})
         IN  /\ through => ModulesOf = {}
             /\ ~through => "parse" \in config.faults
             /\ reported' = [through |-> through, ok |-> ok, results |-> {}]
             /\ handed' = [Hand(r[1]) EXCEPT ![r[1]].ready = ~ok]
    /\ running_jobs' = running_jobs \ {r[1]}
    /\ Cleanup(r)
    /\ channel' = Closed({}, r)
    /\ UNCHANGED <<config, loop, thread>>

-----------------------------------------------------------------------------
(* Threads and streams.                                                    *)

ThreadFrame == UNCHANGED <<config, loop, handed, running_jobs, managed_collector,
                           container, reported>>

(* A reader of frames ends when its channel is closed; one without a       *)
(* channel cannot but raise; speech recognition goes once it has audio.    *)
CanFinish(d) ==
    \/ d[2] \in PhaseTwo
    \/ channel[d] = "closed"
    \/ d[2] = "speech" /\ channel[d] = "open"

ThreadOk(d) ==
    /\ thread[d] = "run" /\ CanFinish(d)
    /\ thread' = [thread EXCEPT ![d] = "ok"]
    /\ UNCHANGED <<channel, streams>> /\ ThreadFrame

ThreadFails(d) ==
    /\ thread[d] = "run"
    /\ "module" \in config.faults \/ (d[2] \notin PhaseTwo /\ channel[d] = "none")
    /\ thread' = [thread EXCEPT ![d] = "none"]
    /\ UNCHANGED <<channel, streams>> /\ ThreadFrame

CloseOf(s) == [d \in Readers |->
    IF d \in s.message_channels /\ channel[d] = "open" THEN "closed" ELSE channel[d]]

(* One pair of loops is through with the media and closes all channels. *)
StreamEnds(k) ==
    /\ streams[k] # <<>> /\ StreamAt(k).live > 0
    /\ streams' = [streams EXCEPT ![k] = <<[StreamAt(k) EXCEPT !.live = @ - 1, !.message_channels = {}]>>]
    /\ channel' = CloseOf(StreamAt(k))
    /\ UNCHANGED thread /\ ThreadFrame

(* An exception in it stops the stream for good. *)
StreamBreaks(k) ==
    /\ "stream" \in config.faults /\ streams[k] # <<>> /\ StreamAt(k).live > 0
    /\ streams' = [streams EXCEPT ![k] = <<StoppedStream>>]
    /\ channel' = CloseOf(StreamAt(k))
    /\ UNCHANGED thread /\ ThreadFrame

(* A channel of a run that has ended is still served: a module left behind *)
(* by a subtitle matching without a stream, and which may fail.            *)
ServesLeftBehind(k) ==
    /\ {"source", "module"} \subseteq config.faults
    /\ \E d \in StreamAt(k).message_channels : \A l \in Loops : loop[l].run # d[1]

(* A pair of loops that will close nothing: the frame rates cannot be      *)
(* settled, which raises outside the try of _stream_loop, or the answers   *)
(* end without a last message; or the loops wait for ever for room in a    *)
(* channel of which nobody marks that its module has failed.               *)
StreamStalls(k) ==
    /\ "stall" \in config.faults \/ ServesLeftBehind(k)
    /\ streams[k] # <<>> /\ StreamAt(k).live > 0
    /\ streams' = [streams EXCEPT ![k] = <<[StreamAt(k) EXCEPT !.live = @ - 1, !.stalled = TRUE]>>]
    /\ UNCHANGED <<channel, thread>> /\ ThreadFrame

StreamOver(k) == StreamEnds(k) \/ StreamBreaks(k) \/ StreamStalls(k)

-----------------------------------------------------------------------------
(* The loop wakes when threads have ended.                                 *)

Of(r, states) == {d \in Readers : d[1] = r /\ thread[d] \in states}

Fresh_OkOnly(r) == Of(r, {"ok"})

Fresh(r) == Of(r, {"ok", "none"})

(* Subtitle matching has a list of channels, and a None in it raises. *)
CleanUpRaises(r) == \E d \in Fresh(r) : d[2] = "subtitle" /\ channel[d] = "none"

Seen(r) == [d \in Readers |->
    IF d \in Fresh(r) THEN (IF thread[d] = "ok" THEN "seenok" ELSE "seennone") ELSE thread[d]]

AllResults_IgnoresNone(r) == Of(r, {"run"}) = {}

AllResults(r) == Of(r, {"none", "seennone"}) = {}

MayLeave_OnFirstFailure(l, r) ==
    \/ CleanUpRaises(r) \/ ~AllResults(r)
    \/ Of(r, {"run"}) = {} /\ (loop[l].pc = "phase2" \/ ModulesOf \intersect PhaseTwo = {})

(* A phase waits for all its modules, the failed and the others.           *)
MayLeave(l, r) ==
    \/ CleanUpRaises(r)
    \/ /\ Of(r, {"run"}) = {}
       /\ \/ ~AllResults(r)
          \/ loop[l].pc = "phase2" \/ ModulesOf \intersect PhaseTwo = {}

Wakes(l, pc) == loop[l].pc = pc /\ Fresh(loop[l].run) # {}

WakeFrame == UNCHANGED <<config, handed, running_jobs, streams, managed_collector,
                         container, reported>>

(* Some of them go on: mark the channels of the others, wait again. *)
Collect(l) ==
    LET r == loop[l].run
    IN  /\ loop[l].pc \in {"phase1", "phase2"} /\ Fresh(r) # {}
        /\ ~CleanUpRaises(r) /\ Of(r, {"run"}) # {}
        /\ thread' = Seen(r)
        /\ channel' = Closed(Fresh(r), NoRun)
        /\ UNCHANGED loop /\ WakeFrame

(* All of phase 1 have results: they are stored, and phase 2 starts. *)
StartPhaseTwo(l) ==
    LET r == loop[l].run
    IN  /\ Wakes(l, "phase1") /\ ~CleanUpRaises(r)
        /\ Of(r, {"run"}) = {} /\ AllResults(r)
        /\ ModulesOf \intersect PhaseTwo # {}
        /\ thread' = [d \in Readers |->
                        IF d[1] = r /\ d[2] \in ModulesOf \intersect PhaseTwo THEN "run" ELSE Seen(r)[d]]
        /\ channel' = Closed(Fresh(r), NoRun)
        /\ loop' = [loop EXCEPT ![l].pc = "phase2"]
        /\ WakeFrame

(* The last phase is over, or an exception leaves it. *)
Finish(l) ==
    LET r == loop[l].run
    IN  /\ loop[l].pc \in {"phase1", "phase2"} /\ Fresh(r) # {}
        /\ MayLeave(l, r)
        /\ EndRun(l, r, AllResults(r) /\ ~CleanUpRaises(r))
        /\ thread' = [d \in Readers |-> IF d[1] = r /\ thread[d] # "run" THEN "off" ELSE thread[d]]
        /\ channel' = [d \in Readers |->
                         IF d[1] = r /\ thread[d] # "run" THEN "none"
                         ELSE Closed({}, IF r[1] \in running_jobs THEN r ELSE NoRun)[d]]
        /\ UNCHANGED config

Next ==
    \/ \E l \in Loops :
         \/ \E r \in Runs : StartRun(l, r) \/ RunAtOnce(l, r)
         \/ Collect(l) \/ StartPhaseTwo(l) \/ Finish(l)
    \/ \E d \in Readers : ThreadOk(d) \/ ThreadFails(d)
    \/ \E k \in Keys : StreamOver(k)

(* Loops are woken, a stream is over in one way or another, and a module   *)
(* that has its input, or no channel at all, ends.                         *)
Fairness ==
    /\ \A l \in Loops : WF_vars(Collect(l) \/ StartPhaseTwo(l) \/ Finish(l))
    /\ \A d \in Readers : WF_vars(ThreadOk(d) \/ (channel[d] = "none" /\ ThreadFails(d)))
    /\ \A k \in Keys : WF_vars(StreamOver(k))

Spec == Init /\ [][Next]_vars /\ Fairness

-----------------------------------------------------------------------------
(* Properties.                                                             *)

Active == {l \in Loops : loop[l].pc \in {"phase1", "phase2"}}

(* Each job has a task of its own, and is not handed out while it runs. *)
Exclusive ==
    /\ \A i, j \in Jobs : config.taskOf[i] = config.taskOf[j] => i = j
    /\ "twice" \notin config.faults

LoopState == [pc: {"idle", "phase1", "phase2", "dead"}, run: Runs \union {NoRun}]

Stream == [stopped: BOOLEAN, stalled: BOOLEAN, live: Nat, message_channels: SUBSET Readers]

(* Types of all variables. *)
TypeOK ==
    /\ config \in Configs
    /\ loop \in [Loops -> LoopState]
    /\ handed \in [Jobs -> [tries: 0 .. MaxTries, ready: BOOLEAN]]
    /\ running_jobs \subseteq Jobs
    /\ streams \in [Keys -> Seq(Stream)]
    /\ managed_collector \subseteq Keys \X Modules
    /\ container \in [Keys -> Runs \union {NoRun}]
    /\ channel \in [Readers -> {"none", "open", "closed"}]
    /\ thread \in [Readers -> {"off", "run", "ok", "none", "seenok", "seennone"}]
    /\ reported \in [through: BOOLEAN, ok: BOOLEAN, results: SUBSET Modules]

(* running_jobs, which all loops test before they fetch, is the jobs being *)
(* run, never more than MAX_RUNNING_JOBS; and no loop dies of a missing id *)
(* (schedule_jobs, run_job).  Only a job handed out twice breaks this.     *)
SlotsTruthful ==
    "twice" \notin config.faults =>
        /\ running_jobs = {loop[l].run[1] : l \in Active}
        /\ Cardinality(Active) <= config.max
        /\ \A l \in Loops : loop[l].pc # "dead"

(* A context is that of a run a loop still has, and a run with a task of   *)
(* its own has its context from start to end (store, clear): its threads   *)
(* ask for the task's logger at any time.                                  *)
ContextMatchesRun ==
    /\ \A k \in Keys : container[k] # NoRun => \E l \in Loops : loop[l].run = container[k]
    /\ Exclusive => \A l \in Active : container[Task(loop[l].run)] = loop[l].run

(* A run that goes on to its report has the result of every module its     *)
(* task needs (wait_for_threads_complete, update_module_results).          *)
ReportComplete ==
    reported.through => reported.results = ModulesOf

(* However modules fail, the threads of a run end before it does; only a   *)
(* subtitle matching without a stream makes the runner leave earlier.      *)
ThreadsWaitedFor ==
    \A d \in Readers :
        thread[d] = "run" /\ (\A l \in Active : loop[l].run # d[1])
            => "source" \in config.faults /\ "subtitle" \in ModulesOf

(* A channel not closed is registered with the stream its task's key leads *)
(* to, whichever run ends meanwhile: what nobody knows nobody can close    *)
(* (stop_media_stream, force_stop, add_channel on a stream that is reused).*)
OpenChannelsReachable ==
    \A d \in Readers :
        channel[d] = "open" => d \in StreamAt(Task(d[1])).message_channels

(* The stream of run r sends nothing more and will close no channel: it    *)
(* was stopped in an earlier attempt, or its loops are over or stand still.*)
Silent(r) ==
    /\ streams[Task(r)] # <<>>
    /\ \/ StreamAt(Task(r)).stopped
       \/ StreamAt(Task(r)).stalled /\ StreamAt(Task(r)).live = 0

(* Every run ends, whatever modules, sources and reports fail; but one     *)
(* with a silent stream may wait for frames for ever, in the three ways    *)
(* the code has: a stream stopped before, one without a frame rate or a    *)
(* last message, one that waits for a module its run left behind           *)
(* (wait_for_threads_complete, start_media_stream, _stream_loop).          *)
RunsEnd ==
    \A l \in Loops : l \in Active ~> l \notin Active \/ Silent(loop[l].run)
=============================================================================
