# Verification of video-flow

video-flow inspects recorded videos.  An external platform creates tasks; the
**manager** (`workflow-manager`) keeps a table of jobs for them, hands the jobs
out over gRPC and reports results back to the platform; **workers**
(`workflow-worker`) poll for jobs, decode the media, run the recognition modules
and send a report; **AI servers** (`workflow-ai`) wrap the neural models.  This
directory holds TLA+ models of that system, TLC configurations that check them,
and TLAPS proofs.

## 1. Inventory

Paths below are relative to `src/workflow-manager/src/workflow_manager` (M) and
`src/workflow-worker/src/workflow_worker` (W).

| Component | State | Operations | Talks to | What is hard |
|---|---|---|---|---|
| Job table, `JobService` (M/core) | rows of `engine_jobs`: status, retry_times, created_time | create, count, select FOR UPDATE and mark RUNNING, update status / retry | the servicer, the HTTP API, the scheduler | row locks, sessions that raise, reads used in a later session |
| gRPC servicer (M/grpc) | none of its own; ten threads at work | `GetJob`, `CreateReport`, `Heartbeat`, `_rollback_to_retry` | the table, the platform, the workers | interleaving of threads, every call can fail half-way, restart |
| Platform client (M/client) | the platform's task status and reports | get_task, update_task_status, create_report | the servicer | a call that raised may have taken effect |
| HTTP API, scheduler (M/api, M/scheduler) | none | POST /jobs, reads, a count that is logged | the table | - |
| Scheduling loop (W/interfaces/cli) | the job a loop is running | poll, run, report | the manager, the job runner | lost answers and reports, death of the worker |
| Job runner and registries (W/applications/workflows, modules/factory) | `running_jobs`, streams and collectors by task, contexts by task | run_job, two phases of modules, cleanup | media stream, events, modules | two jobs of one task, cleanup by the wrong key |
| Media stream (W/infrastructure/media_stream) | ring of messages, channels and their queues, flags of the loops | stream, dispatch, input, output, close, force_stop | a media source, the modules' threads | back pressure, closing against draining, retry of the source |
| Ring, event collector (W/infrastructure, W/interfaces/events) | front, rear, slots | enqueue, dequeue; put, consume | media stream, modules | full and empty, wrap-around |
| Tracking, OCR manager, subtitle and script matching, intervals (W/services, W/applications/modules) | per-frame queues of sequences, OCR entries, lines of script | update per frame, finish | the modules | long sequences of legal calls, boundaries |
| Report (W/applications/modules/report) | - | combine the reporters' verdicts | the job runner | - |
| AI servers (workflow-ai) | a lazily built model | one request, one answer | the service clients | - |

What makes each correct:

* job table and servicer: a job has one owner at a time; a failed attempt is
  counted exactly once, and the job is FAILED after `MAX_RETRY_TIMES` of them;
  what the platform is told is true; every job ends; FAILED and SUCCESS are final;
* media stream: every module that is still reading gets the frames it asked for,
  in order, none lost and none twice; nobody waits for ever;
* ring and collector: a bounded first-in-first-out queue that drops only its oldest;
* job runner: what is counted as running is what runs; a run goes on to its report
  only with all results and after its threads have ended; contexts and channels
  belong to the run that uses them and stay within reach of what must close them;
* tracker: no person and no sighting is lost, one face is one sequence;
* person report: each sequence is one person, the times are exact, who had to be
  there is there or named as missing;
* subtitle matching: what is marked as recognised was read, and misses and
  stretches are those of the frames;
* cards, signatures, documents: each sighting is in one result, each result shows
  its own best, verdicts follow the sightings;
* scripts and banned words: nothing said is lost or counted twice.

`PROJECT.json` lists all parts with their files, and the hazards with the line
where each bites and the properties that guard it.

## 2. Plan

| Order | Module | Models | Proved in |
|---|---|---|---|
| 1 | `JobLifecycle` | the abstract life of a job | |
| 2 | `JobManager` | table, servicer threads, workers and platform; implements `JobLifecycle` | `JobManager_proofs` |
| 3 | `CircularQueue`, `EventCollector`, `EventQueue` | ring; collector on top of it, which implements a bounded queue | `EventCollector_proofs` |
| 4 | `MediaStream` | sources with retry, the ring of 3, dispatch, channels, readers | `MediaStream_proofs` |
| 5 | `WorkerJobs` | scheduling loops, `running_jobs`, streams, collectors and contexts by key, phases | `WorkerJobs_proofs` |
| 6 | `Selection`, `TimePatches` | what a loop keeps of a list; intervals of time | `Selection_proofs`, `Tracking_proofs` |
| 7 | `Tracking`, `PersonReport` | the tracker, and the report made of its sequences; both on 6 | `Tracking_proofs` |
| 8 | `Masks`, `SubtitleTracking` | what was recognised of a text; a job of subtitle matching, on that and on 6, for any comparison of texts | `Text_proofs` |
| 8 | `Diff`, `SubtitleMatching` | the comparison of texts, and the job with it | |
| 9 | `OcrInfo`, `OcrModule` | following what is seen of cards and documents; a job from its rules to the verdicts | `OcrModule_proofs` |
| 10 | `SpeechRules` | from words heard to the verdicts on scripts and banned words | `Text_proofs` |

Every module with actions has an MC module of its name with its instances, but
`EventCollector`, which its configuration instantiates directly.

How they compose.  `JobManager` sees a worker as what it is handed and what it
reports; `WorkerJobs` sees the manager as jobs handed out, `tries` times at most,
and a module as a thread that ends or fails; `MediaStream` is one stream of it in
detail, with the modules as readers.  `Tracking`, `SubtitleTracking` and `OcrModule`
are what such readers do with the frames, `PersonReport` and `SpeechRules` what
happens to their results.  Abstract specifications are the life of a job and the
bounded event queue; the algorithms are compared with definitions that do not
follow the code's loops.

What is left to do: the greedy pairing of faces with bodies in the detector, line
mode and semantic clean-up of the diff; and a proof of what a text comparison recognises (`MasksTruthful`), which is model-checked only.

Definitions named `X_How` are mutated forms of the definition `X` below them:
plausible bugs, each of which breaks a property of a run.  No specification uses
them.

## 3. JobManager

### State and actions

| Variable | Code |
|---|---|
| `job[j].status`, `job[j].retry` | the row of `engine_jobs` (M/core/models.py) |
| `lock[j]` | the row lock a `SELECT ... FOR UPDATE` holds until its session ends |
| `hs[h]` | one thread of the gRPC server: where it is in GetJob, CreateReport or `_rollback_to_retry`, the call it serves, the job it has selected, the `retry_times` it has read |
| `running[w]` | the job `schedule_jobs` was handed and has not reported yet |
| `ext[t]`, `reports[j]` | the platform: last status of the task, reports taken |

Every database session and every HTTP request is one action; between two of them
any other thread may run.  `GetJob` starts with the session that counts,
then `SelectPending`, `SelectRetry` run the two SELECTs.  A SELECT that meets a
locked row waits (`WaitPending`, `WaitRetry`) and afterwards re-evaluates its
WHERE on that row only, as PostgreSQL does in READ COMMITTED: a PENDING row
that is gone makes the thread go on to RETRY rows, although other PENDING rows
may be there.  `MarkRunning` commits and releases the lock.  `FetchTask`,
`NotifyRunning` are the platform calls; the last also is the reply.
`RollbackRead`/`RollbackWrite` are the two sessions of `_rollback_to_retry`.
`CreateReport` reads the row and branches; `EmptyReport`, `NotifyFailed`,
`ValidReport`, `SubmitReport`, `NotifySuccess` follow its order.  `BreakCall`,
`LoseJob`, `Restart` are the faults.

A call has one of three outcomes: `ok`, `err` (refused, nothing done) and `late`
(done, although the caller sees an exception).  Which outcomes occur is a
constant per kind of call.

Abstractions: a task, a report and a worker are names; report contents are
`valid` or `empty`; ids and creation times are ordered numbers; `update_job`'s
read and write of one session are one step; `Heartbeat` and the scheduler change
nothing and are left out, as are `JobRepository.delete` and
`JobService.transition_job_status`, which nothing calls.

### Runs

All instances have two jobs.  Three server threads are enough for one claiming,
one rolling back and one reporting at the same time; two workers for a job handed
out twice; `MaxRetryTimes = 2` has both branches of the limit test, a retry and a
last attempt (the code's 10 repeats the first of them).  Both jobs belong to one
task and share a creation time in the fault run, the harshest case for the
platform's view and for ORDER BY.

| Run | Question | Result |
|---|---|---|
| `manager_faults` | Are ownership, counting, truthfulness and finality safe under every interleaving, `err` and `late` platform calls, database errors, broken calls, lost workers and restarts? | holds (322,635 states) |
| `manager_reliable` | Does every job end, and does the servicer implement `JobLifecycle`, when threads and workers keep running? | holds (44,411 states) |
| `manager_proto` | Does a valid report make its job SUCCESS, with the report field as the protocol declares it? | violated: reading `value_json` raises |

Properties of the passing runs: `ExclusiveOwner` and the invariant `Ownership` it
rests on; `RetryNotStale`; `FailedExhausted`; `PlatformTruthful`;
`OneReportPerAttempt`; the action property `TerminalFinal`; without faults
`NoStrandedJob`, `SuccessDelivered`, the liveness property `JobsEnd` and the
refinement `ImplementsLifecycle`.  While a report is being submitted the row
already says SUCCESS and a failed submission takes it back; the refinement maps
that window to RUNNING, so the abstract SUCCESS is final.

### Fairness

`FairSpec` assumes weak fairness of each thread's next step (the server's thread
pool runs its calls; the platform's HTTP calls have timeouts and the database
answers), of each worker's poll (`schedule_jobs` polls every ten seconds for as
long as it lives) and of its report (`run_job` returns).  A poll is fair for "some
thread takes it", not for one thread.  Nothing is assumed of job creation,
platform answers or reports being valid.

### Proofs (`JobManager_proofs`)

Checked by tlapm for every number of jobs, threads, workers and retries.

* `TypeCorrect`: `Spec => []TypeOK`.  The strengthening is `HasJob` (a thread past
  its SELECT has a job), needed because a thread writes `job[hs[h].job]`.  The
  interesting part of the type is `retry_times < MAX_RETRY_TIMES`: it holds under
  every fault, with or without row locks.
* `OwnerUnique`, `OwnershipHolds`, `EndedIsFinal`, `FailuresCounted`, `CountNotStale`
  assume `RowLocks` (the database honours FOR UPDATE) and `CleanSessions` (a session
  that raises has not committed).  The inductive invariant is
  `TypeOK /\ HasJob /\ Ownership`, then with `RetryNotStale /\ FailedExhausted`.
  `ExclusiveOwner` alone is not inductive: a second claim is ruled out because an
  owned job is RUNNING or SUCCESS (`OwnedActive`), while a thread about to mark a row
  holds its lock and the row is PENDING or RETRY (`MarkLocked`); together these are
  `Ownership`, which `manager_faults` checks too.  `RowWrites` says who can change a
  row: creation, the marking of a PENDING or RETRY row, or the one handler that
  owns the job; finality and the counts follow.
* `ReportedOnce`, same assumptions: `OneReportPerAttempt`.  The invariant adds
  `Unreported` (before an attempt submits, the platform has no more reports of the job
  than failures are counted) and `Undelivered` (none at all where a submission
  that raises took no effect).
* `PlatformToldTheTruth`, same assumptions: `PlatformTruthful`, for any number of jobs
  of one task.  The invariant adds `ToldRight`: a handler about to tell the
  platform that a job succeeded or failed finds it so in the table.
* `ManagerImplementsLifecycle`: the refinement `ImplementsLifecycle`, assuming
  `RowLocks` and `SessionsCommit` (sessions do not raise, the manager does not crash;
  platform calls fail, calls break and workers die as they like).  `Seen(j)` is the
  abstract state of a job; each action is one abstract step of one job or changes no
  `Seen`.  `Working` is what the step rests on: a claimed job is RUNNING until the
  handler of its report, or of its rollback, writes the row.
* `SuccessIsDelivered`, same assumptions: `SuccessDelivered`.
* `NobodyForgetsAJob`, without faults: `NoStrandedJob`.  The invariant is `Callers`: a
  call at work belongs to one worker, which has no job meanwhile, so that what it is
  handed is not put in the place of another job.

The proofs group the actions by what they do to ownership (`OwnerMoves`,
`BystanderMoves`, `TakesRow`, `Claims`, `HandsOver`, `TakesOver`,
`FaultKeepsOwnership`) and to reports (`ReportsMove`, `OwnerWrites`, `OwnerLeaves`),
one lemma each, and each action is an instance of one.

Every invariant of the two runs and the refinement are proved; only the liveness
property `JobsEnd` is model-checked alone, liveness being out of the prover's reach.

## 4. Ring and event collector

`CircularQueue` has `enqueue` and `dequeue` of the code on a record of the fields
`front`, `rear` and `queue`; a slot keeps its item after `dequeue`, as in the code.
`Contents(r)` is the abstraction: the items from front to rear.  `EventCollector`
is the state machine: `Put` is atomic under the lock; `consume_some_events` is
`ConsumeBegin`, one `ConsumeOne` per turn of its loop, and `ConsumeEnd`, the lock
(`consuming`) held in between.  `EventQueue` is what it promises: a sequence of at
most `Capacity` events which forgets its head when a new one finds it full, and
batches nothing is put into.  The history variable `last` makes every put a visible
step: without it a collector that refuses events when full would pass for one that
does nothing.

Run `event_collector` (size 3, batches of 2, three events; 3,047 states: the ring
wraps, fills and empties at every offset) checks the types and
`ImplementsQueue`, the refinement under `pending <- Contents(ring)`.

`EventCollector_proofs` proves both for every size, 1 included, and every limit.
The assumptions are that sizes and limits are positive and that None is no event.
The inductive invariant is `WellFormed`: front and rear are -1 together, and every
slot from front to rear holds an event.  The code's `% size` has only two cases
(`NextIndex`); `Indices` turns a well-formed ring into linear arithmetic; on that
rest `FullCount` (the test for full is right), `EnqueueAppends` and
`DequeueTakesFirst`, and on those the step lemma of the refinement.

## 5. MediaStream

| Variable | Code |
|---|---|
| `src` | the stream loop with the source it drives: place, next message, attempt |
| `dis` | the dispatch loop: place, message in hand, channels still to serve |
| `cache` | `_cache`, a ring of `CircularQueue` |
| `channels`, `process_steps` | `message_channels`, `process_steps` |
| `ch[c]` | a FrameChannel: queue, `mark_closed`, queue closed |
| `con[c]` | its reader, a module's thread in `output()`, and what it has got |
| `is_stopped`, `is_dispatching`, `cancelled` | the flags, and the loops `force_stop` has cancelled |
| `config` | source, frame rates and faults of this use; fixed at the start |
| `accepted` | history: what entered the ring |

The two loops are coroutines: each action is what one does between two awaits.
`_broadcast` awaits only when a queue is full, but module threads run beside it, so
it is one action per channel (`ServeSkip`, `ServePut`, `ServeBlocked`, `ServeGone`,
`ServeRaises`) and holds the event loop meanwhile (`LoopFree`).  `StopAll` is
`force_stop`: a cancelled loop ends at its next await (`StreamCancelled`,
`DispatchStops`).  `StreamMessage`/`StreamRetryPut` are `_on_message`;
`StreamBreaks`, `StreamRetry`, `StreamGivesUp` the three attempts of the gRPC
source; `StreamError`, `StreamTruncated`, `SetupFails` its other ends.  `TestMark`,
`Get`, `GetTimeout` are the loop of `output`, `Leave` and `Fail` a module that has
enough or raises, and `CleanUp` the job runner marking its channels.  Subtitle
matching has a thread and a channel for each of its configurations (`config.subtitle`);
when one raises, its callback marks the channels of all, whose threads may still be
reading (`MarkSiblings`), and the module is cleaned up when all threads and callbacks
have ended.

Abstractions: a message is its id and whether it is a frame and the last; rates are
integers; where an attempt starts again is up to the media worker, any earlier
message; the stat loop only logs.  Between the set-up and the audio of the ffmpeg
source the code does not await; the model may interleave there, which only adds
behaviours.  One stream is started once with all its channels; a stream that is
started again, or stopped under the wrong key, belongs to `WorkerJobs` (the second
is here already as `ForceStop` at any time).  So does a module the job runner leaves
behind and never cleans up; here every module that ends is cleaned up.

### Runs

Two channels, one audio message, two frames and a last message; a ring of two and
queues of one: everything fills (the code's 1024 and 100 only later), the ring
wraps, and one channel takes every second frame.  Two attempts have both branches of
the code's three.  The faults are spread over the members of `Configs`, so that
breaking sources, failing modules, configurations of subtitle matching that fail,
early ends, leaving readers and stops each meet all interleavings; a run of all faults with one configuration gave three
million states and no other result for the invariants.

| Run | Question | Result |
|---|---|---|
| `media_stream` | Do readers get what they want, and does everything end? | holds (268,510 states) |
| `media_tail` | Does a reader that is told to stop have read its frames? | violated: the mark is tested before the queue |

`Delivery` is the invariant of the whole path: for a registered channel, what its
reader has, its queue, the message in hand and the ring are together what it wants
of all that was accepted; a removed channel has had a prefix.  `MarkedMeansOver` and
`WakesToItsChannels` guard closing: a channel let go is marked, and one still registered
is marked only when all readers of its module have ended or, the exception, when one
of subtitle matching has raised.  `ReadersEnd` and `LoopsEnd` are liveness; they
name three exceptions, which are the code's: the frame rates cannot be settled (the
stream task dies outside its `try` and stops nothing), the source ends without a
last message (counted as completed), and a stream loop that waits for room in a full
ring after dispatch has ended because all channels are gone.

### Fairness

Weak fairness of the stream loop, the dispatch loop and every reader (the event loop
and the operating system schedule them; the gRPC request has a timeout; a reader's
`get` times out), of the job runner's cleaning up, and of `Process`: a module gets
through its frame.  Faults are never assumed to happen.  Without `Process`, a module
that stands still, the others stand still too: dispatch waits for room in its queue.

### Proofs (`MediaStream_proofs`)

All three invariants, for any number of channels, any media, frame rates, faults and
sizes.

* `MarksAreTruthful`: `MarkedMeansOver`.  The inductive invariant is
  `Shape /\ MarkedMeansOver`; `Shape` says that channels and readers are records
  with their fields, which the many partial updates need, and that what is read by
  subtitle matching are channels.  That a reader which ended or failed stays so makes
  the exception stable (`MayBeMarked`, `MayStill`); the two actions that mark a single
  registered channel are dealt with in `SiblingStep` and `CleanUpStep`.
* `DeliversInOrder` (`Delivery`) and `WakesSafely` (`WakesToItsChannels`).  The
  invariant is `FlowInv`: to both it adds types, a well-formed ring (`HoldsMessages`,
  which is `WellFormed` of the collector's ring with messages for events),
  `ServesRegistered` (whatever a dispatch loop that serves still has to serve is
  registered, and one that is cancelled finds no channel at all) and `NothingYet`
  (nothing has entered the ring before the steps of the channels are known, so that
  what a channel wants does not change under it).  The ring is dealt with by
  `FullCount`, `EnqueueAppends` and `DequeueTakesFirst` of `EventCollector_proofs`, what
  a channel wants of a sequence by the lemmas on `Select` of `Selection_proofs`: an
  action moves one message from one of the four places to the next, and `Select` of
  a concatenation is the concatenation of the `Select`s.

`ChannelAssumption` says that the channels are served in some order, each once (they are
the keys of a dictionary); `MediaAssumption` that a medium has one last message.
`ReadersEnd` and `LoopsEnd` are liveness and model-checked only.

## 6. WorkerJobs

| Variable | Code |
|---|---|
| `loop[l]` | one coroutine of `schedule_jobs`: where it is and the run, `<<job, attempt>>`, it has |
| `handed[j]` | the manager: how often the job was handed out, whether it may be again |
| `running_jobs` | the list of the job runner, and what the loops compare with MAX_RUNNING_JOBS |
| `streams[k]` | `MediaStreamFactory._streams`: a stream with its flag and its channels, if any |
| `managed_collector` | the factory's collectors by task and module |
| `container[k]` | `TaskContextStore`: whose context is kept under the key |
| `channel[d]`, `thread[d]` | a reader, that is a module of a run: its channel, its thread and result |
| `reported` | history: the last run that ended, with what results |

The loops share one event loop, so an action is what happens between two awaits.
`StartRun` is a poll that gets a job, its context, modules, channels, stream and
threads of phase one; `RunAtOnce` a poll whose run ends before it first awaits (a
task that cannot be parsed, or without rules).  `ThreadOk`, `ThreadFails` are the
modules' threads, `StreamEnds`, `StreamBreaks` and `StreamStalls` the streams: at their
last message or when stopped, with an error, or closing nothing.  `Collect` is a turn of
`wait_for_threads_complete` that goes on, `StartPhaseTwo` the one that ends phase
one, `Finish` the end of a run by whatever way with clean-up and report.  A stream
is what `MediaStream` does in detail: here it lives, ends and closes its channels.

The keys are what this module is about.  Streams, collectors and contexts are kept
by the task's id; `run_job` cleans up streams by the job's.  So an instance is a
list of worlds (`Configs`): ids of jobs and tasks that may collide, jobs that share
a task, how often each is handed out, the rules, and the faults it meets.

Run `worker_jobs` (two loops, two jobs, up to two attempts each; 68,901 states)
checks eight worlds: failing modules and lost reports with one slot; a source that
cannot be built or breaks; a task whose id is another job's; two jobs of one task; two of
one task whose stream may close nothing; a module left behind by a subtitle
matching without a stream, and failing; a job handed out while it runs; no rules.  Two attempts are enough to meet what an
earlier attempt left behind.  Properties: `SlotsTruthful`, `ContextMatchesRun`,
`ReportComplete`, `ThreadsWaitedFor`, `OpenChannelsReachable`, and the liveness
property `RunsEnd`.  The exceptions they name are the code's: a job handed out twice
takes its own slot away, and a subtitle matching without a stream raises in phase one.
`RunsEnd` has an exception of its own, a `Silent` stream, under which a run may wait for
frames for ever.  The code has three: a stream stopped in an earlier attempt is found
again and never sends a frame; the frame rates cannot be settled, which raises outside
the `try` of `_stream_loop`, or the answers of the media worker end without a last
message, and nothing closes the channels (`StreamStalls`; the exceptions of `ReadersEnd`);
and a dispatch loop waits for room in the channel of a module that has failed and
that its run, having raised in phase one, does not clean up (`ServesLeftBehind`).

Fairness: a loop that can go on does (the event loop wakes it when a thread
ends), a stream is over in one way or another (`StreamOver`: at its end, broken, or
stalled where the world allows it; nothing makes it end well), and a module that has its input ends: its channel is closed, or there is
none, or it is one of phase two, or the sound has come.  Nothing
obliges a module to fail, a stream to break or stall, or the manager to hand out a job.

`WorkerJobs_proofs` proves all five invariants and the types, for any number of
jobs, loops and attempts and any worlds.  `TypeOK` is inductive with `Attempts`: an
attempt is made once and by one loop.  On these rest `Slots` (for `SlotsTruthful`),
`Contexts`, `OpenChannelsReachable` itself, and `Threads` (for `ReportComplete` and
`ThreadsWaitedFor`), which says that the threads of a run are those of the modules
launched in its phase, until it ends.  `RunsEnd` is model-checked only.

## 7. Recognition

These modules are sequential programs: an action is a frame, or the whole of a
computation.  There is no fairness to assume, and a job ends, so deadlock is not
checked.  Images, embeddings and engines are inputs; the inputs are small but all
of them, which is where the cases are: two sequences that want one place, a frame
that comes one millisecond after a sequence has died, an empty list.

**Tracking** (`TimePatches`, `Tracking`).  `predict` is a frame: humans are matched
with sequences by face, or by face and body boxes, in the code's order; matched
sequences move up, unmatched ones lose time to live, dead ones wait and may be
revived.  `merge` and `filter` are the end of the video.  A human is whose face it
is and where face and body are; `better` stands for the choice of the better
picture, which is made for all humans of a frame alike.  Run `tracking` (three
frames, one or three units apart with a tolerance of two, so that sequences live,
die and come back; two humans a frame of five, one with his back to the camera; 95,503
states): `PatchesApart`, `MergedDistinct`, `NoFaceLost`.

**PersonReport**.  `run` is the processor: patches long enough, sequences in order,
participants and the sequences they may be, who is taken for whom, times, gaps,
ratios, warnings and the reasons.  Run `person_report` (all pairs of five lists of
patches, five lists of participants, three similarities, three settings; three
units of video or none; 55,860 states): `OnePersonEach`, `TimesExact`, which
compares every list of the report with every unit of the video, and
`RequiredAnswered`.

**Proofs (`Tracking_proofs`)**, for lists of any length, any number of frames, humans and
faces, any gap and time to live:

* `AdjoinedExact`, `JoinedApart`: one turn of the two merging loops (`_merge_intervals`:
  nothing lost, nothing added; `_merge_time_patch`: what is added lies in a silence no
  longer than the gap).  Their hypotheses are that the list so far is in order and
  apart, which the turn gives back, and that the next patch comes in order, which
  sorting gives.
* `MergedIntervals`, `MergedPatches`: the loops as a whole, on lists in any order.
* `TimesStayApart`, `OneSequenceEach`, `FacesKept`: the run's three properties.  The
  invariant `TrackInv` says in every phase that sequences have ordered patches further
  apart than the gap that end by now (`Good`), that each time in `seen` is in one of
  them (`HasTime`), and after `merge` that stored faces differ (`StoredApart`).  Only the
  patch a sequence has open can grow, since an insertion of a sequence that is still
  alive is within the gap; `_rerank`, `_insert` and `merge` keep the times (`Keeps`), and
  a frame is a loop over its humans (`Pushed`).
* `OneForEach`, `RequiredNamed`: `OnePersonEach` and `RequiredAnswered` of the report, for any
  number of sequences and participants, any likeness, threshold and length of the video.
  `ReportInv` has besides them only that the inputs stay what they were; the work is in what
  `run` computes.  `RolesMetOnce`: each role that somebody is like comes once to its choice.
  `GivenSoFar`, the invariant of the choosing loop: nobody is given twice, who is given is
  like the role, and of a role left with nobody all that are like it have been given.
  `WellMapped`: with the sequences that stand for themselves the mapper has each sequence
  once.  `MissingIsAReason`: who is missing makes the status 1.
* `ReversedExact`, `StoredExact`: `_get_reversed_time_patchs` gives just the other units of the
  video, so that reversed twice, as `_get_all_ts` does it, the times of a person are the
  units of his patches.
* `CountExact`: `_get_time_patch_count` shows just the units in which more patches than the
  given number are open.  `SortedPoints`: the points swept are the starts and ends, each
  once, ends first (`Ranking`: in any order of n things each place has just one).
  `CountIsOpen`: the count is the starts so far less the ends.  `EntriesSoFar`: the entries
  last and end by now, but the last one when the count is above the number, which has its
  start.  `SweptSoFar`, the loop's invariant: of each unit before the last point the entries
  say what is to be said.
* `TimesReported`: `TimesExact`, from those: all the times of all who are on screen, one list
  after the other, have as many patches open in a unit as there are sequences on screen
  (`AllTimesOpen`, `PresentOnce`), and merged they have the units of any of them
  (`MergedUnits`, `StrangersShown`).
  `PersonReportAssumption` says of the tracker's patches what `TimesStayApart` proves of
  them, and that no role is a sequence's number.

**Subtitle matching** (`Diff`, `Masks`, `SubtitleTracking`, `SubtitleMatching`).  `Diff` is
`diff_main` with half match, bisection, merging clean-up and its deadline; `Masks`
which characters a difference has recognised and how good a match that is.
`SubtitleTracking` is a job: `run` compares the blocks of a frame with all that is due,
settles conflicts and counts, `finish` makes the lists.  How a text is compared with a
block is its constant `Compare`, and what the newer algorithm finds its constant
`Matches`; `SubtitleMatching` defines both from `Diff`, and its configuration gives them
to the constants.  A frame that raises has been counted for the texts due in it
(`Raise`); the newer algorithm raises with its first match and has recognised nothing
before.  Run `subtitle` (texts of up to five characters over three letters, two blocks
a frame of six texts or none, three frames, static, scrolling, once-only and timed
texts, a deadline after one round or never; 10,757 states): `MasksTruthful`,
`CountsAgree`, `MissedExact`, `AppearancesExact`.  `CharGap` and `Ttl` are 1 instead of 4 and
3, so that a gap too long occurs in five characters.

**Proofs (`Text_proofs`, first part)**, for any texts, frames, blocks and whatever
comparisons give: `CountsHold`, `MissedHold`, `AppearancesHold` state the last three
properties.  The invariant `SubtitleInv` has per text what its subtitle holds after the
frames so far (`Held`: one similarity a frame, the misses those below the threshold in
order, the counts), and per frame that its missed texts are those that were below
their threshold in it (`FrameTells`), that no similarity is of a frame without an entry,
and that a text always due has an entry for every frame (`EveryFrame`); at the end, that
the lists are made of these.  It holds unless the job raised.  `MasksDue`, an induction
over the conflicting blocks of a frame, is why a frame changes just the texts that are
due.  `SubtitleAssumption` makes seconds and frame rate natural numbers.  `MasksTruthful`
is about `Diff`, whose bisection and clean-up have no proof here, and stays
model-checked.

**OCR** (`OcrInfo`, `OcrModule`).  `OcrInfo` is the manager of one kind of thing:
its ids, the stretch it follows with its time to live, the best sighting and the
best reading.  `OcrModule` is a job: `start` parses the rule points, `image` reads
one (each `step`-th is looked at), `finish` gathers results; verdicts are read off.
`start` parses as often as the code does.  The creators of modules for cards and
signatures (factory.py:111, 138) make one only if something is asked for (`LeftOut`), and
parse the task again with the same generator of ids (`Refreshed`), to which every text is
then a repeated one: only configurations of detection are left, no card or signature is
compared with a text and none of their results is refused.  The branch of `BestShown` for
readings is therefore reached by documents only.  Nothing creates
`DocumentRecognitionModule`; it is modelled by its own methods, which parse once.

Run `ocr` (ten jobs of cards, signatures and documents, one of them with a title too
many and one with a step of 0, up to five images with any of up to eight answers; tolerance
1 or 2, so that two stretches end within; 47,020 states): `SightingsCovered`,
`BestShown`, `VerdictFollowsVideo`.  The last is about cards and signatures.  Of a title the
reporter's comment says that it must be detected to pass ("All titles must be detected to
pass", document_recognition/reporter.py:46), which the job cannot contradict: its results
that name a rule point are refused by the job's result, so it ends in an exception before
a reporter sees a title.

**Proofs (`OcrModule_proofs`)**, for every job, video, tolerance, step and answer:
`NoSightingLost` (`SightingsCovered`), `BestIsShown` (`BestShown`) and `VerdictFollows`
(`VerdictFollowsVideo`).  What a
manager does with an image is one of four things (`Generating`): nothing is
followed, a sighting begins or extends a stretch, the stretch waits, or it ends in a
result.  The invariant `FollowInv` says of each manager (`Follow`) that its results are in
order, apart and begin with a sighting, and that each frame seen is in one of them or
in the stretch from `start` on, which begins after the last result; and, when the job
ended, that all is told.  `ModuleAssumption` says what a
job and an answer are: rule points, participants and pages are lists, names and titles are
texts, thresholds and what is measured whole numbers, each kind of job asks its own
services.

`BestIsShown` rests on a second invariant, `ShowsInv`.  For each manager it says
(`BestFollow`) that what is kept is the best of the sightings from `start` on and of no
others: `LargestOf` of the stored one, `ClosestOf` of the reading of each field, and that
frames are in order and what is expected is named by the configuration; and that each
result is right of its own stretch (`Right`).  A frame adds its sightings to both sides
(`LookingBest`, `ProcessBest`), `_reinit` empties both (`ReinitBest`; without the reset of
the texts it fails, which the mutant shows), a later sighting lies outside of every result
told before (`RightLater`), and what `_register` starts with is the best of nothing
(`NewBest`).  A result shows one of its own frames because it is only read of them, and
shows the best since `Most` of finitely many numbers is one of them.  Every loop of
`OcrInfo` and `OcrModule` is a function on 0 .. n with a lemma that what its step keeps, it
keeps (`DetectSteps`, `BestSteps`, `AskCardsLoop`, ...).  Of `levenshtein` the proof needs
only that it is a whole number (`DistanceType`): that it is a distance is not claimed.

**Speech** (`SpeechRules`).  `Transcribe` makes a dialogue of what the service
heard, filled in as `Utterance` does; `HearNothing` and `SpeechFails` are its other
ends; `MatchScripts` and `DetectBannedWords` (or `DetectionFails`) are the two modules
of the second phase in any order, `Report` the verdicts.  Run `speech` (every utterance
of up to four of five characters, alone or after another, its letters words of
their own or the rest of it one, with and without an offset; two sets of scripts and
of banned words that compete; 143,760 states): `ScriptsHeard`, `BannedShown`.

**Proofs (`Text_proofs`, second part)**, for every alphabet, utterance, script and set
of banned words: `WordsShown` (`BannedShown`) and `NothingUnheard` (`ScriptsHeard`).  The
invariant `SpeechInv` says what each variable was made of: the dialogue is silence or
that of the task, every word of it shown by its text (else the job failed), and matches,
detections and verdicts are those of that dialogue.  What remains is about the loops, one
lemma of steps for each (`TextSteps`, `FillSteps`, `CutSteps`, `SubSteps`, `HitsSteps`,
`AlongSteps`):

* `WordsShown`.  `ContextShows`: before the first of the word's first character and behind
  the last of its last one nothing of the word stands, so what the context cuts off on
  either side is not missed once symbols are removed (`ShowsAfter`, `ShowsBefore`).
  Neither character is a comma, for symbols are gone from the word.
* `NothingUnheard`.  Filling in gives back the text, for what is between two words becomes
  words (`FilledText`); a cut takes the words up to it, a join those that wait
  (`CutStep`), and together the pieces are all words (`PiecesSaid`, `SubSaid`).  Times of
  pieces are times of words, each moved once (`UtteranceSaid`).  A hit takes a piece
  nobody has taken (`HitStep`, `AlongOnce`, `ResultsOnce`), and none is taken only when
  all that are like it are (`ResultsLeave`).  When one rule has all pieces, its text and
  the dialogue's have the same characters, and the score is 1 (`SameReaches`,
  `AllSimilar`).

`SpeechAssumption` says that characters and times are such, that words are said before
their utterance ends (what the service sends; without it a word may be placed behind the
sound), that a rule has one id and a threshold of 1 at most, that the comma is one of the
symbols, and that a small letter is a character.

## 8. Behaviour of the code that the models show or name

Besides the two runs that are expected to fail, translating the code met the
following.  The models behave so; properties name the exception where it matters.

* Manager: SQLite, the default database, ignores FOR UPDATE (`RowLocks = FALSE` breaks
  `ExclusiveOwner`).  RUNNING jobs of a dead worker stay RUNNING
  (docs/grpc-api.md:152 says they are rolled back).  A job FAILED by the rollback is
  not told to the platform (docs/grpc-api.md:185).
* Media: a module that stands still stops dispatch for all (docs/architecture.md:261
  says it does not).  A channel faster than its media gets a step of 0, and the
  stream stops itself.
* Worker: the clean-up of streams by job id leaves the task's stream behind, stopped,
  for the next attempt, and may stop another task's.  No report can be built:
  the names task_context.py:80-90 passes are not the reporters' parameters, and
  fields that `RulePointReport` and `AiResult` require are never given.
* Tracking: `_rerank` raises where the matched sequence stands before the insertion
  point.  A face is matched with each sequence's stored one only; the model takes
  likeness to be transitive.
* Persons: a report with participants cannot be built (an identity type is a number
  where text is declared).  `min_time_interval` is made milliseconds of twice
  (module.py:68, processor.py:202).  A video of duration 0 divides by zero.  A
  participant whose match was taken by another is not named as missing.  A role that
  starts with "v" counts as a stranger.  The reporter tests a status that is text, "0"
  too, so every result counts as failed.
* Subtitles: `int(seconds * fps)` may be 0, then the first of no frames is taken
  (IndexError); a height of 0 divides by zero; the newer algorithm ends in a
  KeyError as soon as it finds a match.  `_calc_confidence` leaves out the last character of a stretch (the
  comment in module.py gives 2/3 where the code gives 1/2).  A text that is not due
  counts as shown.  With several texts, frames without a miss may be listed.
* OCR: a recognised document is refused by the job's result (a rule point's id is
  a number where text is declared).  Cards and signatures are never recognised: the second
  parse of their creators finds every text repeated, and cards would have no deciding
  fields either.  An identity card's
  confidence of detection is always 1.  A page without text, a box of fractions or
  inverted, and an empty text in a rule point raise.  An id above 99 is matched by
  nothing.  With pydantic 2, which the worker asks for, the identity card's
  un-annotated field (domain/entities/service/ocr.py:162) is refused at import; the
  models take it as annotated.
* Speech: a filled-in word after the last one ends where that word started, and a
  leading one starts at 0.  Hits are not in order of time.  The text of a banned word
  said in capitals may lack it.  A word made of symbols only raises.  Required words
  are never checked.  A rule point that is not known passes.  Polling of the service
  has no bound while the answer is "ongoing".

## 9. Not modelled, and why

* Decoding, S3, HTTP, encodings and the retries of the AI clients are input and
  output, the AI servers stateless wrappers of neural models.  Image arithmetic,
  drawing and the wording of reports are data no property is about.
* The scheduler only logs a number; so does the stat loop of a stream.
* `Heartbeat` changes nothing, on either side.
* `OcrModule` models jobs the worker does not run yet: job_runner.py:12-18 imports neither
  the creator for cards nor the one for signatures, nobody else calls them, and there is none
  for documents.  `WorkerJobs` has the five kinds of modules that are run.
* `transition_job_status`, soft delete, `_get_start_ids`, `_match_scripts`,
  `_detect_reply` and the helpers only they use have no caller.
* No module of the worker puts an event, and the loop that would send events has no
  body; `EventCollector` is the queue in between.
* The vendored diff: patches, fuzzy matching, HTML, semantic clean-up and texts over
  100 characters, compared line by line first, are not what the worker does with
  the short texts it compares.
* The detector pairs faces with bodies of one frame greedily by scores; the model
  starts from pairs.
* Out of the prover's reach: liveness and ENABLED.  The library's induction theorems take
  an operator as a parameter and cannot be used; `Selection_proofs` has induction over
  numbers and sequences in a form without one (`UpTo`, `Growing`, `Iteration`: a set that
  holds 0, or the empty list, and what follows on its members), and on it `Select`
  (`SelectAppend`, `SelectConcat`, `SelectMembers`, `SelectDistinct`) and the loops of the
  models, which are written as functions on 0 .. n.  The one invariant that is still only
  model-checked, `MasksTruthful`, is about what the recursion of `Diff` over two texts
  finds.

## 10. Running

    for each run of PROJECT.json:   tlc -workers 2 -config <cfg> <module>.tla
    tlc -workers 2 -config MCJobManagerFaults.cfg MCJobManager.tla
    tlc -workers 2 -config MCMediaStream.cfg MCMediaStream.tla
    tlc -workers 2 -config MCWorkerJobs.cfg MCWorkerJobs.tla
    tlc -workers 2 -config MCEventCollector.cfg EventCollector.tla
    tlapm JobManager_proofs.tla          (and the other seven *_proofs.tla)

`MCJobManagerProto.cfg` and `MCMediaStreamTail.cfg` are expected to end with a
violation.
