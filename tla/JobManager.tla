----------------------------- MODULE JobManager -----------------------------
(***************************************************************************)
(* The manager: the engine_jobs table, the threads of the gRPC server that *)
(* run JobManagerServicer.GetJob and CreateReport, the HTTP endpoint that  *)
(* creates jobs, and the external platform the servicer calls.  Every      *)
(* database session and every HTTP request of a handler is one step, so    *)
(* the threads interleave wherever the code lets them.  The workers are    *)
(* the callers: a worker's schedule_jobs loop holds at most one job at a   *)
(* time and sends one report for it.                                       *)
(***************************************************************************)
EXTENDS Naturals, FiniteSets

CONSTANTS
  NJobs,         \* jobs are 1..NJobs, in the order of their ids
  InitialJobs,   \* the jobs already in the table when the manager starts
  TaskOf,        \* the platform's task of each job
  CreatedTime,   \* created_time of each job, as ORDER BY sees it
  MaxRetryTimes, \* MAX_RETRY_TIMES (10)
  Handlers,      \* the threads of the gRPC server
  Workers,       \* the schedule_jobs loops of the workers
  None,          \* no handler, no worker
  RowLocks,      \* the database honours SELECT ... FOR UPDATE
  ReportFieldReadable, \* JobReport has the field value_json the servicer reads
  Verdicts,       \* what a worker reports: "valid", or "empty" after an error
  FetchOutcomes,  \* of get_task
  StatusOutcomes, \* of update_task_status
  SubmitOutcomes, \* of create_report
  DbOutcomes,     \* of a database session
  Faults          \* "worker": a worker dies or a call breaks; "crash": a restart

Jobs == 1 .. NJobs
NoJob == 0

\* A call is done ("ok"), refused with no effect ("err"), or done although the
\* caller gets an exception ("late": a timeout, a refresh that fails after commit).
Outcomes == {"ok", "err", "late"}

ASSUME ManagerAssumption ==
  /\ NJobs \in Nat
  /\ InitialJobs \in 0 .. NJobs
  /\ DOMAIN TaskOf = Jobs
  /\ CreatedTime \in [Jobs -> Nat]
  /\ \A i, j \in Jobs : i < j => CreatedTime[i] <= CreatedTime[j]
  /\ MaxRetryTimes \in Nat \ {0}
  /\ None \notin Handlers \cup Workers
  /\ RowLocks \in BOOLEAN /\ ReportFieldReadable \in BOOLEAN
  /\ Verdicts \subseteq {"valid", "empty"}
  /\ FetchOutcomes \subseteq {"ok", "err"}
  /\ StatusOutcomes \subseteq Outcomes /\ SubmitOutcomes \subseteq Outcomes
  /\ DbOutcomes \subseteq Outcomes
  /\ Faults \subseteq {"worker", "crash"}

VARIABLES
  job,      \* the table: status and retry_times of each job
  lock,     \* the handler whose transaction holds the row lock of each job
  hs,       \* each handler thread: where it is, whom it serves, what it has read
  running,  \* the job each worker loop has been handed
  ext,      \* the platform: the last status set of each task
  reports   \* the platform: the number of reports it took for each job

vars == <<job, lock, hs, running, ext, reports>>

Status == {"ABSENT", "PENDING", "RUNNING", "RETRY", "SUCCESS", "FAILED"}
Tasks == {TaskOf[j] : j \in Jobs}

\* Between claiming a job and the write that gives it up, a handler owns the job.
OwnerPcs == {"fetch", "notifyRunning", "rollbackRead", "rollbackWrite",
             "emptyReport", "validReport", "submit"}
Pcs == {"idle", "selectPending", "waitPending", "selectRetry", "waitRetry", "mark",
        "notifyFailed", "notifySuccess"} \cup OwnerPcs

Counts == 0 .. MaxRetryTimes - 1
JobRow == [status : Status, retry : Counts]
HandlerState == [pc : Pcs, client : Workers \cup {None}, job : Jobs \cup {NoJob},
                 retry : Counts]
TaskStatus == {"NONE", "RUNNING", "SUCCESS", "FAILED"}

TypeOK ==
  /\ job \in [Jobs -> JobRow]
  /\ lock \in [Jobs -> Handlers \cup {None}]
  /\ hs \in [Handlers -> HandlerState]
  /\ running \in [Workers -> Jobs \cup {NoJob}]
  /\ ext \in [Tasks -> TaskStatus]
  /\ reports \in [Jobs -> Nat]

\* A handler that has selected no row yet has no job.
JoblessPcs == {"idle", "selectPending", "selectRetry"}
HasJob == \A h \in Handlers : hs[h].job = NoJob => hs[h].pc \in JoblessPcs

Idle == [pc |-> "idle", client |-> None, job |-> NoJob, retry |-> 0]

Init ==
  /\ job = [j \in Jobs |-> [status |-> IF j <= InitialJobs THEN "PENDING" ELSE "ABSENT",
                            retry |-> 0]]
  /\ lock = [j \in Jobs |-> None]
  /\ hs = [h \in Handlers |-> Idle]
  /\ running = [w \in Workers |-> NoJob]
  /\ ext = [t \in Tasks |-> "NONE"]
  /\ reports = [j \in Jobs |-> 0]

-----------------------------------------------------------------------------
(* Helpers *)

Calling(w) == \E h \in Handlers : hs[h].client = w
Free(w) == running[w] = NoJob /\ ~Calling(w)

At(h, pc) == hs[h].pc = pc
Goto(h, pc) == hs' = [hs EXCEPT ![h].pc = pc]
Hold(h, pc, j) == hs' = [hs EXCEPT ![h].pc = pc, ![h].job = j]
Recall(h, pc, r) == hs' = [hs EXCEPT ![h].pc = pc, ![h].retry = r]
Done(h) == hs' = [hs EXCEPT ![h] = Idle]

Runnable == {j \in Jobs : job[j].status \in {"PENDING", "RETRY"}}

\* ORDER BY created_time: jobs created in the same clock tick tie.
FirstPending ==
  LET P == {j \in Jobs : job[j].status = "PENDING"}
  IN  {j \in P : \A k \in P : CreatedTime[j] <= CreatedTime[k]}

FirstRetry_FailedToo == {j \in Jobs : job[j].status \in {"RETRY", "FAILED"}}

\* ORDER BY retry_times, created_time.
FirstRetry ==
  LET R == {j \in Jobs : job[j].status = "RETRY"}
  IN  {j \in R : \A k \in R : \/ job[j].retry < job[k].retry
                              \/ /\ job[j].retry = job[k].retry
                                 /\ CreatedTime[j] <= CreatedTime[k]}

\* An UPDATE waits for the transaction that holds the row.
Writable(h, j) == lock[j] \in {None, h}

\* The row as a session leaves it, if the session commits before it raises.
Committed(o, j, row) == IF o = "err" THEN job ELSE [job EXCEPT ![j] = row]

LimitReached_Early(r) == r + 2 >= MaxRetryTimes
LimitReached_Late(r) == r + 1 > MaxRetryTimes
LimitReached(r) == r + 1 >= MaxRetryTimes

\* One more failure of job j, r being the retry_times the handler has read.
FailedRow_NotCounted(j, r) == [status |-> "RETRY", retry |-> r]
FailedRow(j, r) ==
  IF LimitReached(r) THEN [job[j] EXCEPT !.status = "FAILED"]
                     ELSE [status |-> "RETRY", retry |-> r + 1]

\* The platform's status of the job's task after update_task_status(status).
Notified(o, j, s) == IF o = "err" THEN ext ELSE [ext EXCEPT ![TaskOf[j]] = s]
-----------------------------------------------------------------------------
(* JobService.create_job, called by the HTTP endpoint: ids are handed out in order *)

CreateJob(j) ==
  /\ job[j].status = "ABSENT"
  /\ \A i \in Jobs : i < j => job[i].status # "ABSENT"
  /\ job' = [job EXCEPT ![j].status = "PENDING"]
  /\ UNCHANGED <<lock, hs, running, ext, reports>>

-----------------------------------------------------------------------------
(* GetJob *)

\* get_runnable_job counts in a session of its own before it selects.
GetJob(h, w) ==
  /\ At(h, "idle") /\ Free(w)
  /\ Runnable # {}
  /\ hs' = [hs EXCEPT ![h] = [Idle EXCEPT !.pc = "selectPending", !.client = w]]
  /\ UNCHANGED <<job, lock, running, ext, reports>>

GetJobNotFound(h, w) ==
  /\ At(h, "idle") /\ Free(w)
  /\ Runnable = {}
  /\ UNCHANGED vars

TakeRow_NoLock(h, j) ==
  /\ Hold(h, "mark", j)
  /\ lock' = lock

TakeRow(h, j) ==
  /\ Hold(h, "mark", j)
  /\ lock' = IF RowLocks THEN [lock EXCEPT ![j] = h] ELSE lock

\* SELECT ... LIMIT 1 FOR UPDATE: the first row is taken, or waited for when
\* another transaction holds it.
SelectRow(h, first, wait) ==
  \E j \in first :
    \/ /\ lock[j] = None
       /\ TakeRow(h, j)
    \/ /\ lock[j] # None
       /\ Hold(h, wait, j)
       /\ UNCHANGED lock

SelectPending(h) ==
  /\ At(h, "selectPending")
  /\ \/ SelectRow(h, FirstPending, "waitPending")
     \/ FirstPending = {} /\ Goto(h, "selectRetry") /\ UNCHANGED lock
  /\ UNCHANGED <<job, running, ext, reports>>

SelectRetry(h) ==
  /\ At(h, "selectRetry")
  /\ \/ SelectRow(h, FirstRetry, "waitRetry")
     \/ FirstRetry = {} /\ Done(h) /\ UNCHANGED lock
  /\ UNCHANGED <<job, running, ext, reports>>

\* The row is free again: the database re-evaluates WHERE on the row it waited
\* for, and finds no row when that one no longer qualifies.
WaitPending(h) ==
  /\ At(h, "waitPending") /\ lock[hs[h].job] = None
  /\ \/ job[hs[h].job].status = "PENDING" /\ TakeRow(h, hs[h].job)
     \/ /\ job[hs[h].job].status # "PENDING"
        /\ Hold(h, "selectRetry", NoJob)
        /\ UNCHANGED lock
  /\ UNCHANGED <<job, running, ext, reports>>

WaitRetry(h) ==
  /\ At(h, "waitRetry") /\ lock[hs[h].job] = None
  /\ \/ job[hs[h].job].status = "RETRY" /\ TakeRow(h, hs[h].job)
     \/ job[hs[h].job].status # "RETRY" /\ Done(h) /\ UNCHANGED lock
  /\ UNCHANGED <<job, running, ext, reports>>

\* An exception before the job is marked: GetJob answers INTERNAL and nothing changed.
SelectFails(h) ==
  /\ "err" \in DbOutcomes
  /\ hs[h].pc \in {"selectPending", "waitPending", "selectRetry", "waitRetry"}
  /\ Done(h)
  /\ UNCHANGED <<job, lock, running, ext, reports>>

\* The commit releases the row; GetJob rolls nothing back when the session raises.
MarkRunning(h) ==
  LET j == hs[h].job IN
  /\ At(h, "mark") /\ Writable(h, j)
  /\ \E o \in DbOutcomes :
       /\ job' = Committed(o, j, [job[j] EXCEPT !.status = "RUNNING"])
       /\ IF o = "ok" THEN Goto(h, "fetch") ELSE Done(h)
  /\ lock' = [lock EXCEPT ![j] = None]
  /\ UNCHANGED <<running, ext, reports>>

FetchTask_NoRollback(h) ==
  /\ At(h, "fetch")
  /\ \E o \in FetchOutcomes : IF o = "ok" THEN Goto(h, "notifyRunning") ELSE Done(h)
  /\ UNCHANGED <<job, lock, running, ext, reports>>

FetchTask(h) ==
  /\ At(h, "fetch")
  /\ \E o \in FetchOutcomes :
       Goto(h, IF o = "ok" THEN "notifyRunning" ELSE "rollbackRead")
  /\ UNCHANGED <<job, lock, running, ext, reports>>

\* The last step of GetJob: the answer hands the job to the worker, if the call still stands.
NotifyRunning(h) ==
  LET j == hs[h].job
      w == hs[h].client
  IN
  /\ At(h, "notifyRunning")
  /\ \E o \in StatusOutcomes :
       /\ ext' = Notified(o, j, "RUNNING")
       /\ IF o = "ok"
            THEN /\ running' = IF w = None THEN running ELSE [running EXCEPT ![w] = j]
                 /\ Done(h)
            ELSE /\ Goto(h, "rollbackRead")
                 /\ UNCHANGED running
  /\ UNCHANGED <<job, lock, reports>>

-----------------------------------------------------------------------------
(* _rollback_to_retry: two sessions, and every exception is swallowed *)

RollbackRead_KeepsCount(h) ==
  /\ At(h, "rollbackRead")
  /\ Goto(h, "rollbackWrite")
  /\ UNCHANGED <<job, lock, running, ext, reports>>

RollbackRead(h) ==
  /\ At(h, "rollbackRead")
  /\ \E o \in DbOutcomes :
       IF o = "ok" THEN Recall(h, "rollbackWrite", job[hs[h].job].retry) ELSE Done(h)
  /\ UNCHANGED <<job, lock, running, ext, reports>>

RollbackWrite(h) ==
  LET j == hs[h].job IN
  /\ At(h, "rollbackWrite") /\ Writable(h, j)
  /\ \E o \in DbOutcomes : job' = Committed(o, j, FailedRow(j, hs[h].retry))
  /\ Done(h)
  /\ UNCHANGED <<lock, running, ext, reports>>

-----------------------------------------------------------------------------
(* CreateReport *)

\* What CreateReport does after get_job: an exception leads to the rollback, and
\* reading value_json is one when JobReport has no such field.
ReportBranch(o, v) ==
  IF o # "ok" \/ ~ReportFieldReadable THEN "rollbackRead"
  ELSE IF v = "empty" THEN "emptyReport" ELSE "validReport"

\* The worker reports on the job it was handed, and get_job reads the row.
CreateReport(h, w) ==
  LET j == running[w] IN
  /\ At(h, "idle") /\ j # NoJob /\ ~Calling(w)
  /\ \E v \in Verdicts, o \in DbOutcomes :
       hs' = [hs EXCEPT ![h] = [pc |-> ReportBranch(o, v), client |-> w, job |-> j,
                                retry |-> job[j].retry]]
  /\ running' = [running EXCEPT ![w] = NoJob]
  /\ UNCHANGED <<job, lock, ext, reports>>

EmptyReport(h) ==
  LET j == hs[h].job
      r == hs[h].retry
  IN
  /\ At(h, "emptyReport") /\ Writable(h, j)
  /\ \E o \in DbOutcomes :
       /\ job' = Committed(o, j, FailedRow(j, r))
       /\ CASE o # "ok" -> Goto(h, "rollbackRead")
            [] o = "ok" /\ LimitReached(r) -> Goto(h, "notifyFailed")
            [] o = "ok" /\ ~LimitReached(r) -> Done(h)
  /\ UNCHANGED <<lock, running, ext, reports>>

\* A notification that fails is only logged.
NotifyEnd(h, pc, s) ==
  /\ At(h, pc)
  /\ \E o \in StatusOutcomes : ext' = Notified(o, hs[h].job, s)
  /\ Done(h)
  /\ UNCHANGED <<job, lock, running, reports>>

NotifyFailed(h) == NotifyEnd(h, "notifyFailed", "FAILED")
NotifySuccess(h) == NotifyEnd(h, "notifySuccess", "SUCCESS")

\* SUCCESS is committed before the report is submitted.
ValidReport(h) ==
  LET j == hs[h].job IN
  /\ At(h, "validReport") /\ Writable(h, j)
  /\ \E o \in DbOutcomes :
       /\ job' = Committed(o, j, [job[j] EXCEPT !.status = "SUCCESS"])
       /\ Goto(h, IF o = "ok" THEN "submit" ELSE "rollbackRead")
  /\ UNCHANGED <<lock, running, ext, reports>>

SubmitReport_IgnoresFailure(h) ==
  /\ At(h, "submit")
  /\ \E o \in SubmitOutcomes :
       reports' = IF o = "err" THEN reports ELSE [reports EXCEPT ![hs[h].job] = @ + 1]
  /\ Goto(h, "notifySuccess")
  /\ UNCHANGED <<job, lock, running, ext>>

SubmitReport(h) ==
  /\ At(h, "submit")
  /\ \E o \in SubmitOutcomes :
       /\ reports' = IF o = "err" THEN reports ELSE [reports EXCEPT ![hs[h].job] = @ + 1]
       /\ Goto(h, IF o = "ok" THEN "notifySuccess" ELSE "rollbackRead")
  /\ UNCHANGED <<job, lock, running, ext>>

-----------------------------------------------------------------------------
(* Faults *)

\* The connection of a call breaks, or its worker dies: the handler goes on.
BreakCall(h) ==
  /\ "worker" \in Faults
  /\ hs[h].client # None
  /\ hs' = [hs EXCEPT ![h].client = None]
  /\ UNCHANGED <<job, lock, running, ext, reports>>

\* The worker dies, or send_job_report gives up: no report will come.
LoseJob(w) ==
  /\ "worker" \in Faults
  /\ running[w] # NoJob
  /\ running' = [running EXCEPT ![w] = NoJob]
  /\ UNCHANGED <<job, lock, hs, ext, reports>>

\* The manager process restarts: its open transactions are rolled back, and
\* nothing looks for the handlers that were at work.
Restart ==
  /\ "crash" \in Faults
  /\ \E h \in Handlers : ~At(h, "idle")
  /\ hs' = [h \in Handlers |-> Idle]
  /\ lock' = [j \in Jobs |-> None]
  /\ UNCHANGED <<job, running, ext, reports>>

-----------------------------------------------------------------------------
HandlerStep(h) ==
  \/ SelectPending(h) \/ WaitPending(h) \/ SelectRetry(h) \/ WaitRetry(h)
  \/ SelectFails(h) \/ MarkRunning(h) \/ FetchTask(h) \/ NotifyRunning(h)
  \/ RollbackRead(h) \/ RollbackWrite(h)
  \/ EmptyReport(h) \/ NotifyFailed(h)
  \/ ValidReport(h) \/ SubmitReport(h) \/ NotifySuccess(h)

Poll(w) == \E h \in Handlers : GetJob(h, w)
Report(w) == \E h \in Handlers : CreateReport(h, w)

Next ==
  \/ \E j \in Jobs : CreateJob(j)
  \/ \E w \in Workers : Poll(w) \/ Report(w) \/ LoseJob(w)
  \/ \E h \in Handlers : HandlerStep(h) \/ BreakCall(h)
  \/ \E h \in Handlers, w \in Workers : GetJobNotFound(h, w)
  \/ Restart

Spec == Init /\ [][Next]_vars

\* The server runs its threads, schedule_jobs polls every ten seconds, and run_job returns.
Fairness ==
  /\ \A h \in Handlers : WF_vars(HandlerStep(h))
  /\ \A w \in Workers : WF_vars(Poll(w)) /\ WF_vars(Report(w))

FairSpec == Spec /\ Fairness

-----------------------------------------------------------------------------
(* Properties *)

Owns(h, j) == hs[h].pc \in OwnerPcs /\ hs[h].job = j
Owned(j) == \/ \E h \in Handlers : Owns(h, j)
            \/ \E w \in Workers : running[w] = j

\* A job claimed by GetJob is in one place at a time: with the handler that claimed
\* it, with the worker it was handed to, or with the handler of that worker's report.
ExclusiveOwner ==
  \A j \in Jobs :
    /\ \A h1, h2 \in Handlers : Owns(h1, j) /\ Owns(h2, j) => h1 = h2
    /\ \A w1, w2 \in Workers : running[w1] = j /\ running[w2] = j => w1 = w2
    /\ \A h \in Handlers, w \in Workers : ~(Owns(h, j) /\ running[w] = j)

\* A job that has an owner has been claimed and not been given up, and a handler about
\* to mark a row RUNNING holds the lock of a row that may be claimed.
OwnedActive == \A j \in Jobs : Owned(j) => job[j].status \in {"RUNNING", "SUCCESS"}
MarkLocked ==
  \A h \in Handlers :
    hs[h].pc = "mark" => /\ lock[hs[h].job] = h
                         /\ job[hs[h].job].status \in {"PENDING", "RETRY"}

\* The invariant that ownership rests on: claims, writes and rollbacks all preserve it.
Ownership == ExclusiveOwner /\ OwnedActive /\ MarkLocked

\* The retry_times a handler adds one to is still the row's: no failure is lost.
RetryNotStale ==
  \A h \in Handlers :
    hs[h].pc \in {"emptyReport", "rollbackWrite"} => hs[h].retry = job[hs[h].job].retry

\* A job is FAILED only when every attempt MAX_RETRY_TIMES allows has failed.
FailedExhausted ==
  \A j \in Jobs : job[j].status = "FAILED" => job[j].retry = MaxRetryTimes - 1

\* What the platform is told last is true: SUCCESS or FAILED of a task is said only
\* of a job that has that status for good, and SUCCESS only once its report is there.
PlatformTruthful ==
  \A t \in Tasks :
    /\ ext[t] = "SUCCESS" => \E j \in Jobs : /\ TaskOf[j] = t /\ ~Owned(j)
                                             /\ job[j].status = "SUCCESS" /\ reports[j] > 0
    /\ ext[t] = "FAILED" => \E j \in Jobs : TaskOf[j] = t /\ job[j].status = "FAILED"

\* The platform takes at most one report per attempt, so a report is duplicated
\* only after create_report took effect and raised.
OneReportPerAttempt ==
  \A j \in Jobs : /\ reports[j] <= job[j].retry + 1
                  /\ "late" \notin SubmitOutcomes => reports[j] <= 1

\* FAILED is final, and so is SUCCESS once the handler of the report has let go of it.
TerminalFinal ==
  [][\A j \in Jobs :
       /\ job[j].status = "FAILED" => job'[j] = job[j]
       /\ job[j].status = "SUCCESS" /\ ~Owned(j) => job'[j] = job[j]]_vars

\* Without faults, a RUNNING job is on its way: somebody still has to end it.
NoStrandedJob == \A j \in Jobs : job[j].status = "RUNNING" => Owned(j)

\* A job that ends as SUCCESS has a report on the platform.
SuccessDelivered ==
  \A j \in Jobs : job[j].status = "SUCCESS" /\ ~Owned(j) => reports[j] > 0

\* As docs/grpc-api.md has it: a worker's valid report makes its job SUCCESS, so a
\* job fails no attempt when the workers, the platform and the database all do well.
AllDoWell ==
  /\ Verdicts = {"valid"} /\ Faults = {}
  /\ FetchOutcomes \cup StatusOutcomes \cup SubmitOutcomes \cup DbOutcomes = {"ok"}
ValidReportsSucceed ==
  AllDoWell => \A j \in Jobs : job[j].status \notin {"RETRY", "FAILED"}

\* Every job ends, and stays ended, whatever the platform answers.
Ended(j) == job[j].status \in {"SUCCESS", "FAILED"} /\ ~Owned(j)
JobsEnd == \A j \in Jobs : (job[j].status # "ABSENT") ~> []Ended(j)

\* The manager implements the life of a job.  A job whose report is being submitted
\* counts as RUNNING: SUCCESS was committed early and may yet be taken back.
Attempted(j) == \E h \in Handlers : Owns(h, j)
Lifecycle == INSTANCE JobLifecycle WITH
  status <- [j \in Jobs |-> IF job[j].status = "SUCCESS" /\ Attempted(j)
                              THEN "RUNNING" ELSE job[j].status],
  retry <- [j \in Jobs |-> job[j].retry],
  delivered <- [j \in Jobs |-> reports[j] > 0]
ImplementsLifecycle == Lifecycle!LCSpec
=============================================================================
