-------------------------- MODULE JobManager_proofs --------------------------
(***************************************************************************)
(* Theorems about JobManager, for any number of jobs, handler threads,     *)
(* workers and retries.                                                    *)
(***************************************************************************)
EXTENDS JobManager, TLAPS

-----------------------------------------------------------------------------
(* Types: what the writes of the handlers leave in the table and in the threads *)

\* A counted failure leaves a row of the table: retry_times never reaches the limit.
LEMMA FailedRowType ==
  ASSUME TypeOK, NEW j \in Jobs, NEW r \in Counts
  PROVE  FailedRow(j, r) \in JobRow
<1>1. job[j] \in JobRow
  BY DEF TypeOK
<1>2. CASE LimitReached(r)
  <2>1. FailedRow(j, r) = [job[j] EXCEPT !.status = "FAILED"]
    BY <1>2 DEF FailedRow
  <2>2. QED BY <1>1, <2>1 DEF Status, JobRow
<1>3. CASE ~LimitReached(r)
  <2>1. FailedRow(j, r) = [status |-> "RETRY", retry |-> r + 1]
    BY <1>3 DEF FailedRow
  <2>2. r + 1 \in Counts
    BY <1>3, ManagerAssumption DEF LimitReached, Counts
  <2>3. QED BY <2>1, <2>2 DEF Status, JobRow
<1>4. QED BY <1>2, <1>3

\* A status written to a row of the table leaves a row.
LEMMA StatusRowType ==
  ASSUME TypeOK, NEW j \in Jobs, NEW s \in Status
  PROVE  [job[j] EXCEPT !.status = s] \in JobRow
BY DEF TypeOK, JobRow

LEMMA IdleType == Idle \in HandlerState
BY ManagerAssumption DEF Idle, HandlerState, Pcs, Counts

LEMMA CommittedType ==
  ASSUME TypeOK, NEW o, NEW j, NEW row, j \in Jobs => row \in JobRow
  PROVE  Committed(o, j, row) \in [Jobs -> JobRow]
BY DEF TypeOK, Committed

LEMMA NotifiedType ==
  ASSUME TypeOK, NEW o, NEW j, NEW s \in {"RUNNING", "SUCCESS", "FAILED"}
  PROVE  Notified(o, j, s) \in [Tasks -> TaskStatus]
BY DEF TypeOK, Notified, TaskStatus

LEMMA CountedType ==
  ASSUME NEW f \in [Jobs -> Nat], NEW j
  PROVE  [f EXCEPT ![j] = @ + 1] \in [Jobs -> Nat]
<1>1. CASE j \in Jobs
  <2>1. f[j] + 1 \in Nat
    BY <1>1
  <2>2. QED BY <2>1
<1>2. CASE j \notin Jobs
  BY <1>2
<1>3. QED BY <1>1, <1>2

LEMMA DoneType ==
  ASSUME TypeOK, NEW h \in Handlers, Done(h)
  PROVE  hs' \in [Handlers -> HandlerState]
BY IdleType DEF Done, TypeOK

LEMMA GotoType ==
  ASSUME TypeOK, NEW h \in Handlers, NEW pc \in Pcs, Goto(h, pc)
  PROVE  hs' \in [Handlers -> HandlerState]
<1>1. hs[h] \in HandlerState
  BY DEF TypeOK
<1>2. [hs[h] EXCEPT !.pc = pc] \in HandlerState
  BY <1>1 DEF HandlerState
<1>3. hs' = [hs EXCEPT ![h] = [hs[h] EXCEPT !.pc = pc]]
  BY DEF Goto
<1>4. QED BY <1>2, <1>3 DEF TypeOK

LEMMA HoldType ==
  ASSUME TypeOK, NEW h \in Handlers, NEW pc \in Pcs, NEW j \in Jobs \cup {NoJob},
         Hold(h, pc, j)
  PROVE  hs' \in [Handlers -> HandlerState]
<1>1. hs[h] \in HandlerState
  BY DEF TypeOK
<1>2. [hs[h] EXCEPT !.pc = pc, !.job = j] \in HandlerState
  BY <1>1 DEF HandlerState
<1>3. hs' = [hs EXCEPT ![h] = [hs[h] EXCEPT !.pc = pc, !.job = j]]
  BY DEF Hold
<1>4. QED BY <1>2, <1>3 DEF TypeOK

LEMMA TakeRowType ==
  ASSUME TypeOK, NEW h \in Handlers, NEW j \in Jobs \cup {NoJob}, TakeRow(h, j)
  PROVE  /\ hs' \in [Handlers -> HandlerState]
         /\ lock' \in [Jobs -> Handlers \cup {None}]
<1>1. hs' \in [Handlers -> HandlerState]
  BY HoldType DEF TakeRow, Pcs
<1>2. QED BY <1>1 DEF TakeRow, TypeOK

LEMMA SelectRowType ==
  ASSUME TypeOK, NEW h \in Handlers, NEW first \in SUBSET Jobs, NEW wait \in Pcs,
         SelectRow(h, first, wait)
  PROVE  /\ hs' \in [Handlers -> HandlerState]
         /\ lock' \in [Jobs -> Handlers \cup {None}]
<1>1. PICK j \in first : \/ TakeRow(h, j)
                         \/ /\ Hold(h, wait, j)
                            /\ UNCHANGED lock
  BY DEF SelectRow
<1>2. CASE TakeRow(h, j)
  BY <1>2, TakeRowType
<1>3. CASE Hold(h, wait, j) /\ UNCHANGED lock
  BY <1>3, HoldType DEF TypeOK
<1>4. QED BY <1>1, <1>2, <1>3

LEMMA TypeInit == Init => TypeOK
<1> SUFFICES ASSUME Init PROVE TypeOK
  OBVIOUS
<1>1. hs \in [Handlers -> HandlerState]
  BY IdleType DEF Init
<1>2. job \in [Jobs -> JobRow]
  BY ManagerAssumption DEF Init, Status, JobRow, Counts
<1>3. QED BY <1>1, <1>2 DEF Init, TypeOK, TaskStatus

-----------------------------------------------------------------------------
(* What a step of a handler changes in its record; the others keep theirs *)

OthersKeep(h) == \A k \in Handlers : k # h => hs'[k] = hs[k]

LEMMA GotoEffect ==
  ASSUME TypeOK, NEW h \in Handlers, NEW pc, Goto(h, pc)
  PROVE  /\ hs'[h].pc = pc /\ hs'[h].job = hs[h].job /\ hs'[h].retry = hs[h].retry
         /\ OthersKeep(h)
BY DEF TypeOK, HandlerState, Goto, OthersKeep

LEMMA HoldEffect ==
  ASSUME TypeOK, NEW h \in Handlers, NEW pc, NEW j, Hold(h, pc, j)
  PROVE  /\ hs'[h].pc = pc /\ hs'[h].job = j
         /\ OthersKeep(h)
BY DEF TypeOK, HandlerState, Hold, OthersKeep

LEMMA RecallEffect ==
  ASSUME TypeOK, NEW h \in Handlers, NEW pc, NEW r, Recall(h, pc, r)
  PROVE  /\ hs'[h].pc = pc /\ hs'[h].job = hs[h].job /\ hs'[h].retry = r
         /\ OthersKeep(h)
BY DEF TypeOK, HandlerState, Recall, OthersKeep

LEMMA DoneEffect ==
  ASSUME TypeOK, NEW h \in Handlers, Done(h)
  PROVE  /\ hs'[h].pc = "idle" /\ hs'[h].job = NoJob
         /\ OthersKeep(h)
BY DEF TypeOK, Done, Idle, OthersKeep

LEMMA BreakCallEffect ==
  ASSUME TypeOK, NEW h \in Handlers, BreakCall(h)
  PROVE  \A k \in Handlers : /\ hs'[k].pc = hs[k].pc /\ hs'[k].job = hs[k].job
                             /\ hs'[k].retry = hs[k].retry
BY DEF TypeOK, HandlerState, BreakCall

-----------------------------------------------------------------------------
(* A handler past its SELECT has a job *)

LEMMA HasJobInit == Init => HasJob
BY DEF Init, HasJob, JoblessPcs, Idle

\* One handler moves, and it keeps or is given a job.
LEMMA HasJobKept ==
  ASSUME HasJob, NEW h \in Handlers, OthersKeep(h),
         hs'[h].job = NoJob => hs'[h].pc \in JoblessPcs
  PROVE  HasJob'
BY DEF HasJob, OthersKeep

LEMMA HasJobStep == TypeOK /\ HasJob /\ [Next]_vars => HasJob'
<1> SUFFICES ASSUME TypeOK, HasJob, [Next]_vars PROVE HasJob'
  OBVIOUS
<1>1. ASSUME NEW h \in Handlers, NEW w \in Workers, GetJob(h, w) PROVE HasJob'
  <2>1. hs'[h].pc = "selectPending" /\ OthersKeep(h)
    BY <1>1 DEF GetJob, Idle, TypeOK, OthersKeep
  <2>2. QED BY <2>1, HasJobKept DEF JoblessPcs
<1>2. ASSUME NEW h \in Handlers, NEW w \in Workers, CreateReport(h, w) PROVE HasJob'
  <2>1. hs'[h].job # NoJob /\ OthersKeep(h)
    BY <1>2 DEF CreateReport, TypeOK, OthersKeep
  <2>2. QED BY <2>1, HasJobKept
<1>3. ASSUME NEW h \in Handlers, Done(h) PROVE HasJob'
  BY <1>3, DoneEffect, HasJobKept DEF JoblessPcs
<1>4. ASSUME NEW h \in Handlers, NEW pc, Goto(h, pc),
             hs[h].job # NoJob \/ pc = "selectRetry"
      PROVE  HasJob'
  <2>1. hs'[h].pc = pc /\ hs'[h].job = hs[h].job /\ OthersKeep(h)
    BY <1>4, GotoEffect
  <2>2. QED BY <1>4, <2>1, HasJobKept DEF JoblessPcs
<1>5. ASSUME NEW h \in Handlers, NEW pc, NEW j, Hold(h, pc, j),
             j # NoJob \/ pc = "selectRetry"
      PROVE  HasJob'
  <2>1. hs'[h].pc = pc /\ hs'[h].job = j /\ OthersKeep(h)
    BY <1>5, HoldEffect
  <2>2. QED BY <1>5, <2>1, HasJobKept DEF JoblessPcs
<1>6. ASSUME NEW h \in Handlers, HandlerStep(h) PROVE HasJob'
  <2>1. hs[h].pc \notin JoblessPcs => hs[h].job # NoJob
    BY DEF HasJob
  <2>2. ASSUME NEW j \in Jobs, NEW pc, TakeRow(h, j) \/ Hold(h, pc, j) PROVE HasJob'
    <3>1. j # NoJob
      BY DEF Jobs, NoJob
    <3>2. QED BY <2>2, <3>1, <1>5 DEF TakeRow
  <2>3. CASE SelectPending(h)
    <3>1. CASE SelectRow(h, FirstPending, "waitPending")
      BY <3>1, <2>2 DEF SelectRow, FirstPending
    <3>2. QED BY <2>3, <3>1, <1>4 DEF SelectPending
  <2>4. CASE SelectRetry(h)
    <3>1. CASE SelectRow(h, FirstRetry, "waitRetry")
      BY <3>1, <2>2 DEF SelectRow, FirstRetry
    <3>2. QED BY <2>4, <3>1, <1>3 DEF SelectRetry
  <2>5. CASE WaitPending(h) \/ WaitRetry(h)
    <3>1. hs[h].job # NoJob
      BY <2>1, <2>5 DEF WaitPending, WaitRetry, At, JoblessPcs
    <3>2. CASE TakeRow(h, hs[h].job)
      BY <3>1, <3>2, <1>5 DEF TakeRow
    <3>3. CASE Hold(h, "selectRetry", NoJob) \/ Done(h)
      BY <3>3, <1>3, <1>5
    <3>4. QED BY <2>5, <3>2, <3>3 DEF WaitPending, WaitRetry
  <2>6. CASE MarkRunning(h)
    BY <2>1, <2>6, <1>3, <1>4 DEF MarkRunning, At, JoblessPcs
  <2>7. CASE NotifyRunning(h)
    BY <2>1, <2>7, <1>3, <1>4 DEF NotifyRunning, At, JoblessPcs
  <2>8. CASE RollbackRead(h)
    <3>1. hs[h].job # NoJob
      BY <2>1, <2>8 DEF RollbackRead, At, JoblessPcs
    <3>2. ASSUME NEW pc, NEW r, Recall(h, pc, r) PROVE HasJob'
      BY <3>1, <3>2, RecallEffect, HasJobKept
    <3>3. QED BY <2>8, <3>2, <1>3 DEF RollbackRead
  <2>9. CASE EmptyReport(h)
    BY <2>1, <2>9, <1>3, <1>4 DEF EmptyReport, At, JoblessPcs
  <2>10. CASE SelectFails(h) \/ RollbackWrite(h) \/ NotifyFailed(h) \/ NotifySuccess(h)
    BY <2>10, <1>3 DEF SelectFails, RollbackWrite, NotifyFailed, NotifySuccess, NotifyEnd
  <2>11. CASE FetchTask(h) \/ ValidReport(h) \/ SubmitReport(h)
    <3>1. hs[h].job # NoJob
      BY <2>1, <2>11 DEF FetchTask, ValidReport, SubmitReport, At, JoblessPcs
    <3>2. QED BY <2>11, <3>1, <1>4 DEF FetchTask, ValidReport, SubmitReport
  <2>12. QED
    BY <1>6, <2>3, <2>4, <2>5, <2>6, <2>7, <2>8, <2>9, <2>10, <2>11 DEF HandlerStep
<1>7. ASSUME NEW h \in Handlers, BreakCall(h) PROVE HasJob'
  BY <1>7, BreakCallEffect DEF HasJob
<1>8. CASE Restart
  BY <1>8 DEF Restart, Idle, HasJob, JoblessPcs
<1>9. CASE UNCHANGED hs
  BY <1>9 DEF HasJob
<1>10. QED
  BY <1>1, <1>2, <1>6, <1>7, <1>8, <1>9
  DEF Next, Poll, Report, CreateJob, LoseJob, GetJobNotFound, vars

LEMMA TypeStep == TypeOK /\ HasJob /\ [Next]_vars => TypeOK'
<1> SUFFICES ASSUME TypeOK, HasJob, [Next]_vars PROVE TypeOK'
  OBVIOUS
<1>1. ASSUME NEW j \in Jobs, CreateJob(j) PROVE TypeOK'
  <2>1. job' = [job EXCEPT ![j] = [job[j] EXCEPT !.status = "PENDING"]]
    BY <1>1 DEF CreateJob
  <2>2. QED BY <1>1, <2>1, StatusRowType DEF CreateJob, TypeOK, Status
<1>2. ASSUME NEW h \in Handlers, NEW w \in Workers, GetJob(h, w) PROVE TypeOK'
  <2>1. [Idle EXCEPT !.pc = "selectPending", !.client = w] \in HandlerState
    BY IdleType DEF HandlerState, Pcs
  <2>2. QED BY <1>2, <2>1 DEF GetJob, TypeOK
<1>3. ASSUME NEW h \in Handlers, NEW w \in Workers, CreateReport(h, w) PROVE TypeOK'
  <2>1. PICK v \in Verdicts, o \in DbOutcomes :
          hs' = [hs EXCEPT ![h] = [pc |-> ReportBranch(o, v), client |-> w,
                                   job |-> running[w], retry |-> job[running[w]].retry]]
    BY <1>3 DEF CreateReport
  <2>2. running[w] \in Jobs
    BY <1>3 DEF CreateReport, TypeOK
  <2>3. job[running[w]].retry \in Counts
    BY <2>2 DEF TypeOK, JobRow
  <2>4. ReportBranch(o, v) \in Pcs
    BY DEF ReportBranch, Pcs, OwnerPcs
  <2>5. [pc |-> ReportBranch(o, v), client |-> w, job |-> running[w],
         retry |-> job[running[w]].retry] \in HandlerState
    BY <2>2, <2>3, <2>4 DEF HandlerState
  <2>6. QED BY <1>3, <2>1, <2>5 DEF CreateReport, TypeOK
<1>4. ASSUME NEW w \in Workers, LoseJob(w) PROVE TypeOK'
  BY <1>4 DEF LoseJob, TypeOK
<1>5. ASSUME NEW h \in Handlers, SelectPending(h) PROVE TypeOK'
  <2>1. CASE SelectRow(h, FirstPending, "waitPending")
    <3>1. FirstPending \in SUBSET Jobs /\ "waitPending" \in Pcs
      BY DEF FirstPending, Pcs
    <3>2. QED BY <1>5, <2>1, <3>1, SelectRowType DEF SelectPending, TypeOK
  <2>2. CASE Goto(h, "selectRetry") /\ UNCHANGED lock
    BY <1>5, <2>2, GotoType DEF SelectPending, TypeOK, Pcs
  <2>3. QED BY <1>5, <2>1, <2>2 DEF SelectPending
<1>6. ASSUME NEW h \in Handlers, WaitPending(h) PROVE TypeOK'
  <2>1. CASE TakeRow(h, hs[h].job)
    BY <1>6, <2>1, TakeRowType DEF WaitPending, TypeOK, HandlerState
  <2>2. CASE Hold(h, "selectRetry", NoJob) /\ UNCHANGED lock
    BY <1>6, <2>2, HoldType DEF WaitPending, TypeOK, Pcs
  <2>3. QED BY <1>6, <2>1, <2>2 DEF WaitPending
<1>7. ASSUME NEW h \in Handlers, SelectRetry(h) PROVE TypeOK'
  <2>1. CASE SelectRow(h, FirstRetry, "waitRetry")
    <3>1. FirstRetry \in SUBSET Jobs /\ "waitRetry" \in Pcs
      BY DEF FirstRetry, Pcs
    <3>2. QED BY <1>7, <2>1, <3>1, SelectRowType DEF SelectRetry, TypeOK
  <2>2. CASE Done(h) /\ UNCHANGED lock
    BY <1>7, <2>2, DoneType DEF SelectRetry, TypeOK
  <2>3. QED BY <1>7, <2>1, <2>2 DEF SelectRetry
<1>8. ASSUME NEW h \in Handlers, WaitRetry(h) PROVE TypeOK'
  <2>1. CASE TakeRow(h, hs[h].job)
    BY <1>8, <2>1, TakeRowType DEF WaitRetry, TypeOK, HandlerState
  <2>2. CASE Done(h) /\ UNCHANGED lock
    BY <1>8, <2>2, DoneType DEF WaitRetry, TypeOK
  <2>3. QED BY <1>8, <2>1, <2>2 DEF WaitRetry
<1>9. ASSUME NEW h \in Handlers, SelectFails(h) PROVE TypeOK'
  BY <1>9, DoneType DEF SelectFails, TypeOK
<1>10. ASSUME NEW h \in Handlers, MarkRunning(h) PROVE TypeOK'
  <2>1. job' \in [Jobs -> JobRow]
    BY <1>10, StatusRowType, CommittedType DEF MarkRunning, Status
  <2>2. hs' \in [Handlers -> HandlerState]
    BY <1>10, GotoType, DoneType DEF MarkRunning, Pcs, OwnerPcs
  <2>3. QED BY <1>10, <2>1, <2>2 DEF MarkRunning, TypeOK
<1>11. ASSUME NEW h \in Handlers, FetchTask(h) PROVE TypeOK'
  <2>1. hs' \in [Handlers -> HandlerState]
    BY <1>11, GotoType DEF FetchTask, Pcs, OwnerPcs
  <2>2. QED BY <1>11, <2>1 DEF FetchTask, TypeOK
<1>12. ASSUME NEW h \in Handlers, NotifyRunning(h) PROVE TypeOK'
  <2>1. ext' \in [Tasks -> TaskStatus]
    BY <1>12, NotifiedType DEF NotifyRunning
  <2>2. hs[h].job \in Jobs \cup {NoJob}
    BY DEF TypeOK, HandlerState
  <2>3. running' \in [Workers -> Jobs \cup {NoJob}]
    BY <1>12, <2>2 DEF NotifyRunning, TypeOK
  <2>4. hs' \in [Handlers -> HandlerState]
    BY <1>12, GotoType, DoneType DEF NotifyRunning, Pcs, OwnerPcs
  <2>5. QED BY <1>12, <2>1, <2>3, <2>4 DEF NotifyRunning, TypeOK
<1>13. ASSUME NEW h \in Handlers, RollbackRead(h) PROVE TypeOK'
  <2> DEFINE n == job[hs[h].job].retry
  <2>1. CASE Done(h)
    BY <1>13, <2>1, DoneType DEF RollbackRead, TypeOK
  <2>2. CASE Recall(h, "rollbackWrite", n)
    <3>1. hs[h] \in HandlerState /\ hs[h].job \in Jobs
      BY <1>13 DEF RollbackRead, At, TypeOK, HandlerState, HasJob, JoblessPcs
    <3>2. n \in Counts
      BY <3>1 DEF TypeOK, JobRow
    <3>3. [hs[h] EXCEPT !.pc = "rollbackWrite", !.retry = n] \in HandlerState
      BY <3>1, <3>2 DEF HandlerState, Pcs, OwnerPcs
    <3>4. hs' = [hs EXCEPT ![h] = [hs[h] EXCEPT !.pc = "rollbackWrite", !.retry = n]]
      BY <2>2 DEF Recall
    <3>5. QED BY <1>13, <3>3, <3>4 DEF RollbackRead, TypeOK
  <2>3. QED BY <1>13, <2>1, <2>2 DEF RollbackRead
<1>14. ASSUME NEW h \in Handlers, RollbackWrite(h) PROVE TypeOK'
  <2>1. hs[h].retry \in Counts
    BY DEF TypeOK, HandlerState
  <2>2. job' \in [Jobs -> JobRow]
    BY <1>14, <2>1, FailedRowType, CommittedType DEF RollbackWrite
  <2>3. QED BY <1>14, <2>2, DoneType DEF RollbackWrite, TypeOK
<1>15. ASSUME NEW h \in Handlers, EmptyReport(h) PROVE TypeOK'
  <2>1. hs[h].retry \in Counts
    BY DEF TypeOK, HandlerState
  <2>2. job' \in [Jobs -> JobRow]
    BY <1>15, <2>1, FailedRowType, CommittedType DEF EmptyReport
  <2>3. hs' \in [Handlers -> HandlerState]
    BY <1>15, GotoType, DoneType DEF EmptyReport, Pcs, OwnerPcs
  <2>4. QED BY <1>15, <2>2, <2>3 DEF EmptyReport, TypeOK
<1>16. ASSUME NEW h \in Handlers, NotifyFailed(h) \/ NotifySuccess(h) PROVE TypeOK'
  <2>1. ext' \in [Tasks -> TaskStatus]
    BY <1>16, NotifiedType DEF NotifyFailed, NotifySuccess, NotifyEnd
  <2>2. QED BY <1>16, <2>1, DoneType DEF NotifyFailed, NotifySuccess, NotifyEnd, TypeOK
<1>17. ASSUME NEW h \in Handlers, ValidReport(h) PROVE TypeOK'
  <2>1. job' \in [Jobs -> JobRow]
    BY <1>17, StatusRowType, CommittedType DEF ValidReport, Status
  <2>2. hs' \in [Handlers -> HandlerState]
    BY <1>17, GotoType DEF ValidReport, Pcs, OwnerPcs
  <2>3. QED BY <1>17, <2>1, <2>2 DEF ValidReport, TypeOK
<1>18. ASSUME NEW h \in Handlers, SubmitReport(h) PROVE TypeOK'
  <2>1. hs' \in [Handlers -> HandlerState]
    BY <1>18, GotoType DEF SubmitReport, Pcs, OwnerPcs
  <2>2. CASE reports' = [reports EXCEPT ![hs[h].job] = @ + 1]
    <3>1. [reports EXCEPT ![hs[h].job] = @ + 1] \in [Jobs -> Nat]
      BY CountedType DEF TypeOK
    <3>2. QED BY <1>18, <2>1, <2>2, <3>1 DEF SubmitReport, TypeOK
  <2>3. CASE reports' = reports
    BY <1>18, <2>1, <2>3 DEF SubmitReport, TypeOK
  <2>4. QED BY <1>18, <2>2, <2>3 DEF SubmitReport
<1>19. ASSUME NEW h \in Handlers, BreakCall(h) PROVE TypeOK'
  <2>1. [hs[h] EXCEPT !.client = None] \in HandlerState
    BY DEF TypeOK, HandlerState
  <2>2. hs' = [hs EXCEPT ![h] = [hs[h] EXCEPT !.client = None]]
    BY <1>19 DEF BreakCall
  <2>3. QED BY <1>19, <2>1, <2>2 DEF BreakCall, TypeOK
<1>20. CASE Restart
  BY <1>20, IdleType DEF Restart, TypeOK
<1>21. CASE UNCHANGED vars
  BY <1>21 DEF vars, TypeOK
<1>22. QED
  BY <1>1, <1>2, <1>3, <1>4, <1>5, <1>6, <1>7, <1>8, <1>9, <1>10, <1>11, <1>12, <1>13,
     <1>14, <1>15, <1>16, <1>17, <1>18, <1>19, <1>20, <1>21
  DEF Next, Poll, Report, HandlerStep, GetJobNotFound

\* The table, the threads and the platform keep their types; retry_times stays below
\* MAX_RETRY_TIMES whatever fails, even when two handlers count for one job.
THEOREM TypeCorrect == Spec => []TypeOK
BY TypeInit, TypeStep, HasJobInit, HasJobStep, PTL DEF Spec

-----------------------------------------------------------------------------
(* Ownership: with row locks, and sessions that raise only before they commit *)

Active == {"RUNNING", "SUCCESS"}

LEMMA OwnershipInit == Init => Ownership
BY DEF Init, Ownership, ExclusiveOwner, OwnedActive, MarkLocked, Owned, Owns, OwnerPcs,
       Idle, Jobs, NoJob

LEMMA JobOfHandler ==
  ASSUME TypeOK, HasJob, NEW h \in Handlers, hs[h].pc \notin JoblessPcs
  PROVE  hs[h].job \in Jobs
BY DEF TypeOK, HandlerState, HasJob

LEMMA OwnerPcsFacts == "mark" \notin OwnerPcs /\ OwnerPcs \cap JoblessPcs = {}
BY DEF OwnerPcs, JoblessPcs

\* Nobody is handed a job: the owners there are keep theirs or let go.
LEMMA NobodyGains ==
  ASSUME ExclusiveOwner, NEW h \in Handlers, OthersKeep(h),
         hs'[h].pc \in OwnerPcs => hs[h].pc \in OwnerPcs /\ hs'[h].job = hs[h].job,
         running' = running
  PROVE  /\ ExclusiveOwner'
         /\ \A j \in Jobs : Owned(j)' => Owned(j)
<1>1. \A k \in Handlers, j \in Jobs : Owns(k, j)' => Owns(k, j)
  BY DEF OthersKeep, Owns
<1>2. ExclusiveOwner'
  BY <1>1 DEF ExclusiveOwner
<1>3. QED BY <1>1, <1>2 DEF Owned

\* A handler that owns its job writes that row at most.
LEMMA OwnerMoves ==
  ASSUME TypeOK, HasJob, Ownership, NEW h \in Handlers, OthersKeep(h),
         hs[h].pc \in OwnerPcs,
         hs'[h].pc # "mark",
         hs'[h].pc \in OwnerPcs => /\ hs'[h].job = hs[h].job
                                   /\ job'[hs[h].job].status \in Active,
         \A i \in Jobs : i # hs[h].job => job'[i] = job[i],
         running' = running, lock' = lock
  PROVE  Ownership'
<1> PICK j \in Jobs : j = hs[h].job
  BY JobOfHandler, OwnerPcsFacts
<1>1. /\ ExclusiveOwner'
      /\ \A i \in Jobs : Owned(i)' => Owned(i)
  BY NobodyGains DEF Ownership
<1>2. Owns(h, j)
  BY DEF Owns
<1>3. Owned(j)' => hs'[h].pc \in OwnerPcs
  <2>1. \A k \in Handlers : k # h => ~Owns(k, j)
    BY <1>2 DEF Ownership, ExclusiveOwner
  <2>2. \A w \in Workers : running[w] # j
    BY <1>2 DEF Ownership, ExclusiveOwner
  <2>3. \A k \in Handlers : k # h => ~Owns(k, j)'
    BY <2>1 DEF Owns, OthersKeep
  <2>4. \A w \in Workers : running'[w] # j
    BY <2>2
  <2>5. Owns(h, j)' => hs'[h].pc \in OwnerPcs
    BY DEF Owns
  <2>6. QED BY <2>3, <2>4, <2>5 DEF Owned
<1>4. OwnedActive'
  BY <1>1, <1>3 DEF Ownership, OwnedActive, Active
<1>5. job[j].status \in Active
  BY <1>2 DEF Ownership, OwnedActive, Owned, Active
<1>6. MarkLocked'
  <2>1. SUFFICES ASSUME NEW k \in Handlers, hs'[k].pc = "mark"
                 PROVE  /\ lock'[hs'[k].job] = k
                        /\ job'[hs'[k].job].status \in {"PENDING", "RETRY"}
    BY DEF MarkLocked
  <2>2. hs'[k] = hs[k]
    BY <2>1 DEF OthersKeep
  <2>3. /\ lock[hs[k].job] = k
        /\ job[hs[k].job].status \in {"PENDING", "RETRY"}
    BY <2>1, <2>2 DEF Ownership, MarkLocked
  <2>4. hs[k].job # j /\ hs[k].job \in Jobs
    BY <1>5, <2>1, <2>2, <2>3, JobOfHandler DEF Active, JoblessPcs
  <2>5. QED BY <2>2, <2>3, <2>4
<1>7. QED BY <1>1, <1>4, <1>6 DEF Ownership

\* A handler that claims nothing: it looks for a row, waits, or is done.
LEMMA BystanderMoves ==
  ASSUME TypeOK, HasJob, Ownership, NEW h \in Handlers, OthersKeep(h),
         hs'[h].pc \notin OwnerPcs, hs'[h].pc # "mark",
         job' = job, running' = running,
         \A k \in Handlers : k # h /\ hs[k].pc = "mark"
                             => lock'[hs[k].job] = lock[hs[k].job]
  PROVE  Ownership'
<1>1. /\ ExclusiveOwner'
      /\ \A i \in Jobs : Owned(i)' => Owned(i)
  BY NobodyGains DEF Ownership
<1>2. OwnedActive'
  BY <1>1 DEF Ownership, OwnedActive
<1>3. MarkLocked'
  BY DEF Ownership, MarkLocked, OthersKeep
<1>4. QED BY <1>1, <1>2, <1>3 DEF Ownership

\* The row a handler locks is free, so no other handler is about to mark it.
LEMMA TakesRow ==
  ASSUME TypeOK, HasJob, Ownership, RowLocks,
         NEW h \in Handlers, NEW j \in Jobs, TakeRow(h, j),
         lock[j] = None, job[j].status \in {"PENDING", "RETRY"},
         job' = job, running' = running
  PROVE  Ownership'
<1>1. hs'[h].pc = "mark" /\ hs'[h].job = j /\ OthersKeep(h)
  BY HoldEffect DEF TakeRow
<1>2. lock' = [lock EXCEPT ![j] = h]
  BY DEF TakeRow
<1>3. /\ ExclusiveOwner'
      /\ \A i \in Jobs : Owned(i)' => Owned(i)
  BY <1>1, NobodyGains, OwnerPcsFacts DEF Ownership
<1>4. OwnedActive'
  BY <1>3 DEF Ownership, OwnedActive
<1>5. MarkLocked'
  <2>1. SUFFICES ASSUME NEW k \in Handlers, hs'[k].pc = "mark"
                 PROVE  /\ lock'[hs'[k].job] = k
                        /\ job[hs'[k].job].status \in {"PENDING", "RETRY"}
    BY DEF MarkLocked
  <2>2. lock'[j] = h
    BY <1>2 DEF TypeOK
  <2>3. CASE k = h
    BY <1>1, <2>2, <2>3
  <2>4. CASE k # h
    <3>1. hs'[k] = hs[k]
      BY <1>1, <2>4 DEF OthersKeep
    <3>2. /\ lock[hs[k].job] = k
          /\ job[hs[k].job].status \in {"PENDING", "RETRY"}
      BY <2>1, <3>1 DEF Ownership, MarkLocked
    <3>3. hs[k].job # j
      BY <3>2, ManagerAssumption
    <3>4. QED BY <1>2, <3>1, <3>2, <3>3 DEF TypeOK
  <2>5. QED BY <2>3, <2>4
<1>6. QED BY <1>3, <1>4, <1>5 DEF Ownership

\* The handler that holds the row's lock marks a job nobody owned.
LEMMA Claims ==
  ASSUME TypeOK, HasJob, Ownership, NEW h \in Handlers, NEW j \in Jobs,
         At(h, "mark"), hs[h].job = j, Goto(h, "fetch"),
         job' = [job EXCEPT ![j] = [job[j] EXCEPT !.status = "RUNNING"]],
         lock' = [lock EXCEPT ![j] = None], running' = running
  PROVE  Ownership'
<1>1. hs'[h].pc = "fetch" /\ hs'[h].job = j /\ OthersKeep(h)
  BY GotoEffect
<1>2. lock[j] = h /\ job[j].status \in {"PENDING", "RETRY"}
  BY DEF At, Ownership, MarkLocked
<1>3. ~Owned(j)
  BY <1>2 DEF Ownership, OwnedActive
<1>4. \A k \in Handlers, i \in Jobs : Owns(k, i)' => Owns(k, i) \/ (k = h /\ i = j)
  BY <1>1 DEF Owns, OthersKeep
<1>5. ExclusiveOwner'
  BY <1>3, <1>4 DEF Ownership, ExclusiveOwner, Owned
<1>6. \A i \in Jobs : Owned(i)' => Owned(i) \/ i = j
  BY <1>4 DEF Owned
<1>7. OwnedActive'
  <2>1. job'[j].status = "RUNNING"
    BY DEF TypeOK, JobRow
  <2>2. \A i \in Jobs : i # j => job'[i] = job[i]
    BY DEF TypeOK
  <2>3. QED BY <1>6, <2>1, <2>2 DEF Ownership, OwnedActive
<1>8. MarkLocked'
  <2>1. SUFFICES ASSUME NEW k \in Handlers, hs'[k].pc = "mark"
                 PROVE  /\ lock'[hs'[k].job] = k
                        /\ job'[hs'[k].job].status \in {"PENDING", "RETRY"}
    BY DEF MarkLocked
  <2>2. k # h /\ hs'[k] = hs[k]
    BY <1>1, <2>1 DEF OthersKeep
  <2>3. /\ lock[hs[k].job] = k
        /\ job[hs[k].job].status \in {"PENDING", "RETRY"}
        /\ hs[k].job \in Jobs
    BY <2>1, <2>2, JobOfHandler DEF Ownership, MarkLocked, JoblessPcs
  <2>4. hs[k].job # j
    BY <1>2, <2>2, <2>3
  <2>5. QED BY <2>2, <2>3, <2>4 DEF TypeOK
<1>9. QED BY <1>5, <1>7, <1>8 DEF Ownership

\* Nothing is written: the job passes from its handler to the worker it answers.
LEMMA HandsOver ==
  ASSUME TypeOK, HasJob, Ownership, NEW h \in Handlers, NEW w, NEW j \in Jobs,
         Owns(h, j), Done(h), job' = job, lock' = lock,
         running' = [running EXCEPT ![w] = j]
  PROVE  Ownership'
<1>1. hs'[h].pc = "idle" /\ OthersKeep(h)
  BY DoneEffect
<1>2. \A k \in Handlers, i \in Jobs : Owns(k, i)' => Owns(k, i) /\ k # h
  BY <1>1 DEF Owns, OthersKeep, OwnerPcs
<1>3. \A v \in Workers, i \in Jobs : running'[v] = i => running[v] = i \/ (v = w /\ i = j)
  BY DEF TypeOK
<1>4. \A k \in Handlers : k # h => ~Owns(k, j)
  BY DEF Ownership, ExclusiveOwner
<1>5. \A v \in Workers : running[v] # j
  BY DEF Ownership, ExclusiveOwner
<1>6. ExclusiveOwner'
  BY <1>2, <1>3, <1>4, <1>5 DEF Ownership, ExclusiveOwner
<1>7. \A i \in Jobs : Owned(i)' => Owned(i)
  BY <1>2, <1>3 DEF Owned
<1>8. OwnedActive'
  BY <1>7 DEF Ownership, OwnedActive
<1>9. MarkLocked'
  BY <1>1 DEF Ownership, MarkLocked, OthersKeep
<1>10. QED BY <1>6, <1>8, <1>9 DEF Ownership

\* The handler of a report owns the job its worker held.
LEMMA TakesOver ==
  ASSUME TypeOK, HasJob, Ownership, NEW h \in Handlers, NEW w \in Workers,
         CreateReport(h, w)
  PROVE  Ownership'
<1> PICK j \in Jobs : j = running[w]
  BY DEF CreateReport, TypeOK
<1>1. hs'[h].job = j /\ hs'[h].pc \in OwnerPcs /\ OthersKeep(h)
  BY DEF CreateReport, TypeOK, OthersKeep, ReportBranch, OwnerPcs
<1>2. \A k \in Handlers, i \in Jobs : Owns(k, i)' => Owns(k, i) \/ (k = h /\ i = j)
  BY <1>1 DEF Owns, OthersKeep
<1>3. \A v \in Workers, i \in Jobs : running'[v] = i => running[v] = i /\ v # w
  BY DEF CreateReport, TypeOK, Jobs, NoJob
<1>4. \A k \in Handlers : ~Owns(k, j)
  BY DEF Ownership, ExclusiveOwner
<1>5. \A v \in Workers : v # w => running[v] # j
  BY DEF Ownership, ExclusiveOwner
<1>6. ExclusiveOwner'
  <2>1. ASSUME NEW i \in Jobs, NEW k1 \in Handlers, NEW k2 \in Handlers,
               Owns(k1, i)', Owns(k2, i)'
        PROVE  k1 = k2
    BY <2>1, <1>2, <1>4 DEF Ownership, ExclusiveOwner
  <2>2. ASSUME NEW i \in Jobs, NEW w1 \in Workers, NEW w2 \in Workers,
               running'[w1] = i, running'[w2] = i
        PROVE  w1 = w2
    BY <2>2, <1>3 DEF Ownership, ExclusiveOwner
  <2>3. ASSUME NEW i \in Jobs, NEW k \in Handlers, NEW v \in Workers,
               Owns(k, i)', running'[v] = i
        PROVE  FALSE
    BY <2>3, <1>2, <1>3, <1>5 DEF Ownership, ExclusiveOwner
  <2>4. QED BY <2>1, <2>2, <2>3 DEF ExclusiveOwner
<1>7. \A i \in Jobs : Owned(i)' => Owned(i)
  BY <1>2, <1>3 DEF Owned
<1>8. job' = job /\ lock' = lock
  BY DEF CreateReport
<1>9. OwnedActive'
  BY <1>7, <1>8 DEF Ownership, OwnedActive
<1>10. MarkLocked'
  BY <1>1, <1>8, OwnerPcsFacts DEF Ownership, MarkLocked, OthersKeep
<1>11. QED BY <1>6, <1>9, <1>10 DEF Ownership

\* Breaking a call, losing a worker and restarting take owners away.
LEMMA FaultKeepsOwnership ==
  ASSUME TypeOK, Ownership,
         Restart \/ (\E h \in Handlers : BreakCall(h)) \/ (\E w \in Workers : LoseJob(w))
  PROVE  Ownership'
<1>1. \A k \in Handlers, i \in Jobs : Owns(k, i)' => Owns(k, i)
  <2>1. CASE Restart
    BY <2>1 DEF Restart, Owns, Idle, OwnerPcs
  <2>2. CASE \E h \in Handlers : BreakCall(h)
    BY <2>2, BreakCallEffect DEF Owns
  <2>3. CASE \E w \in Workers : LoseJob(w)
    BY <2>3 DEF LoseJob, Owns
  <2>4. QED BY <2>1, <2>2, <2>3
<1>2. \A v \in Workers, i \in Jobs : running'[v] = i => running[v] = i
  BY DEF Restart, BreakCall, LoseJob, TypeOK, Jobs, NoJob
<1>3. job' = job
  BY DEF Restart, BreakCall, LoseJob
<1>4. ExclusiveOwner'
  BY <1>1, <1>2 DEF Ownership, ExclusiveOwner
<1>5. OwnedActive'
  <2>1. \A i \in Jobs : Owned(i)' => Owned(i)
    BY <1>1, <1>2 DEF Owned
  <2>2. QED BY <2>1, <1>3 DEF Ownership, OwnedActive
<1>6. MarkLocked'
  <2>1. CASE Restart
    BY <2>1 DEF Restart, MarkLocked, Idle
  <2>2. CASE \E h \in Handlers : BreakCall(h)
    <3>1. lock' = lock
      BY <2>2 DEF BreakCall
    <3>2. QED BY <2>2, <3>1, <1>3, BreakCallEffect DEF Ownership, MarkLocked
  <2>3. CASE \E w \in Workers : LoseJob(w)
    BY <2>3, <1>3 DEF LoseJob, Ownership, MarkLocked
  <2>4. QED BY <2>1, <2>2, <2>3
<1>7. QED BY <1>4, <1>5, <1>6 DEF Ownership

\* A job that is created has no owner and no handler waiting to mark it.
LEMMA CreateKeepsOwnership ==
  ASSUME TypeOK, HasJob, Ownership, NEW j \in Jobs, CreateJob(j)
  PROVE  Ownership'
<1>1. /\ job[j].status = "ABSENT"
      /\ hs' = hs /\ lock' = lock /\ running' = running
      /\ \A i \in Jobs : i # j => job'[i] = job[i]
  BY DEF CreateJob, TypeOK
<1>2. ExclusiveOwner' /\ \A i \in Jobs : Owned(i)' <=> Owned(i)
  BY <1>1 DEF Ownership, ExclusiveOwner, Owned, Owns
<1>3. OwnedActive'
  BY <1>1, <1>2 DEF Ownership, OwnedActive
<1>4. MarkLocked'
  <2>1. SUFFICES ASSUME NEW k \in Handlers, hs[k].pc = "mark"
                 PROVE  /\ lock[hs[k].job] = k
                        /\ job'[hs[k].job].status \in {"PENDING", "RETRY"}
    BY <1>1 DEF MarkLocked
  <2>2. /\ lock[hs[k].job] = k
        /\ job[hs[k].job].status \in {"PENDING", "RETRY"}
        /\ hs[k].job \in Jobs
    BY <2>1, JobOfHandler DEF Ownership, MarkLocked, JoblessPcs
  <2>3. hs[k].job # j
    BY <1>1, <2>2
  <2>4. QED BY <1>1, <2>2, <2>3
<1>5. QED BY <1>2, <1>3, <1>4 DEF Ownership

\* Sessions that raise do so before they commit.
CleanSessions == "late" \notin DbOutcomes

LEMMA CleanOutcomes == CleanSessions => DbOutcomes \subseteq {"ok", "err"}
BY ManagerAssumption DEF CleanSessions, Outcomes

\* A handler looks for a row: it takes one, waits for one, or goes on.
LEMMA SelectKeepsOwnership ==
  ASSUME TypeOK, HasJob, Ownership, RowLocks, NEW h \in Handlers,
         SelectPending(h) \/ WaitPending(h) \/ SelectRetry(h) \/ WaitRetry(h)
  PROVE  Ownership'
<1>1. /\ job' = job /\ running' = running
      /\ hs[h].pc \in {"selectPending", "waitPending", "selectRetry", "waitRetry"}
  BY DEF SelectPending, WaitPending, SelectRetry, WaitRetry, At
<1>2. ASSUME NEW pc \in Pcs \ (OwnerPcs \cup {"mark"}), NEW j,
             Goto(h, pc) \/ Hold(h, pc, j) \/ Done(h), lock' = lock
      PROVE  Ownership'
  <2>1. OthersKeep(h) /\ hs'[h].pc \notin OwnerPcs \cup {"mark"}
    BY <1>2, GotoEffect, HoldEffect, DoneEffect DEF OwnerPcs
  <2>2. QED BY <1>1, <1>2, <2>1, BystanderMoves
<1>3. CASE SelectPending(h)
  <2>1. CASE SelectRow(h, FirstPending, "waitPending")
    <3>1. PICK j \in FirstPending :
            \/ lock[j] = None /\ TakeRow(h, j)
            \/ Hold(h, "waitPending", j) /\ UNCHANGED lock
      BY <2>1 DEF SelectRow
    <3>2. j \in Jobs /\ job[j].status = "PENDING"
      BY DEF FirstPending
    <3>3. QED BY <1>1, <1>2, <3>1, <3>2, TakesRow DEF Pcs, OwnerPcs
  <2>2. QED BY <1>2, <1>3, <2>1 DEF SelectPending, Pcs, OwnerPcs
<1>4. CASE SelectRetry(h)
  <2>1. CASE SelectRow(h, FirstRetry, "waitRetry")
    <3>1. PICK j \in FirstRetry :
            \/ lock[j] = None /\ TakeRow(h, j)
            \/ Hold(h, "waitRetry", j) /\ UNCHANGED lock
      BY <2>1 DEF SelectRow
    <3>2. j \in Jobs /\ job[j].status = "RETRY"
      BY DEF FirstRetry
    <3>3. QED BY <1>1, <1>2, <3>1, <3>2, TakesRow DEF Pcs, OwnerPcs
  <2>2. QED BY <1>2, <1>4, <2>1 DEF SelectRetry, Pcs, OwnerPcs
<1>5. CASE WaitPending(h)
  <2>1. PICK j \in Jobs : j = hs[h].job
    BY <1>5, JobOfHandler DEF WaitPending, At, JoblessPcs
  <2>2. QED BY <1>1, <1>2, <1>5, <2>1, TakesRow DEF WaitPending, Pcs, OwnerPcs
<1>6. CASE WaitRetry(h)
  <2>1. PICK j \in Jobs : j = hs[h].job
    BY <1>6, JobOfHandler DEF WaitRetry, At, JoblessPcs
  <2>2. QED BY <1>1, <1>2, <1>6, <2>1, TakesRow DEF WaitRetry, Pcs, OwnerPcs
<1>7. QED BY <1>3, <1>4, <1>5, <1>6

\* The steps of a handler that owns its job.
OwnerStep(h) ==
  \/ FetchTask(h) \/ RollbackRead(h) \/ RollbackWrite(h)
  \/ EmptyReport(h) \/ ValidReport(h) \/ SubmitReport(h)

LEMMA OwnerStepEffect ==
  ASSUME TypeOK, CleanSessions, NEW h \in Handlers, OwnerStep(h)
  PROVE  /\ OthersKeep(h) /\ hs[h].pc \in OwnerPcs /\ hs'[h].pc # "mark"
         /\ hs'[h].pc \in OwnerPcs => hs'[h].job = hs[h].job
         /\ \A i \in Jobs : i # hs[h].job => job'[i] = job[i]
         /\ running' = running /\ lock' = lock
<1>1. hs[h].pc \in OwnerPcs
  BY DEF OwnerStep, FetchTask, RollbackRead, RollbackWrite, EmptyReport, ValidReport,
         SubmitReport, At, OwnerPcs
<1>2. running' = running /\ lock' = lock
  BY DEF OwnerStep, FetchTask, RollbackRead, RollbackWrite, EmptyReport, ValidReport,
         SubmitReport
<1>3. \A i \in Jobs : i # hs[h].job => job'[i] = job[i]
  <2>1. \A o, row : \A i \in Jobs :
          i # hs[h].job => Committed(o, hs[h].job, row)[i] = job[i]
    BY DEF Committed, TypeOK
  <2>2. CASE FetchTask(h) \/ RollbackRead(h) \/ SubmitReport(h)
    BY <2>2 DEF FetchTask, RollbackRead, SubmitReport
  <2>3. CASE RollbackWrite(h)
    BY <2>1, <2>3 DEF RollbackWrite
  <2>4. CASE EmptyReport(h)
    BY <2>1, <2>4 DEF EmptyReport
  <2>5. CASE ValidReport(h)
    BY <2>1, <2>5 DEF ValidReport
  <2>6. QED BY <2>2, <2>3, <2>4, <2>5 DEF OwnerStep
<1>4. ASSUME NEW pc \in Pcs \ {"mark"}, NEW r,
             Goto(h, pc) \/ Recall(h, pc, r) \/ Done(h)
      PROVE  /\ OthersKeep(h) /\ hs'[h].pc # "mark"
             /\ hs'[h].pc \in OwnerPcs => hs'[h].job = hs[h].job
  BY <1>4, GotoEffect, RecallEffect, DoneEffect DEF OwnerPcs
<1>5. \E pc \in Pcs \ {"mark"}, r \in {job[hs[h].job].retry} :
        Goto(h, pc) \/ Recall(h, pc, r) \/ Done(h)
  <2>1. CASE FetchTask(h)
    BY <2>1 DEF FetchTask, Pcs, OwnerPcs
  <2>2. CASE RollbackRead(h)
    BY <2>2 DEF RollbackRead, Pcs, OwnerPcs
  <2>3. CASE RollbackWrite(h)
    BY <2>3 DEF RollbackWrite, Pcs, OwnerPcs
  <2>4. CASE EmptyReport(h)
    <3>1. Goto(h, "rollbackRead") \/ Goto(h, "notifyFailed") \/ Done(h)
      BY <2>4 DEF EmptyReport
    <3>2. QED BY <3>1 DEF Pcs, OwnerPcs
  <2>5. CASE ValidReport(h)
    BY <2>5 DEF ValidReport, Pcs, OwnerPcs
  <2>6. CASE SubmitReport(h)
    BY <2>6 DEF SubmitReport, Pcs, OwnerPcs
  <2>7. QED BY <2>1, <2>2, <2>3, <2>4, <2>5, <2>6 DEF OwnerStep
<1>6. QED BY <1>1, <1>2, <1>3, <1>4, <1>5

\* As long as the handler owns its job, the row says RUNNING or SUCCESS.
LEMMA OwnerStepStatus ==
  ASSUME TypeOK, HasJob, Ownership, CleanSessions, NEW h \in Handlers, OwnerStep(h),
         hs'[h].pc \in OwnerPcs
  PROVE  job'[hs[h].job].status \in Active
<1> PICK j \in Jobs : j = hs[h].job
  BY OwnerStepEffect, JobOfHandler, OwnerPcsFacts
<1>1. job[j].status \in Active
  BY OwnerStepEffect DEF Ownership, OwnedActive, Owned, Owns, Active
<1>2. CASE FetchTask(h) \/ RollbackRead(h) \/ SubmitReport(h)
  BY <1>1, <1>2 DEF FetchTask, RollbackRead, SubmitReport
<1>3. CASE RollbackWrite(h)
  BY <1>3, DoneEffect DEF RollbackWrite, OwnerPcs
<1>4. CASE EmptyReport(h)
  <2>1. CASE Goto(h, "rollbackRead") /\ job' = job
    BY <1>1, <2>1
  <2>2. CASE Goto(h, "notifyFailed") \/ Done(h)
    BY <2>2, GotoEffect, DoneEffect DEF OwnerPcs
  <2>3. QED BY <1>4, <2>1, <2>2, CleanOutcomes DEF EmptyReport, Committed
<1>5. CASE ValidReport(h)
  <2>1. CASE job' = job
    BY <1>1, <2>1
  <2>2. CASE job' = [job EXCEPT ![j] = [job[j] EXCEPT !.status = "SUCCESS"]]
    BY <2>2 DEF TypeOK, JobRow, Active
  <2>3. QED BY <1>5, <2>1, <2>2 DEF ValidReport, Committed
<1>6. QED BY <1>2, <1>3, <1>4, <1>5 DEF OwnerStep

LEMMA OwnershipStep ==
  ASSUME RowLocks, CleanSessions
  PROVE  TypeOK /\ HasJob /\ Ownership /\ [Next]_vars => Ownership'
<1> SUFFICES ASSUME TypeOK, HasJob, Ownership, [Next]_vars PROVE Ownership'
  OBVIOUS
<1>1. ASSUME NEW h \in Handlers, NEW w \in Workers, GetJob(h, w) PROVE Ownership'
  <2>1. hs'[h].pc = "selectPending" /\ OthersKeep(h)
    BY <1>1 DEF GetJob, Idle, TypeOK, OthersKeep
  <2>2. QED BY <1>1, <2>1, BystanderMoves DEF GetJob, OwnerPcs
<1>2. ASSUME NEW h \in Handlers, HandlerStep(h) PROVE Ownership'
  <2>1. CASE SelectPending(h) \/ WaitPending(h) \/ SelectRetry(h) \/ WaitRetry(h)
    BY <2>1, SelectKeepsOwnership
  <2>2. CASE OwnerStep(h)
    BY <2>2, OwnerStepEffect, OwnerStepStatus, OwnerMoves
  <2>3. CASE SelectFails(h) \/ NotifyFailed(h) \/ NotifySuccess(h)
    <3>1. Done(h) /\ job' = job /\ running' = running /\ lock' = lock
      BY <2>3 DEF SelectFails, NotifyFailed, NotifySuccess, NotifyEnd
    <3>2. QED BY <3>1, DoneEffect, BystanderMoves DEF OwnerPcs
  <2>4. CASE MarkRunning(h)
    <3> PICK j \in Jobs : j = hs[h].job
      BY <2>4, JobOfHandler DEF MarkRunning, At, JoblessPcs
    <3>1. CASE Goto(h, "fetch") /\ job' = [job EXCEPT ![j] = [job[j] EXCEPT !.status = "RUNNING"]]
      BY <2>4, <3>1, Claims DEF MarkRunning
    <3>2. CASE Done(h) /\ job' = job
      <4>1. \A k \in Handlers : k # h /\ hs[k].pc = "mark" => hs[k].job # j
        BY <2>4 DEF MarkRunning, At, Ownership, MarkLocked
      <4>2. \A i : i # j => lock'[i] = lock[i]
        BY <2>4 DEF MarkRunning, TypeOK
      <4>3. QED BY <2>4, <3>2, <4>1, <4>2, DoneEffect, BystanderMoves
                DEF MarkRunning, OwnerPcs
    <3>3. QED BY <2>4, <3>1, <3>2, CleanOutcomes DEF MarkRunning, Committed
  <2>5. CASE NotifyRunning(h)
    <3> PICK j \in Jobs : j = hs[h].job
      BY <2>5, JobOfHandler DEF NotifyRunning, At, JoblessPcs
    <3>1. job' = job /\ lock' = lock /\ Owns(h, j)
      BY <2>5 DEF NotifyRunning, At, Owns, OwnerPcs
    <3>2. CASE Done(h) /\ running' = running
      BY <3>1, <3>2, DoneEffect, BystanderMoves DEF OwnerPcs
    <3>3. CASE Done(h) /\ running' = [running EXCEPT ![hs[h].client] = j]
      <4>1. PICK w : w = hs[h].client
        OBVIOUS
      <4>2. QED BY <3>1, <3>3, <4>1, HandsOver
    <3>4. CASE Goto(h, "rollbackRead") /\ running' = running
      <4>1. job[j].status \in Active
        BY <3>1 DEF Ownership, OwnedActive, Owned, Active
      <4>2. QED BY <3>1, <3>4, <4>1, GotoEffect, OwnerMoves DEF Owns
    <3>5. QED BY <2>5, <3>2, <3>3, <3>4 DEF NotifyRunning
  <2>6. QED BY <1>2, <2>1, <2>2, <2>3, <2>4, <2>5 DEF HandlerStep, OwnerStep
<1>3. CASE UNCHANGED vars
  BY <1>3 DEF vars, Ownership, ExclusiveOwner, OwnedActive, MarkLocked, Owned, Owns
<1>4. QED
  BY <1>1, <1>2, <1>3, CreateKeepsOwnership, TakesOver, FaultKeepsOwnership
  DEF Next, Poll, Report, GetJobNotFound

\* When the database locks the selected row, a claimed job has one owner at a time, for
\* any number of threads and workers, through crashes, broken calls and lost workers.
THEOREM OwnerUnique ==
  ASSUME RowLocks, CleanSessions
  PROVE  Spec => []ExclusiveOwner
<1>1. Init => TypeOK /\ HasJob /\ Ownership
  BY TypeInit, HasJobInit, OwnershipInit
<1>2. TypeOK /\ HasJob /\ Ownership /\ [Next]_vars => (TypeOK /\ HasJob /\ Ownership)'
  BY TypeStep, HasJobStep, OwnershipStep
<1>3. Ownership => ExclusiveOwner
  BY DEF Ownership
<1>4. QED BY <1>1, <1>2, <1>3, PTL DEF Spec

\* A job that has an owner has been claimed and not been given up, and whoever is about to
\* claim one still holds the lock of a row that may be claimed, in every order of handlers.
THEOREM OwnershipHolds ==
  ASSUME RowLocks, CleanSessions
  PROVE  Spec => []Ownership
<1>1. Init => TypeOK /\ HasJob /\ Ownership
  BY TypeInit, HasJobInit, OwnershipInit
<1>2. TypeOK /\ HasJob /\ Ownership /\ [Next]_vars => (TypeOK /\ HasJob /\ Ownership)'
  BY TypeStep, HasJobStep, OwnershipStep
<1>3. QED BY <1>1, <1>2, PTL DEF Spec

-----------------------------------------------------------------------------
(* Rows: who writes one, and what a failure makes of it *)

\* A row changes when its job is created, claimed, or written by the handler that owns it.
LEMMA RowWrites ==
  ASSUME TypeOK, HasJob, Ownership, CleanSessions, [Next]_vars,
         NEW j \in Jobs, job'[j] # job[j]
  PROVE  \/ job[j].status = "ABSENT" /\ job' = [job EXCEPT ![j].status = "PENDING"]
         \/ /\ job[j].status \in {"PENDING", "RETRY"}
            /\ job' = [job EXCEPT ![j] = [job[j] EXCEPT !.status = "RUNNING"]]
         \/ \E h \in Handlers : OwnerStep(h) /\ Owns(h, j)
<1>1. CASE \E i \in Jobs : CreateJob(i)
  BY <1>1 DEF CreateJob, TypeOK
<1>2. ASSUME NEW h \in Handlers, MarkRunning(h)
      PROVE  /\ job[j].status \in {"PENDING", "RETRY"}
             /\ job' = [job EXCEPT ![j] = [job[j] EXCEPT !.status = "RUNNING"]]
  <2> PICK i \in Jobs : i = hs[h].job
    BY <1>2, JobOfHandler DEF MarkRunning, At, JoblessPcs
  <2>1. job' = [job EXCEPT ![i] = [job[i] EXCEPT !.status = "RUNNING"]]
    BY <1>2 DEF MarkRunning, Committed
  <2>2. i = j
    BY <2>1 DEF TypeOK
  <2>3. job[i].status \in {"PENDING", "RETRY"}
    BY <1>2 DEF MarkRunning, At, Ownership, MarkLocked
  <2>4. QED BY <2>1, <2>2, <2>3
<1>3. ASSUME NEW h \in Handlers, OwnerStep(h) PROVE Owns(h, j)
  BY <1>3, OwnerStepEffect DEF Owns
<1>4. \/ \E i \in Jobs : CreateJob(i)
      \/ \E h \in Handlers : MarkRunning(h) \/ OwnerStep(h)
      \/ job' = job
  BY DEF Next, Poll, Report, HandlerStep, OwnerStep, GetJob, CreateReport, LoseJob,
         BreakCall, GetJobNotFound, Restart, SelectPending, SelectRetry, WaitPending,
         WaitRetry, SelectFails, NotifyRunning, NotifyFailed, NotifySuccess, NotifyEnd, vars
<1>5. QED BY <1>1, <1>2, <1>3, <1>4

\* FAILED is final, and so is SUCCESS once the handler of the report has let go of it:
\* no rollback and no late report reopens a job that has ended.
THEOREM EndedIsFinal ==
  ASSUME RowLocks, CleanSessions
  PROVE  Spec => TerminalFinal
<1> DEFINE Final == \A j \in Jobs :
                      /\ job[j].status = "FAILED" => job'[j] = job[j]
                      /\ job[j].status = "SUCCESS" /\ ~Owned(j) => job'[j] = job[j]
<1>1. Init => TypeOK /\ HasJob /\ Ownership
  BY TypeInit, HasJobInit, OwnershipInit
<1>2. TypeOK /\ HasJob /\ Ownership /\ [Next]_vars => (TypeOK /\ HasJob /\ Ownership)'
  BY TypeStep, HasJobStep, OwnershipStep
<1>3. TypeOK /\ HasJob /\ Ownership /\ [Next]_vars => Final
  <2> SUFFICES ASSUME TypeOK, HasJob, Ownership, [Next]_vars, NEW j \in Jobs,
                      job'[j] # job[j]
               PROVE  /\ job[j].status # "FAILED"
                      /\ ~(job[j].status = "SUCCESS" /\ ~Owned(j))
    OBVIOUS
  <2>1. ASSUME NEW h \in Handlers, Owns(h, j)
        PROVE  Owned(j) /\ job[j].status \in {"RUNNING", "SUCCESS"}
    BY <2>1 DEF Ownership, OwnedActive, Owned
  <2>2. QED BY <2>1, RowWrites
<1>4. QED BY <1>1, <1>2, <1>3, PTL DEF Spec, TerminalFinal

\* The job a handler counts a failure for is owned by it alone.
LEMMA CounterKept ==
  ASSUME TypeOK, HasJob, Ownership, CleanSessions, [Next]_vars,
         NEW k \in Handlers, hs[k].pc \in OwnerPcs, hs'[k] = hs[k],
         ~OwnerStep(k)
  PROVE  job'[hs[k].job].retry = job[hs[k].job].retry
<1> PICK j \in Jobs : j = hs[k].job
  BY JobOfHandler, OwnerPcsFacts
<1>1. Owns(k, j) /\ job[j].status \in Active
  BY DEF Owns, Ownership, OwnedActive, Owned, Active
<1>2. CASE job'[j] # job[j]
  <2>1. PICK h \in Handlers : OwnerStep(h) /\ Owns(h, j)
    BY <1>1, <1>2, RowWrites DEF Active
  <2>2. h = k
    BY <1>1, <2>1 DEF Ownership, ExclusiveOwner
  <2>3. QED BY <2>1, <2>2
<1>3. CASE job'[j] = job[j]
  BY <1>3
<1>4. QED BY <1>2, <1>3

\* Where a handler that is about to count a failure comes from.
CountingPcs == {"emptyReport", "rollbackWrite"}

LEMMA HandlerStepEffect ==
  ASSUME TypeOK, CleanSessions, NEW h \in Handlers, HandlerStep(h), ~OwnerStep(h)
  PROVE  OthersKeep(h) /\ hs'[h].pc \notin CountingPcs
<1>1. ASSUME NEW pc \in {"fetch", "rollbackRead", "selectRetry"}, Goto(h, pc)
      PROVE  OthersKeep(h) /\ hs'[h].pc \notin CountingPcs
  BY <1>1, GotoEffect DEF CountingPcs
<1>2. ASSUME NEW pc \in {"mark", "waitPending", "waitRetry", "selectRetry"}, NEW j,
             Hold(h, pc, j)
      PROVE  OthersKeep(h) /\ hs'[h].pc \notin CountingPcs
  BY <1>2, HoldEffect DEF CountingPcs
<1>3. ASSUME Done(h) PROVE OthersKeep(h) /\ hs'[h].pc \notin CountingPcs
  BY <1>3, DoneEffect DEF CountingPcs
<1>4. CASE SelectPending(h) \/ WaitPending(h) \/ SelectRetry(h) \/ WaitRetry(h)
  BY <1>1, <1>2, <1>3, <1>4
  DEF SelectPending, WaitPending, SelectRetry, WaitRetry, SelectRow, TakeRow
<1>5. CASE SelectFails(h) \/ NotifyFailed(h) \/ NotifySuccess(h)
  BY <1>3, <1>5 DEF SelectFails, NotifyFailed, NotifySuccess, NotifyEnd
<1>6. CASE MarkRunning(h)
  BY <1>1, <1>3, <1>6 DEF MarkRunning
<1>7. CASE NotifyRunning(h)
  BY <1>1, <1>3, <1>7 DEF NotifyRunning
<1>8. QED BY <1>4, <1>5, <1>6, <1>7 DEF HandlerStep, OwnerStep

\* _rollback_to_retry reads retry_times just before it writes.
LEMMA OwnerStepCount ==
  ASSUME TypeOK, CleanSessions, NEW h \in Handlers, OwnerStep(h),
         hs'[h].pc \in CountingPcs
  PROVE  /\ hs'[h].retry = job[hs[h].job].retry /\ hs'[h].job = hs[h].job
         /\ job' = job
<1>1. ASSUME NEW pc \in Pcs \ CountingPcs, Goto(h, pc) \/ Done(h) PROVE FALSE
  BY <1>1, GotoEffect, DoneEffect DEF CountingPcs
<1>2. ~FetchTask(h) /\ ~ValidReport(h) /\ ~SubmitReport(h)
  BY <1>1 DEF FetchTask, ValidReport, SubmitReport, Pcs, OwnerPcs, CountingPcs
<1>3. ~RollbackWrite(h)
  BY <1>1 DEF RollbackWrite, Pcs, CountingPcs
<1>4. ~EmptyReport(h)
  <2>1. EmptyReport(h) => Goto(h, "rollbackRead") \/ Goto(h, "notifyFailed") \/ Done(h)
    BY DEF EmptyReport
  <2>2. QED BY <1>1, <2>1 DEF Pcs, OwnerPcs, CountingPcs
<1>5. RollbackRead(h)
  BY <1>2, <1>3, <1>4 DEF OwnerStep
<1>6. ~Done(h)
  BY DoneEffect DEF CountingPcs
<1>7. Recall(h, "rollbackWrite", job[hs[h].job].retry) /\ job' = job
  BY <1>5, <1>6 DEF RollbackRead
<1>8. QED BY <1>7, RecallEffect

LEMMA RetryStep ==
  ASSUME CleanSessions
  PROVE  TypeOK /\ HasJob /\ Ownership /\ RetryNotStale /\ [Next]_vars => RetryNotStale'
<1> SUFFICES ASSUME TypeOK, HasJob, Ownership, RetryNotStale, [Next]_vars,
                    NEW k \in Handlers, hs'[k].pc \in CountingPcs
             PROVE  hs'[k].retry = job'[hs'[k].job].retry
  BY DEF RetryNotStale, CountingPcs
<1>1. CASE hs'[k] = hs[k] /\ ~OwnerStep(k)
  <2>1. hs[k].pc \in OwnerPcs
    BY <1>1 DEF CountingPcs, OwnerPcs
  <2>2. hs[k].retry = job[hs[k].job].retry
    BY <1>1 DEF RetryNotStale, CountingPcs
  <2>3. QED BY <1>1, <2>1, <2>2, CounterKept
<1>2. CASE OwnerStep(k)
  BY <1>2, OwnerStepCount
<1>3. ASSUME NEW h \in Handlers, NEW w \in Workers, GetJob(h, w) \/ CreateReport(h, w), h # k
      PROVE  hs'[k] = hs[k]
  BY <1>3 DEF GetJob, CreateReport, TypeOK
<1>4. ASSUME NEW w \in Workers, CreateReport(k, w)
      PROVE  hs'[k].retry = job'[hs'[k].job].retry
  BY <1>4 DEF CreateReport, TypeOK
<1>5. ASSUME NEW w \in Workers, GetJob(k, w) PROVE FALSE
  BY <1>5 DEF GetJob, Idle, TypeOK, CountingPcs
<1>6. ASSUME NEW h \in Handlers, HandlerStep(h)
      PROVE  hs'[k].retry = job'[hs'[k].job].retry
  <2>1. CASE h = k
    BY <1>2, <1>6, <2>1, HandlerStepEffect
  <2>2. CASE h # k
    BY <1>1, <1>2, <1>6, <2>2, OwnerStepEffect, HandlerStepEffect DEF OthersKeep
  <2>3. QED BY <2>1, <2>2
<1>7. ASSUME NEW h \in Handlers, BreakCall(h)
      PROVE  hs'[k].retry = job'[hs'[k].job].retry
  BY <1>7, BreakCallEffect DEF BreakCall, RetryNotStale, CountingPcs
<1>8. CASE Restart
  BY <1>8 DEF Restart, Idle, CountingPcs
<1>9. CASE hs' = hs
  BY <1>1, <1>2, <1>9
<1>10. QED
  BY <1>1, <1>2, <1>3, <1>4, <1>5, <1>6, <1>7, <1>8, <1>9
  DEF Next, Poll, Report, CreateJob, LoseJob, GetJobNotFound, vars

\* A failure that reaches the limit is the last one MAX_RETRY_TIMES allows.
LEMMA FailedRowExhausted ==
  ASSUME TypeOK, NEW j \in Jobs, NEW r, r = job[j].retry,
         FailedRow(j, r).status = "FAILED"
  PROVE  FailedRow(j, r).retry = MaxRetryTimes - 1
<1>1. job[j] \in JobRow /\ r \in Counts
  BY DEF TypeOK, JobRow
<1>2. LimitReached(r)
  BY DEF FailedRow
<1>3. FailedRow(j, r).retry = r
  BY <1>1, <1>2 DEF FailedRow, JobRow
<1>4. r = MaxRetryTimes - 1
  BY <1>1, <1>2, ManagerAssumption DEF LimitReached, Counts
<1>5. QED BY <1>3, <1>4

LEMMA ExhaustedStep ==
  ASSUME CleanSessions
  PROVE  TypeOK /\ HasJob /\ Ownership /\ RetryNotStale /\ FailedExhausted /\ [Next]_vars
           => FailedExhausted'
<1> SUFFICES ASSUME TypeOK, HasJob, Ownership, RetryNotStale, FailedExhausted, [Next]_vars,
                    NEW j \in Jobs, job'[j] # job[j], job'[j].status = "FAILED"
             PROVE  job'[j].retry = MaxRetryTimes - 1
  BY DEF FailedExhausted
<1>1. PICK h \in Handlers : OwnerStep(h) /\ Owns(h, j)
  BY RowWrites DEF TypeOK, JobRow
<1>2. hs[h].job = j
  BY <1>1 DEF Owns
<1>3. CASE RollbackWrite(h) \/ EmptyReport(h)
  <2>1. hs[h].retry = job[j].retry
    BY <1>2, <1>3 DEF RollbackWrite, EmptyReport, At, RetryNotStale
  <2>2. job'[j] = FailedRow(j, hs[h].retry)
    BY <1>2, <1>3 DEF RollbackWrite, EmptyReport, Committed, TypeOK
  <2>3. QED BY <2>1, <2>2, FailedRowExhausted
<1>4. CASE ValidReport(h)
  BY <1>2, <1>4 DEF ValidReport, Committed, TypeOK, JobRow
<1>5. CASE FetchTask(h) \/ RollbackRead(h) \/ SubmitReport(h)
  BY <1>5 DEF FetchTask, RollbackRead, SubmitReport
<1>6. QED BY <1>1, <1>3, <1>4, <1>5 DEF OwnerStep

\* The count a handler adds one to is never out of date, so no failed attempt is lost, and
\* a job is FAILED only after MAX_RETRY_TIMES of them: for every limit and any concurrency.
THEOREM FailuresCounted ==
  ASSUME RowLocks, CleanSessions
  PROVE  Spec => [](RetryNotStale /\ FailedExhausted)
<1> DEFINE Inv == TypeOK /\ HasJob /\ Ownership /\ RetryNotStale /\ FailedExhausted
<1>1. Init => Inv
  <2>1. Init => RetryNotStale
    BY DEF Init, RetryNotStale, Idle
  <2>2. Init => FailedExhausted
    BY DEF Init, FailedExhausted
  <2>3. QED BY <2>1, <2>2, TypeInit, HasJobInit, OwnershipInit
<1>2. Inv /\ [Next]_vars => Inv'
  BY TypeStep, HasJobStep, OwnershipStep, RetryStep, ExhaustedStep
<1>3. QED BY <1>1, <1>2, PTL DEF Spec

\* The retry_times a handler has read is still the row's when it writes the next one.
THEOREM CountNotStale ==
  ASSUME RowLocks, CleanSessions
  PROVE  Spec => []RetryNotStale
<1>1. Spec => [](RetryNotStale /\ FailedExhausted)
  BY FailuresCounted
<1>2. QED BY <1>1, PTL

-----------------------------------------------------------------------------
(* Reports: an attempt submits once *)

\* Where a handler is before the platform has been given the report of the attempt.
BeforePcs == {"fetch", "notifyRunning", "emptyReport", "validReport", "submit"}

\* And where it is before the row has been written.
WorkPcs == {"fetch", "notifyRunning", "emptyReport", "validReport"}

Places == {WorkPcs, BeforePcs, OwnerPcs}

\* Job j is with a worker, or with a handler at one of the places P.
Placed(P, j) == \/ \E h \in Handlers : hs[h].pc \in P /\ hs[h].job = j
                \/ \E w \in Workers : running[w] = j

OpenStatus == {"ABSENT", "PENDING", "RETRY"}

\* As long as the attempt has not submitted, there is a failure counted for every report
\* the platform has; when no submission that raises takes effect, it has none at all.
Unreported ==
  \A j \in Jobs :
    /\ reports[j] <= job[j].retry + 1
    /\ job[j].status \in OpenStatus \/ Placed(BeforePcs, j) => reports[j] <= job[j].retry
Undelivered ==
  \A j \in Jobs :
    /\ reports[j] <= 1
    /\ job[j].status \in OpenStatus \/ Placed(OwnerPcs, j) => reports[j] = 0

\* A handler comes to one of these places from another of them, or by claiming a row.
LEMMA PlaceKept ==
  ASSUME TypeOK, CleanSessions, NEW P \in Places, NEW h \in Handlers,
         HandlerStep(h), hs'[h].pc \in P
  PROVE  /\ hs'[h].job = hs[h].job
         /\ hs[h].pc \in P \/ MarkRunning(h)
<1>1. P \subseteq OwnerPcs
  BY DEF Places, WorkPcs, BeforePcs, OwnerPcs
<1>2. ASSUME NEW pc, NEW j, Done(h) \/ (Hold(h, pc, j) /\ pc \notin OwnerPcs)
                             \/ (Goto(h, pc) /\ pc \notin OwnerPcs)
      PROVE  FALSE
  BY <1>1, <1>2, GotoEffect, HoldEffect, DoneEffect DEF OwnerPcs
<1>3. ~(SelectPending(h) \/ WaitPending(h) \/ SelectRetry(h) \/ WaitRetry(h))
  BY <1>2 DEF SelectPending, WaitPending, SelectRetry, WaitRetry, SelectRow, TakeRow, OwnerPcs
<1>4. ~(SelectFails(h) \/ NotifyFailed(h) \/ NotifySuccess(h))
  BY <1>2 DEF SelectFails, NotifyFailed, NotifySuccess, NotifyEnd
<1>5. CASE MarkRunning(h)
  BY <1>2, <1>5, GotoEffect DEF MarkRunning
<1>6. CASE NotifyRunning(h)
  <2>1. Goto(h, "rollbackRead") /\ hs[h].pc = "notifyRunning"
    BY <1>2, <1>6 DEF NotifyRunning, At
  <2>2. QED BY <2>1, GotoEffect DEF Places, WorkPcs, BeforePcs, OwnerPcs
<1>7. CASE OwnerStep(h)
  <2>1. hs'[h].job = hs[h].job /\ hs[h].pc \in OwnerPcs
    BY <1>1, <1>7, OwnerStepEffect
  <2>2. ASSUME P # OwnerPcs PROVE hs[h].pc \in P
    <3>1. hs'[h].pc \in BeforePcs /\ WorkPcs \subseteq P
      BY <2>2 DEF Places, WorkPcs, BeforePcs
    <3>2. CASE FetchTask(h) \/ ValidReport(h)
      BY <3>1, <3>2 DEF FetchTask, ValidReport, At, WorkPcs
    <3>3. CASE RollbackRead(h) \/ RollbackWrite(h) \/ SubmitReport(h)
      <4>1. Done(h) \/ Goto(h, "notifySuccess") \/ Goto(h, "rollbackRead")
              \/ Recall(h, "rollbackWrite", job[hs[h].job].retry)
        BY <3>3 DEF RollbackRead, RollbackWrite, SubmitReport
      <4>2. QED BY <3>1, <4>1, GotoEffect, RecallEffect, DoneEffect DEF BeforePcs
    <3>4. CASE EmptyReport(h)
      BY <3>1, <3>4 DEF EmptyReport, At, WorkPcs
    <3>5. QED BY <1>7, <3>2, <3>3, <3>4 DEF OwnerStep
  <2>3. QED BY <2>1, <2>2
<1>8. QED BY <1>3, <1>4, <1>5, <1>6, <1>7 DEF HandlerStep, OwnerStep

\* A job comes to one of these places from another of them, or by being claimed.
LEMMA PlaceComes ==
  ASSUME TypeOK, HasJob, Ownership, CleanSessions, [Next]_vars,
         NEW P \in Places, NEW j \in Jobs, Placed(P, j)'
  PROVE  Placed(P, j) \/ job[j].status \in {"PENDING", "RETRY"}
<1>1. P \subseteq OwnerPcs /\ "notifyRunning" \in P
  BY DEF Places, WorkPcs, BeforePcs, OwnerPcs
<1>2. ASSUME NEW h \in Handlers, HandlerStep(h)
      PROVE  Placed(P, j) \/ job[j].status \in {"PENDING", "RETRY"}
  <2>1. OthersKeep(h)
    BY <1>2, OwnerStepEffect, HandlerStepEffect
  <2>2. ASSUME NEW v \in Workers, running'[v] = j
        PROVE  running[v] = j \/ (hs[h].pc = "notifyRunning" /\ hs[h].job = j)
    BY <1>2, <2>2
    DEF HandlerStep, SelectPending, SelectRetry, WaitPending, WaitRetry, SelectFails,
        MarkRunning, FetchTask, NotifyRunning, RollbackRead, RollbackWrite, EmptyReport,
        NotifyFailed, NotifySuccess, NotifyEnd, ValidReport, SubmitReport, At, TypeOK
  <2>3. CASE \E v \in Workers : running'[v] = j
    BY <1>1, <2>2, <2>3 DEF Placed
  <2>4. CASE \E k \in Handlers : k # h /\ hs'[k].pc \in P /\ hs'[k].job = j
    BY <2>1, <2>4 DEF Placed, OthersKeep
  <2>5. CASE hs'[h].pc \in P /\ hs'[h].job = j
    <3>1. hs[h].job = j /\ (hs[h].pc \in P \/ MarkRunning(h))
      BY <1>2, <2>5, PlaceKept
    <3>2. CASE MarkRunning(h)
      BY <3>1, <3>2 DEF MarkRunning, At, Ownership, MarkLocked
    <3>3. QED BY <3>1, <3>2 DEF Placed
  <2>6. QED BY <2>3, <2>4, <2>5 DEF Placed
<1>3. ASSUME NEW h \in Handlers, NEW w \in Workers, GetJob(h, w) PROVE Placed(P, j)
  <2>1. hs'[h].pc \notin OwnerPcs /\ OthersKeep(h) /\ running' = running
    BY <1>3 DEF GetJob, Idle, TypeOK, OthersKeep, OwnerPcs
  <2>2. QED BY <1>1, <2>1 DEF Placed, OthersKeep
<1>4. ASSUME NEW h \in Handlers, NEW w \in Workers, CreateReport(h, w) PROVE Placed(P, j)
  <2>1. hs'[h].job = running[w] /\ OthersKeep(h)
    BY <1>4 DEF CreateReport, TypeOK, OthersKeep
  <2>2. \A v \in Workers : running'[v] = j => running[v] = j
    BY <1>4 DEF CreateReport, TypeOK, Jobs, NoJob
  <2>3. QED BY <2>1, <2>2 DEF Placed, OthersKeep
<1>5. CASE \E h \in Handlers : BreakCall(h)
  BY <1>5, BreakCallEffect DEF BreakCall, Placed
<1>6. CASE \E w \in Workers : LoseJob(w)
  BY <1>6 DEF LoseJob, Placed, TypeOK, Jobs, NoJob
<1>7. CASE Restart
  BY <1>1, <1>7 DEF Restart, Placed, Idle, OwnerPcs
<1>8. CASE hs' = hs /\ running' = running
  BY <1>8 DEF Placed
<1>9. QED
  BY <1>2, <1>3, <1>4, <1>5, <1>6, <1>7, <1>8
  DEF Next, Poll, Report, CreateJob, GetJobNotFound, vars

\* The handler that owns a job is the only one that can give it up, and then it has no owner.
LEMMA OwnerLeaves ==
  ASSUME TypeOK, HasJob, Ownership, CleanSessions, NEW P \in Places,
         NEW h \in Handlers, OwnerStep(h), NEW j \in Jobs, Owns(h, j), hs'[h].pc \notin P
  PROVE  ~Placed(P, j)'
<1>1. P \subseteq OwnerPcs
  BY DEF Places, WorkPcs, BeforePcs, OwnerPcs
<1>2. OthersKeep(h) /\ running' = running
  BY OwnerStepEffect
<1>3. \A k \in Handlers : k # h => ~(hs'[k].pc \in P /\ hs'[k].job = j)
  BY <1>1, <1>2 DEF Ownership, ExclusiveOwner, Owns, OthersKeep
<1>4. \A w \in Workers : running'[w] # j
  BY <1>2 DEF Ownership, ExclusiveOwner
<1>5. QED BY <1>3, <1>4 DEF Placed

\* The platform's count of a job changes only when the handler that owns it submits.
LEMMA ReportsMove ==
  ASSUME TypeOK, HasJob, [Next]_vars, NEW j \in Jobs, reports'[j] # reports[j]
  PROVE  \E h \in Handlers : /\ SubmitReport(h) /\ Owns(h, j)
                             /\ reports'[j] = reports[j] + 1 /\ job' = job
<1>1. \/ \E h \in Handlers : SubmitReport(h)
      \/ reports' = reports
  <2>1. ASSUME NEW h \in Handlers, HandlerStep(h), ~SubmitReport(h)
        PROVE  reports' = reports
    <3>1. CASE SelectPending(h) \/ SelectRetry(h) \/ WaitPending(h) \/ WaitRetry(h)
      BY <3>1 DEF SelectPending, SelectRetry, WaitPending, WaitRetry
    <3>2. CASE SelectFails(h) \/ NotifyFailed(h) \/ NotifySuccess(h)
      BY <3>2 DEF SelectFails, NotifyFailed, NotifySuccess, NotifyEnd
    <3>3. CASE MarkRunning(h) \/ NotifyRunning(h)
      BY <3>3 DEF MarkRunning, NotifyRunning
    <3>4. CASE FetchTask(h) \/ RollbackRead(h) \/ RollbackWrite(h)
      BY <3>4 DEF FetchTask, RollbackRead, RollbackWrite
    <3>5. CASE EmptyReport(h) \/ ValidReport(h)
      BY <3>5 DEF EmptyReport, ValidReport
    <3>6. QED BY <2>1, <3>1, <3>2, <3>3, <3>4, <3>5 DEF HandlerStep
  <2>2. ASSUME NEW h \in Handlers, NEW w \in Workers,
               GetJob(h, w) \/ CreateReport(h, w) \/ GetJobNotFound(h, w)
        PROVE  reports' = reports
    BY <2>2 DEF GetJob, CreateReport, GetJobNotFound, vars
  <2>3. ASSUME NEW h \in Handlers, BreakCall(h) PROVE reports' = reports
    BY <2>3 DEF BreakCall
  <2>4. ASSUME NEW w \in Workers, LoseJob(w) PROVE reports' = reports
    BY <2>4 DEF LoseJob
  <2>5. ASSUME NEW i \in Jobs, CreateJob(i) PROVE reports' = reports
    BY <2>5 DEF CreateJob
  <2>6. CASE Restart
    BY <2>6 DEF Restart
  <2>7. QED BY <2>1, <2>2, <2>3, <2>4, <2>5, <2>6 DEF Next, Poll, Report, vars
<1>2. PICK h \in Handlers : SubmitReport(h)
  BY <1>1
<1>3. hs[h].pc = "submit" /\ job' = job
  BY <1>2 DEF SubmitReport, At
<1>4. PICK i \in Jobs : i = hs[h].job
  BY <1>3, JobOfHandler DEF JoblessPcs
<1>5. reports' = [reports EXCEPT ![i] = @ + 1]
  BY <1>2, <1>4 DEF SubmitReport
<1>6. i = j /\ reports'[j] = reports[j] + 1
  BY <1>5 DEF TypeOK
<1>7. QED BY <1>2, <1>3, <1>4, <1>6 DEF Owns, OwnerPcs

\* What the owner of a job leaves in its row: the count grows when the job may be claimed again.
LEMMA OwnerWrites ==
  ASSUME TypeOK, HasJob, RetryNotStale, CleanSessions, NEW h \in Handlers, OwnerStep(h),
         NEW j \in Jobs, Owns(h, j), job'[j] # job[j]
  PROVE  \/ /\ ValidReport(h) /\ job'[j].status = "SUCCESS" /\ job'[j].retry = job[j].retry
         \/ /\ job'[j].status = "RETRY" /\ job'[j].retry = job[j].retry + 1
         \/ /\ job'[j].status = "FAILED" /\ job'[j].retry = job[j].retry
<1>1. hs[h].job = j
  BY DEF Owns
<1>2. CASE RollbackWrite(h) \/ EmptyReport(h)
  <2>1. hs[h].retry = job[j].retry
    BY <1>1, <1>2 DEF RollbackWrite, EmptyReport, At, RetryNotStale
  <2>2. job'[j] = FailedRow(j, job[j].retry)
    BY <1>1, <1>2, <2>1 DEF RollbackWrite, EmptyReport, Committed, TypeOK
  <2>3. QED BY <2>2 DEF FailedRow, TypeOK, JobRow
<1>3. CASE ValidReport(h)
  BY <1>1, <1>3 DEF ValidReport, Committed, TypeOK, JobRow
<1>4. CASE FetchTask(h) \/ RollbackRead(h) \/ SubmitReport(h)
  BY <1>4 DEF FetchTask, RollbackRead, SubmitReport
<1>5. QED BY <1>2, <1>3, <1>4 DEF OwnerStep

\* A job may be claimed again only if it could be before, or if its owner says so.
LEMMA OpenAgain ==
  ASSUME TypeOK, HasJob, Ownership, RetryNotStale, CleanSessions, [Next]_vars,
         NEW j \in Jobs
  PROVE  \/ /\ job'[j].retry = job[j].retry
            /\ job'[j].status \in OpenStatus => job[j].status \in OpenStatus
         \/ \E h \in Handlers : /\ OwnerStep(h) /\ Owns(h, j)
                                /\ job'[j].status = "RETRY"
                                /\ job'[j].retry = job[j].retry + 1
<1>1. CASE job'[j] = job[j]
  BY <1>1
<1>2. CASE job'[j] # job[j]
  <2>1. CASE job[j].status = "ABSENT" /\ job' = [job EXCEPT ![j].status = "PENDING"]
    BY <2>1 DEF TypeOK, JobRow, OpenStatus
  <2>2. CASE /\ job[j].status \in {"PENDING", "RETRY"}
             /\ job' = [job EXCEPT ![j] = [job[j] EXCEPT !.status = "RUNNING"]]
    BY <2>2 DEF TypeOK, JobRow, OpenStatus
  <2>3. CASE \E h \in Handlers : OwnerStep(h) /\ Owns(h, j)
    <3>1. PICK h \in Handlers : OwnerStep(h) /\ Owns(h, j)
      BY <2>3
    <3>2. QED BY <1>2, <3>1, OwnerWrites DEF OpenStatus
  <2>4. QED BY <1>2, <2>1, <2>2, <2>3, RowWrites
<1>3. QED BY <1>1, <1>2

\* After a submission the handler is past it, and the row is neither open nor anybody else's.
LEMMA SubmittedEffect ==
  ASSUME TypeOK, HasJob, Ownership, CleanSessions, NEW h \in Handlers, NEW j \in Jobs,
         SubmitReport(h), Owns(h, j)
  PROVE  /\ Placed(BeforePcs, j) /\ Placed(OwnerPcs, j) /\ ~Placed(BeforePcs, j)'
         /\ job'[j].status \notin OpenStatus
         /\ hs'[h].pc \in OwnerPcs => "late" \in SubmitOutcomes \/ reports' = reports
<1>1. OwnerStep(h) /\ hs[h].pc = "submit" /\ hs[h].job = j /\ job' = job
  BY DEF OwnerStep, SubmitReport, At, Owns
<1>2. Goto(h, "notifySuccess") \/ Goto(h, "rollbackRead")
  BY DEF SubmitReport
<1>3. hs'[h].pc \notin BeforePcs
  BY <1>2, GotoEffect DEF BeforePcs
<1>4. job[j].status \in Active
  BY DEF Ownership, OwnedActive, Owned, Active
<1>5. hs'[h].pc \in OwnerPcs => "late" \in SubmitOutcomes \/ reports' = reports
  <2>1. SubmitOutcomes \subseteq {"ok", "err", "late"}
    BY ManagerAssumption DEF Outcomes
  <2>2. Goto(h, "notifySuccess") => hs'[h].pc \notin OwnerPcs
    BY GotoEffect DEF OwnerPcs
  <2>3. QED BY <2>1, <2>2 DEF SubmitReport
<1>6. QED BY <1>1, <1>3, <1>4, <1>5, OwnerLeaves
     DEF Placed, Places, BeforePcs, OwnerPcs, Active, OpenStatus

LEMMA UnreportedStep ==
  ASSUME CleanSessions
  PROVE  TypeOK /\ HasJob /\ Ownership /\ RetryNotStale /\ Unreported /\ [Next]_vars
           => Unreported'
<1> SUFFICES ASSUME TypeOK, HasJob, Ownership, RetryNotStale, Unreported, [Next]_vars,
                    NEW j \in Jobs
             PROVE  /\ reports'[j] <= job'[j].retry + 1
                    /\ job'[j].status \in OpenStatus \/ Placed(BeforePcs, j)'
                         => reports'[j] <= job'[j].retry
  BY DEF Unreported, Placed
<1>1. reports[j] \in Nat /\ job[j].retry \in Nat
  BY ManagerAssumption DEF TypeOK, JobRow, Counts
<1>2. /\ reports[j] <= job[j].retry + 1
      /\ job[j].status \in OpenStatus \/ Placed(BeforePcs, j) => reports[j] <= job[j].retry
  BY DEF Unreported
<1>3. CASE reports'[j] # reports[j]
  <2>1. PICK h \in Handlers : /\ SubmitReport(h) /\ Owns(h, j)
                              /\ reports'[j] = reports[j] + 1 /\ job' = job
    BY <1>3, ReportsMove
  <2>2. QED BY <1>1, <1>2, <2>1, SubmittedEffect
<1>4. CASE reports'[j] = reports[j] /\ job'[j].retry = job[j].retry
  <2>1. Placed(BeforePcs, j)' => Placed(BeforePcs, j) \/ job[j].status \in OpenStatus
    BY PlaceComes DEF OpenStatus, Places
  <2>2. job'[j].status \in OpenStatus => job[j].status \in OpenStatus
    BY <1>1, <1>4, OpenAgain
  <2>3. QED BY <1>2, <1>4, <2>1, <2>2
<1>5. CASE reports'[j] = reports[j] /\ job'[j].retry = job[j].retry + 1
  BY <1>1, <1>2, <1>5
<1>6. QED BY <1>3, <1>4, <1>5, OpenAgain

LEMMA UndeliveredStep ==
  ASSUME CleanSessions, "late" \notin SubmitOutcomes
  PROVE  TypeOK /\ HasJob /\ Ownership /\ RetryNotStale /\ Undelivered /\ [Next]_vars
           => Undelivered'
<1> SUFFICES ASSUME TypeOK, HasJob, Ownership, RetryNotStale, Undelivered, [Next]_vars,
                    NEW j \in Jobs
             PROVE  /\ reports'[j] <= 1
                    /\ job'[j].status \in OpenStatus \/ Placed(OwnerPcs, j)'
                         => reports'[j] = 0
  BY DEF Undelivered, Placed
<1>1. reports[j] \in Nat
  BY DEF TypeOK
<1>2. /\ reports[j] <= 1
      /\ job[j].status \in OpenStatus \/ Placed(OwnerPcs, j) => reports[j] = 0
  BY DEF Undelivered
<1>3. CASE reports'[j] # reports[j]
  <2>1. PICK h \in Handlers : /\ SubmitReport(h) /\ Owns(h, j)
                              /\ reports'[j] = reports[j] + 1 /\ job' = job
    BY <1>3, ReportsMove
  <2>2. Placed(OwnerPcs, j) /\ job'[j].status \notin OpenStatus /\ hs'[h].pc \notin OwnerPcs
    BY <1>3, <2>1, SubmittedEffect
  <2>3. ~Placed(OwnerPcs, j)'
    BY <2>1, <2>2, OwnerLeaves DEF OwnerStep, Places
  <2>4. QED BY <1>1, <1>2, <2>1, <2>2, <2>3
<1>4. CASE reports'[j] = reports[j]
  <2>1. Placed(OwnerPcs, j)' => Placed(OwnerPcs, j) \/ job[j].status \in OpenStatus
    BY PlaceComes DEF OpenStatus, Places
  <2>2. ASSUME NEW h \in Handlers, Owns(h, j) PROVE Placed(OwnerPcs, j)
    BY <2>2 DEF Owns, Placed
  <2>3. job'[j].status \in OpenStatus
          => job[j].status \in OpenStatus \/ Placed(OwnerPcs, j)
    BY <2>2, OpenAgain
  <2>4. QED BY <1>2, <1>4, <2>1, <2>3
<1>5. QED BY <1>3, <1>4

\* The platform takes at most one report per attempt, in every order of failing submissions,
\* rollbacks and restarts; and one report in all when a submission that raises took no effect.
THEOREM ReportedOnce ==
  ASSUME RowLocks, CleanSessions
  PROVE  Spec => []OneReportPerAttempt
<1> DEFINE Base == TypeOK /\ HasJob /\ Ownership /\ RetryNotStale
           Inv == Base /\ Unreported /\ ("late" \notin SubmitOutcomes => Undelivered)
<1>1. Init => Inv
  <2>1. Init => Base
    <3>1. Init => RetryNotStale
      BY DEF Init, RetryNotStale, Idle
    <3>2. QED BY <3>1, TypeInit, HasJobInit, OwnershipInit
  <2>2. Init => Unreported /\ Undelivered
    BY DEF Init, Unreported, Undelivered
  <2>3. QED BY <2>1, <2>2
<1>2. Inv /\ [Next]_vars => Inv'
  <2>1. Base /\ [Next]_vars => Base'
    BY TypeStep, HasJobStep, OwnershipStep, RetryStep
  <2>2. QED BY <2>1, UnreportedStep, UndeliveredStep
<1>3. Inv => OneReportPerAttempt
  BY DEF Unreported, Undelivered, OneReportPerAttempt
<1>4. QED BY <1>1, <1>2, <1>3, PTL DEF Spec

-----------------------------------------------------------------------------
(* What the platform is told *)

\* The job of a task that may be called SUCCESS: nobody will touch it, its report is there.
Delivered(j) == job[j].status = "SUCCESS" /\ ~Owned(j) /\ reports[j] > 0

\* What a handler knows of its job when it is about to submit or to notify.
ToldRight ==
  \A h \in Handlers :
    /\ hs[h].pc = "submit" => job[hs[h].job].status = "SUCCESS"
    /\ hs[h].pc = "notifySuccess" => Delivered(hs[h].job)
    /\ hs[h].pc = "notifyFailed" => job[hs[h].job].status = "FAILED"

LEMMA OwnedIsPlaced == \A j : Owned(j) <=> Placed(OwnerPcs, j)
BY DEF Owned, Owns, Placed

\* A job that has ended keeps its row.
LEMMA EndedStays ==
  ASSUME TypeOK, HasJob, Ownership, CleanSessions, [Next]_vars, NEW j \in Jobs,
         job[j].status = "FAILED" \/ (job[j].status = "SUCCESS" /\ ~Owned(j))
  PROVE  job'[j] = job[j]
<1>1. ASSUME NEW h \in Handlers, Owns(h, j)
      PROVE  Owned(j) /\ job[j].status \in {"RUNNING", "SUCCESS"}
  BY <1>1 DEF Ownership, OwnedActive, Owned
<1>2. QED BY <1>1, RowWrites

\* And a delivered job stays delivered.
LEMMA DeliveredStays ==
  ASSUME TypeOK, HasJob, Ownership, CleanSessions, [Next]_vars, NEW j \in Jobs,
         Delivered(j)
  PROVE  Delivered(j)'
<1>1. job'[j] = job[j]
  BY EndedStays DEF Delivered
<1>2. ~Placed(OwnerPcs, j)'
  BY PlaceComes, OwnedIsPlaced DEF Delivered, Places
<1>3. ~Owned(j)'
  BY <1>2 DEF Owned, Owns, Placed
<1>4. reports'[j] > 0
  <2>1. reports[j] \in Nat /\ reports[j] > 0
    BY DEF Delivered, TypeOK
  <2>2. QED BY <2>1, ReportsMove
<1>5. QED BY <1>1, <1>3, <1>4 DEF Delivered

\* How a handler comes to know it.
LEMMA ToldArrives ==
  ASSUME TypeOK, HasJob, Ownership, CleanSessions, ToldRight, [Next]_vars,
         NEW h \in Handlers, HandlerStep(h), NEW j \in Jobs, hs[h].job = j
  PROVE  /\ hs'[h].pc = "submit" => hs'[h].job = j /\ job'[j].status = "SUCCESS"
         /\ hs'[h].pc = "notifySuccess" => hs'[h].job = j /\ Delivered(j)'
         /\ hs'[h].pc = "notifyFailed" => hs'[h].job = j /\ job'[j].status = "FAILED"
<1> DEFINE Telling == {"submit", "notifySuccess", "notifyFailed"}
<1>1. ASSUME NEW pc, NEW i, NEW r, pc \notin Telling,
             Done(h) \/ Hold(h, pc, i) \/ Goto(h, pc) \/ Recall(h, pc, r)
      PROVE  hs'[h].pc \notin Telling
  BY <1>1, GotoEffect, HoldEffect, DoneEffect, RecallEffect
<1>2. CASE SelectPending(h) \/ WaitPending(h) \/ SelectRetry(h) \/ WaitRetry(h)
  <2>1. hs'[h].pc \notin Telling
    BY <1>1, <1>2 DEF SelectPending, WaitPending, SelectRetry, WaitRetry, SelectRow, TakeRow
  <2>2. QED BY <2>1
<1>3. CASE SelectFails(h) \/ NotifyFailed(h) \/ NotifySuccess(h)
  BY <1>3, DoneEffect DEF SelectFails, NotifyFailed, NotifySuccess, NotifyEnd
<1>4. CASE MarkRunning(h) \/ NotifyRunning(h)
  <2>1. Done(h) \/ Goto(h, "fetch") \/ Goto(h, "rollbackRead")
    BY <1>4 DEF MarkRunning, NotifyRunning
  <2>2. QED BY <2>1, GotoEffect, DoneEffect
<1>5. CASE FetchTask(h) \/ RollbackRead(h) \/ RollbackWrite(h)
  <2>1. hs'[h].pc \notin Telling
    BY <1>1, <1>5 DEF FetchTask, RollbackRead, RollbackWrite
  <2>2. QED BY <2>1
<1>6. CASE EmptyReport(h)
  <2>1. \/ Goto(h, "rollbackRead") \/ Done(h)
        \/ /\ Goto(h, "notifyFailed") /\ LimitReached(hs[h].retry)
           /\ job' = [job EXCEPT ![j] = FailedRow(j, hs[h].retry)]
    BY <1>6 DEF EmptyReport, Committed
  <2>2. CASE Goto(h, "rollbackRead") \/ Done(h)
    BY <2>2, GotoEffect, DoneEffect
  <2>3. CASE /\ Goto(h, "notifyFailed") /\ LimitReached(hs[h].retry)
             /\ job' = [job EXCEPT ![j] = FailedRow(j, hs[h].retry)]
    <3>1. job'[j].status = "FAILED"
      BY <2>3 DEF FailedRow, TypeOK, JobRow
    <3>2. QED BY <2>3, <3>1, GotoEffect
  <2>4. QED BY <2>1, <2>2, <2>3
<1>7. CASE ValidReport(h)
  <2>1. \/ Goto(h, "rollbackRead")
        \/ /\ Goto(h, "submit")
           /\ job' = [job EXCEPT ![j] = [job[j] EXCEPT !.status = "SUCCESS"]]
    BY <1>7 DEF ValidReport, Committed
  <2>2. QED BY <2>1, GotoEffect DEF TypeOK, JobRow
<1>8. CASE SubmitReport(h)
  <2>1. CASE Goto(h, "rollbackRead")
    BY <2>1, GotoEffect
  <2>2. CASE Goto(h, "notifySuccess") /\ reports' = [reports EXCEPT ![j] = @ + 1]
    <3>1. hs'[h].pc = "notifySuccess" /\ hs'[h].job = j
      BY <2>2, GotoEffect
    <3>2. job'[j].status = "SUCCESS" /\ Owns(h, j)
      BY <1>8 DEF SubmitReport, At, ToldRight, Owns, OwnerPcs
    <3>3. ~Placed(OwnerPcs, j)'
      BY <1>8, <3>1, <3>2, OwnerLeaves DEF OwnerStep, OwnerPcs, Places
    <3>4. reports'[j] > 0
      BY <2>2 DEF TypeOK
    <3>5. QED BY <3>1, <3>2, <3>3, <3>4 DEF Delivered, Owned, Owns, Placed
  <2>3. QED BY <1>8, <2>1, <2>2 DEF SubmitReport
<1>9. QED BY <1>2, <1>3, <1>4, <1>5, <1>6, <1>7, <1>8 DEF HandlerStep

\* What it knows does not become false while it stays there.
LEMMA ToldStays ==
  ASSUME TypeOK, HasJob, Ownership, CleanSessions, ToldRight, [Next]_vars,
         NEW k \in Handlers, ~HandlerStep(k), NEW j \in Jobs, j = hs[k].job
  PROVE  /\ hs[k].pc = "submit" => job'[j].status = "SUCCESS"
         /\ hs[k].pc = "notifySuccess" => Delivered(j)'
         /\ hs[k].pc = "notifyFailed" => job'[j].status = "FAILED"
<1>1. ASSUME hs[k].pc = "submit" PROVE job'[j] = job[j]
  <2>1. Owns(k, j) /\ job[j].status = "SUCCESS"
    BY <1>1 DEF Owns, OwnerPcs, ToldRight
  <2>2. ASSUME NEW h \in Handlers, OwnerStep(h), Owns(h, j) PROVE FALSE
    <3>1. h = k
      BY <2>1, <2>2 DEF Ownership, ExclusiveOwner
    <3>2. QED BY <2>2, <3>1 DEF OwnerStep, HandlerStep
  <2>3. QED BY <2>1, <2>2, RowWrites
<1>2. ASSUME hs[k].pc = "notifySuccess" PROVE Delivered(j)'
  BY <1>2, DeliveredStays DEF ToldRight
<1>3. ASSUME hs[k].pc = "notifyFailed" PROVE job'[j].status = "FAILED"
  BY <1>3, EndedStays DEF ToldRight
<1>4. QED BY <1>1, <1>2, <1>3 DEF ToldRight

LEMMA ToldStep ==
  ASSUME CleanSessions
  PROVE  TypeOK /\ HasJob /\ Ownership /\ ToldRight /\ [Next]_vars => ToldRight'
<1> SUFFICES ASSUME TypeOK, HasJob, Ownership, ToldRight, [Next]_vars, NEW k \in Handlers
             PROVE  /\ hs'[k].pc = "submit" => job'[hs'[k].job].status = "SUCCESS"
                    /\ hs'[k].pc = "notifySuccess" => Delivered(hs[k].job)'
                    /\ hs'[k].pc = "notifyFailed" => job'[hs'[k].job].status = "FAILED"
  BY DEF ToldRight
<1> DEFINE Telling == {"submit", "notifySuccess", "notifyFailed"}
<1>1. CASE hs'[k].pc = hs[k].pc /\ hs'[k].job = hs[k].job /\ ~HandlerStep(k)
  <2>1. CASE hs'[k].pc \in Telling
    <3>1. PICK j \in Jobs : j = hs[k].job
      BY <1>1, <2>1, JobOfHandler DEF JoblessPcs
    <3>2. Delivered(j)' => Delivered(hs[k].job)'
      BY <1>1, <3>1
    <3>3. QED BY <1>1, <3>1, <3>2, ToldStays
  <2>2. QED BY <2>1
<1>2. CASE HandlerStep(k)
  <2>1. CASE hs[k].pc \in JoblessPcs
    <3>1. SelectPending(k) \/ SelectRetry(k) \/ SelectFails(k)
      BY <1>2, <2>1
      DEF HandlerStep, WaitPending, WaitRetry, MarkRunning, FetchTask, NotifyRunning,
          RollbackRead, RollbackWrite, EmptyReport, NotifyFailed, NotifySuccess, NotifyEnd,
          ValidReport, SubmitReport, At, JoblessPcs
    <3>2. ASSUME NEW pc \in {"mark", "waitPending", "waitRetry", "selectRetry"}, NEW i,
                 Done(k) \/ Hold(k, pc, i) \/ Goto(k, pc)
          PROVE  hs'[k].pc \notin Telling
      BY <3>2, GotoEffect, HoldEffect, DoneEffect
    <3>3. hs'[k].pc \notin Telling
      BY <3>1, <3>2 DEF SelectPending, SelectRetry, SelectFails, SelectRow, TakeRow
    <3>4. QED BY <3>3
  <2>2. CASE hs[k].pc \notin JoblessPcs
    <3>1. PICK j \in Jobs : j = hs[k].job
      BY <2>2, JobOfHandler
    <3>2. hs'[k].job = j /\ Delivered(j)' => Delivered(hs[k].job)'
      OBVIOUS
    <3>3. QED BY <1>2, <3>1, <3>2, ToldArrives
  <2>3. QED BY <2>1, <2>2
<1>3. ASSUME NEW h \in Handlers, HandlerStep(h), h # k PROVE hs'[k] = hs[k]
  BY <1>3, OwnerStepEffect, HandlerStepEffect DEF OthersKeep
<1>4. ASSUME NEW h \in Handlers, NEW w \in Workers, GetJob(h, w) \/ CreateReport(h, w)
      PROVE  hs'[k] = hs[k] \/ hs'[k].pc \notin Telling
  <2>1. CASE GetJob(h, w)
    <3>1. OthersKeep(h) /\ hs'[h].pc = "selectPending"
      BY <2>1 DEF GetJob, Idle, TypeOK, OthersKeep
    <3>2. QED BY <3>1 DEF OthersKeep
  <2>2. CASE CreateReport(h, w)
    <3>1. OthersKeep(h) /\ hs'[h].pc \in {"rollbackRead", "emptyReport", "validReport"}
      BY <2>2 DEF CreateReport, TypeOK, OthersKeep, ReportBranch
    <3>2. QED BY <3>1 DEF OthersKeep
  <2>3. QED BY <1>4, <2>1, <2>2
<1>5. ASSUME NEW h \in Handlers, BreakCall(h)
      PROVE  hs'[k].pc = hs[k].pc /\ hs'[k].job = hs[k].job
  BY <1>5, BreakCallEffect
<1>6. CASE Restart
  BY <1>6 DEF Restart, Idle
<1>7. CASE hs' = hs
  BY <1>1, <1>2, <1>7
<1>8. QED
  BY <1>1, <1>2, <1>3, <1>4, <1>5, <1>6, <1>7
  DEF Next, Poll, Report, CreateJob, LoseJob, GetJobNotFound, vars

\* The platform's status of a task changes only by a notification of a handler.
LEMMA StatusMoves ==
  ASSUME TypeOK, HasJob, [Next]_vars, NEW t \in Tasks, ext'[t] # ext[t]
  PROVE  \E h \in Handlers, j \in Jobs :
           /\ hs[h].job = j /\ TaskOf[j] = t
           /\ \/ ext'[t] = "RUNNING"
              \/ ext'[t] = "SUCCESS" /\ hs[h].pc = "notifySuccess"
              \/ ext'[t] = "FAILED" /\ hs[h].pc = "notifyFailed"
<1>1. \/ \E h \in Handlers : NotifyRunning(h) \/ NotifyFailed(h) \/ NotifySuccess(h)
      \/ ext' = ext
  <2>1. ASSUME NEW h \in Handlers, HandlerStep(h),
               ~(NotifyRunning(h) \/ NotifyFailed(h) \/ NotifySuccess(h))
        PROVE  ext' = ext
    <3>1. CASE SelectPending(h) \/ SelectRetry(h) \/ WaitPending(h) \/ WaitRetry(h)
      BY <3>1 DEF SelectPending, SelectRetry, WaitPending, WaitRetry
    <3>2. CASE SelectFails(h) \/ MarkRunning(h)
      BY <3>2 DEF SelectFails, MarkRunning
    <3>3. CASE FetchTask(h) \/ RollbackRead(h) \/ RollbackWrite(h)
      BY <3>3 DEF FetchTask, RollbackRead, RollbackWrite
    <3>4. CASE EmptyReport(h) \/ ValidReport(h) \/ SubmitReport(h)
      BY <3>4 DEF EmptyReport, ValidReport, SubmitReport
    <3>5. QED BY <2>1, <3>1, <3>2, <3>3, <3>4 DEF HandlerStep
  <2>2. ASSUME NEW h \in Handlers, NEW w \in Workers,
               GetJob(h, w) \/ CreateReport(h, w) \/ GetJobNotFound(h, w)
        PROVE  ext' = ext
    BY <2>2 DEF GetJob, CreateReport, GetJobNotFound, vars
  <2>3. ASSUME NEW h \in Handlers, BreakCall(h) PROVE ext' = ext
    BY <2>3 DEF BreakCall
  <2>4. ASSUME NEW w \in Workers, LoseJob(w) PROVE ext' = ext
    BY <2>4 DEF LoseJob
  <2>5. ASSUME NEW i \in Jobs, CreateJob(i) PROVE ext' = ext
    BY <2>5 DEF CreateJob
  <2>6. CASE Restart
    BY <2>6 DEF Restart
  <2>7. QED BY <2>1, <2>2, <2>3, <2>4, <2>5, <2>6 DEF Next, Poll, Report, vars
<1>2. PICK h \in Handlers : NotifyRunning(h) \/ NotifyFailed(h) \/ NotifySuccess(h)
  BY <1>1
<1>3. PICK s \in {"RUNNING", "SUCCESS", "FAILED"} :
        /\ \E o \in StatusOutcomes : ext' = Notified(o, hs[h].job, s)
        /\ \/ s = "RUNNING" /\ hs[h].pc = "notifyRunning"
           \/ s = "SUCCESS" /\ hs[h].pc = "notifySuccess"
           \/ s = "FAILED" /\ hs[h].pc = "notifyFailed"
  BY <1>2 DEF NotifyRunning, NotifyFailed, NotifySuccess, NotifyEnd, At
<1>4. PICK j \in Jobs : j = hs[h].job
  BY <1>3, JobOfHandler DEF JoblessPcs
<1>5. ext' = [ext EXCEPT ![TaskOf[j]] = s]
  BY <1>3, <1>4 DEF Notified
<1>6. TaskOf[j] = t /\ ext'[t] = s
  BY <1>5 DEF TypeOK
<1>7. QED BY <1>3, <1>4, <1>6

LEMMA TruthStep ==
  ASSUME CleanSessions
  PROVE  TypeOK /\ HasJob /\ Ownership /\ ToldRight /\ PlatformTruthful /\ [Next]_vars
           => PlatformTruthful'
<1> SUFFICES ASSUME TypeOK, HasJob, Ownership, ToldRight, PlatformTruthful, [Next]_vars,
                    NEW t \in Tasks
             PROVE  /\ ext'[t] = "SUCCESS" => \E j \in Jobs : TaskOf[j] = t /\ Delivered(j)'
                    /\ ext'[t] = "FAILED"
                         => \E j \in Jobs : TaskOf[j] = t /\ job'[j].status = "FAILED"
  BY DEF PlatformTruthful, Delivered, Owned, Owns
<1>1. ASSUME NEW j \in Jobs, job[j].status = "FAILED" PROVE job'[j].status = "FAILED"
  BY <1>1, EndedStays
<1>2. CASE ext'[t] = ext[t]
  <2>1. CASE ext[t] = "SUCCESS"
    <3>1. PICK j \in Jobs : TaskOf[j] = t /\ Delivered(j)
      BY <2>1 DEF PlatformTruthful, Delivered
    <3>2. QED BY <1>2, <2>1, <3>1, DeliveredStays
  <2>2. CASE ext[t] = "FAILED"
    BY <1>1, <1>2, <2>2 DEF PlatformTruthful
  <2>3. QED BY <1>2, <2>1, <2>2
<1>3. CASE ext'[t] # ext[t]
  <2>1. PICK h \in Handlers, j \in Jobs :
          /\ hs[h].job = j /\ TaskOf[j] = t
          /\ \/ ext'[t] = "RUNNING"
             \/ ext'[t] = "SUCCESS" /\ hs[h].pc = "notifySuccess"
             \/ ext'[t] = "FAILED" /\ hs[h].pc = "notifyFailed"
    BY <1>3, StatusMoves
  <2>2. CASE ext'[t] = "SUCCESS"
    <3>1. Delivered(j)
      BY <2>1, <2>2 DEF ToldRight
    <3>2. QED BY <2>1, <2>2, <3>1, DeliveredStays
  <2>3. CASE ext'[t] = "FAILED"
    <3>1. job[j].status = "FAILED"
      BY <2>1, <2>3 DEF ToldRight
    <3>2. QED BY <1>1, <2>1, <2>3, <3>1
  <2>4. QED BY <2>2, <2>3
<1>4. QED BY <1>2, <1>3

\* What the platform is told last is true, through every fault: SUCCESS of a task is said only
\* of a job that nobody can take back and whose report is there, FAILED only of a failed one.
THEOREM PlatformToldTheTruth ==
  ASSUME RowLocks, CleanSessions
  PROVE  Spec => []PlatformTruthful
<1> DEFINE Inv == TypeOK /\ HasJob /\ Ownership /\ ToldRight /\ PlatformTruthful
<1>1. Init => Inv
  <2>1. Init => ToldRight
    BY DEF Init, ToldRight, Idle
  <2>2. Init => PlatformTruthful
    BY DEF Init, PlatformTruthful
  <2>3. QED BY <2>1, <2>2, TypeInit, HasJobInit, OwnershipInit
<1>2. Inv /\ [Next]_vars => Inv'
  BY TypeStep, HasJobStep, OwnershipStep, ToldStep, TruthStep
<1>3. QED BY <1>1, <1>2, PTL DEF Spec

-----------------------------------------------------------------------------
(* The manager implements the life of a job, when sessions do not raise and *)
(* the process does not restart; calls may still break and workers be lost. *)

SessionsCommit == DbOutcomes = {"ok"} /\ "crash" \notin Faults

\* A job whose row has not been written yet by its attempt is RUNNING.
Working == \A j \in Jobs : Placed(WorkPcs, j) => job[j].status = "RUNNING"

LEMMA WorkingStep ==
  ASSUME RowLocks, CleanSessions
  PROVE  TypeOK /\ HasJob /\ Ownership /\ RetryNotStale /\ Working /\ [Next]_vars
           => Working'
<1> SUFFICES ASSUME TypeOK, HasJob, Ownership, RetryNotStale, Working, [Next]_vars,
                    NEW j \in Jobs, Placed(WorkPcs, j)'
             PROVE  job'[j].status = "RUNNING"
  BY DEF Working, Placed
<1>1. Ownership'
  BY OwnershipStep
<1>2. job'[j].status \in Active
  BY <1>1 DEF Ownership, OwnedActive, Owned, Owns, Placed, WorkPcs, OwnerPcs, Active
<1>3. Placed(WorkPcs, j) \/ job[j].status \in {"PENDING", "RETRY"}
  BY PlaceComes DEF Places
<1>4. CASE job'[j] = job[j]
  BY <1>2, <1>3, <1>4 DEF Working, Active
<1>5. CASE job'[j] # job[j]
  <2>1. ASSUME NEW h \in Handlers, OwnerStep(h), Owns(h, j) PROVE FALSE
    <3>1. hs'[h].pc \in WorkPcs
      BY <2>1, OwnerLeaves DEF Places
    <3>2. ValidReport(h)
      BY <1>2, <1>5, <2>1, OwnerWrites DEF Active
    <3>3. Goto(h, "submit") \/ Goto(h, "rollbackRead")
      BY <3>2 DEF ValidReport
    <3>4. QED BY <3>1, <3>3, GotoEffect DEF WorkPcs
  <2>2. \/ job[j].status = "ABSENT" /\ job' = [job EXCEPT ![j].status = "PENDING"]
        \/ job' = [job EXCEPT ![j] = [job[j] EXCEPT !.status = "RUNNING"]]
    BY <1>5, <2>1, RowWrites
  <2>3. QED BY <1>2, <2>2 DEF TypeOK, JobRow, Active
<1>6. QED BY <1>4, <1>5

LEMMA CommitFacts ==
  SessionsCommit => CleanSessions /\ \A o \in DbOutcomes : o = "ok"
BY DEF SessionsCommit, CleanSessions

\* What the life of a job sees of a row.
Seen(j) == IF job[j].status = "SUCCESS" /\ Attempted(j) THEN "RUNNING" ELSE job[j].status

LEMMA AttemptedDef == \A j : Attempted(j) <=> \E h \in Handlers : Owns(h, j)
BY DEF Attempted

\* A step of a handler is an attempt at its own job only.
LEMMA OtherAttempts ==
  ASSUME NEW h \in Handlers, OthersKeep(h), NEW i,
         hs[h].pc \in OwnerPcs => hs[h].job # i,
         hs'[h].pc \in OwnerPcs => hs'[h].job # i
  PROVE  Attempted(i)' <=> Attempted(i)
BY DEF Attempted, Owns, OthersKeep

LEMMA OwnAttempt ==
  ASSUME TypeOK, HasJob, Ownership, CleanSessions, NEW h \in Handlers, OwnerStep(h),
         NEW j \in Jobs, j = hs[h].job
  PROVE  /\ Attempted(j) /\ (Attempted(j)' <=> hs'[h].pc \in OwnerPcs)
         /\ \A i \in Jobs : i # j => (Attempted(i)' <=> Attempted(i))
<1>1. OthersKeep(h) /\ hs[h].pc \in OwnerPcs
      /\ (hs'[h].pc \in OwnerPcs => hs'[h].job = j)
  BY OwnerStepEffect
<1>2. Owns(h, j)
  BY <1>1 DEF Owns
<1>3. \A k \in Handlers : k # h => ~Owns(k, j)
  BY <1>2 DEF Ownership, ExclusiveOwner
<1>4. \A k \in Handlers : k # h => ~Owns(k, j)'
  BY <1>1, <1>3 DEF Owns, OthersKeep
<1>5. Owns(h, j)' <=> hs'[h].pc \in OwnerPcs
  BY <1>1 DEF Owns
<1>6. QED BY <1>1, <1>2, <1>4, <1>5, OtherAttempts DEF Attempted

\* A step that writes nothing and ends or begins no attempt at a SUCCESS row is not seen.
LEMMA NotSeen ==
  ASSUME job' = job, reports' = reports,
         \A i \in Jobs : job[i].status = "SUCCESS" => (Attempted(i)' <=> Attempted(i))
  PROVE  UNCHANGED Lifecycle!lcVars
<1>1. \A i \in Jobs : Seen(i)' = Seen(i)
  BY DEF Seen
<1>2. QED BY <1>1 DEF Lifecycle!lcVars, Seen

LEMMA BystanderNotSeen ==
  ASSUME NEW h \in Handlers, OthersKeep(h), hs[h].pc \notin OwnerPcs,
         hs'[h].pc \notin OwnerPcs, job' = job, reports' = reports
  PROVE  UNCHANGED Lifecycle!lcVars
BY OtherAttempts, NotSeen

\* A failure that is counted, whichever handler counts it.
LEMMA FailSeen ==
  ASSUME TypeOK, HasJob, Ownership, CleanSessions, NEW h \in Handlers, OwnerStep(h),
         NEW j \in Jobs, j = hs[h].job, hs'[h].pc \notin OwnerPcs,
         job' = [job EXCEPT ![j] = FailedRow(j, job[j].retry)], reports' = reports
  PROVE  Lifecycle!Fail(j)
<1>1. /\ Attempted(j) /\ ~Attempted(j)'
      /\ \A i \in Jobs : i # j => (Attempted(i)' <=> Attempted(i))
  BY OwnAttempt
<1>2. job[j].status \in Active
  BY <1>1 DEF Attempted, Ownership, OwnedActive, Owned, Active
<1>3. Seen(j) = "RUNNING"
  BY <1>1, <1>2 DEF Seen, Active
<1>4. /\ job'[j] = FailedRow(j, job[j].retry)
      /\ \A i \in Jobs : i # j => job'[i] = job[i]
  BY DEF TypeOK
<1>5. \A i \in Jobs : i # j => Seen(i)' = Seen(i) /\ job'[i].retry = job[i].retry
  BY <1>1, <1>4 DEF Seen
<1>6. CASE LimitReached(job[j].retry)
  <2>1. job'[j].status = "FAILED" /\ job'[j].retry = job[j].retry
    BY <1>4, <1>6 DEF FailedRow, TypeOK, JobRow
  <2>2. Seen(j)' = "FAILED"
    BY <2>1 DEF Seen
  <2>3. QED BY <1>3, <1>5, <1>6, <2>1, <2>2 DEF Lifecycle!Fail, Seen, LimitReached
<1>7. CASE ~LimitReached(job[j].retry)
  <2>1. job'[j].status = "RETRY" /\ job'[j].retry = job[j].retry + 1
    BY <1>4, <1>7 DEF FailedRow
  <2>2. Seen(j)' = "RETRY"
    BY <2>1 DEF Seen
  <2>3. QED BY <1>3, <1>5, <1>7, <2>1, <2>2 DEF Lifecycle!Fail, Seen, LimitReached
<1>8. QED BY <1>6, <1>7

\* The handler that owns a job: its writes are failures, its submissions deliver.
LEMMA OwnerSeen ==
  ASSUME TypeOK, HasJob, Ownership, RetryNotStale, ToldRight, Working, SessionsCommit,
         NEW h \in Handlers, OwnerStep(h)
  PROVE  [Lifecycle!LCNext]_(Lifecycle!lcVars)
<1> PICK j \in Jobs : j = hs[h].job
  BY CommitFacts, OwnerStepEffect, JobOfHandler, OwnerPcsFacts
<1>1. /\ Attempted(j) /\ (Attempted(j)' <=> hs'[h].pc \in OwnerPcs)
      /\ \A i \in Jobs : i # j => (Attempted(i)' <=> Attempted(i))
  BY CommitFacts, OwnAttempt
<1>2. CASE FetchTask(h) \/ RollbackRead(h)
  <2>1. Goto(h, "notifyRunning") \/ Goto(h, "rollbackRead")
          \/ Recall(h, "rollbackWrite", job[j].retry)
    BY <1>2, CommitFacts DEF FetchTask, RollbackRead
  <2>2. hs'[h].pc \in OwnerPcs
    BY <2>1, GotoEffect, RecallEffect DEF OwnerPcs
  <2>3. QED BY <1>1, <1>2, <2>2, NotSeen DEF FetchTask, RollbackRead
<1>3. CASE RollbackWrite(h)
  <2>1. /\ job' = [job EXCEPT ![j] = FailedRow(j, job[j].retry)]
        /\ Done(h) /\ reports' = reports
    BY <1>3, CommitFacts DEF RollbackWrite, Committed, At, RetryNotStale
  <2>2. hs'[h].pc \notin OwnerPcs
    BY <2>1, DoneEffect DEF OwnerPcs
  <2>3. QED BY <2>1, <2>2, CommitFacts, FailSeen DEF Lifecycle!LCNext
<1>4. CASE EmptyReport(h)
  <2>1. /\ job' = [job EXCEPT ![j] = FailedRow(j, job[j].retry)]
        /\ Done(h) \/ Goto(h, "notifyFailed")
        /\ reports' = reports
    BY <1>4, CommitFacts DEF EmptyReport, Committed, At, RetryNotStale
  <2>2. hs'[h].pc \notin OwnerPcs
    BY <2>1, DoneEffect, GotoEffect DEF OwnerPcs
  <2>3. QED BY <2>1, <2>2, CommitFacts, FailSeen DEF Lifecycle!LCNext
<1>5. CASE ValidReport(h)
  <2>1. /\ job' = [job EXCEPT ![j] = [job[j] EXCEPT !.status = "SUCCESS"]]
        /\ Goto(h, "submit") /\ reports' = reports
    BY <1>5, CommitFacts DEF ValidReport, Committed
  <2>2. Attempted(j)'
    BY <1>1, <2>1, GotoEffect DEF OwnerPcs
  <2>3. job[j].status = "RUNNING"
    BY <1>5 DEF ValidReport, At, Working, Placed, WorkPcs
  <2>4. /\ job'[j].status = "SUCCESS" /\ job'[j].retry = job[j].retry
        /\ \A i \in Jobs : i # j => job'[i] = job[i]
    BY <2>1 DEF TypeOK, JobRow
  <2>5. \A i \in Jobs : Seen(i)' = Seen(i) /\ job'[i].retry = job[i].retry
    BY <1>1, <2>2, <2>3, <2>4 DEF Seen
  <2>6. QED BY <2>1, <2>5 DEF Lifecycle!lcVars, Seen
<1>6. CASE SubmitReport(h)
  <2>1. job' = job /\ job[j].status = "SUCCESS"
    BY <1>6 DEF SubmitReport, At, ToldRight
  <2>2. Seen(j) = "RUNNING"
    BY <1>1, <2>1 DEF Seen
  <2>3. \A i \in Jobs : i # j => Seen(i)' = Seen(i)
    BY <1>1, <2>1 DEF Seen
  <2>4. /\ Goto(h, "notifySuccess") \/ Goto(h, "rollbackRead")
        /\ reports' = reports \/ reports' = [reports EXCEPT ![j] = @ + 1]
        /\ Goto(h, "rollbackRead") \/ reports' = [reports EXCEPT ![j] = @ + 1]
    BY <1>6 DEF SubmitReport
  <2>5. CASE Goto(h, "rollbackRead") /\ reports' = reports
    <3>1. Attempted(j)'
      BY <1>1, <2>5, GotoEffect DEF OwnerPcs
    <3>2. QED BY <1>1, <2>1, <2>5, <3>1, NotSeen
  <2>6. CASE reports' = [reports EXCEPT ![j] = @ + 1]
    <3>1. /\ reports'[j] > 0
          /\ \A i \in Jobs : i # j => reports'[i] = reports[i]
      BY <2>6 DEF TypeOK
    <3>2. CASE Goto(h, "rollbackRead")
      <4>1. Seen(j)' = "RUNNING"
        BY <1>1, <2>1, <3>2, GotoEffect DEF Seen, OwnerPcs
      <4>2. Lifecycle!Deliver(j)
        BY <2>1, <2>2, <2>3, <3>1, <4>1 DEF Lifecycle!Deliver, Seen
      <4>3. QED BY <4>2 DEF Lifecycle!LCNext
    <3>3. CASE Goto(h, "notifySuccess")
      <4>1. Seen(j)' = "SUCCESS"
        BY <1>1, <2>1, <3>3, GotoEffect DEF Seen, OwnerPcs
      <4>2. Lifecycle!Complete(j)
        BY <2>1, <2>2, <2>3, <3>1, <4>1 DEF Lifecycle!Complete, Seen
      <4>3. QED BY <4>2 DEF Lifecycle!LCNext
    <3>4. QED BY <2>4, <3>2, <3>3
  <2>7. QED BY <2>4, <2>5, <2>6
<1>7. QED BY <1>2, <1>3, <1>4, <1>5, <1>6 DEF OwnerStep

\* Claiming: the row becomes RUNNING, and its job is attempted.
LEMMA ClaimSeen ==
  ASSUME TypeOK, HasJob, Ownership, SessionsCommit, NEW h \in Handlers, MarkRunning(h)
  PROVE  [Lifecycle!LCNext]_(Lifecycle!lcVars)
<1> PICK j \in Jobs : j = hs[h].job
  BY JobOfHandler DEF MarkRunning, At, JoblessPcs
<1>1. /\ job' = [job EXCEPT ![j] = [job[j] EXCEPT !.status = "RUNNING"]]
      /\ Goto(h, "fetch") /\ reports' = reports
      /\ job[j].status \in {"PENDING", "RETRY"} /\ hs[h].pc \notin OwnerPcs
  BY CommitFacts, OwnerPcsFacts DEF MarkRunning, Committed, At, Ownership, MarkLocked
<1>2. /\ job'[j].status = "RUNNING" /\ job'[j].retry = job[j].retry
      /\ \A i \in Jobs : i # j => job'[i] = job[i]
  BY <1>1 DEF TypeOK, JobRow
<1>3. \A i \in Jobs : i # j => (Attempted(i)' <=> Attempted(i))
  BY <1>1, GotoEffect, OtherAttempts
<1>4. Seen(j) = job[j].status /\ Seen(j)' = "RUNNING"
  BY <1>1, <1>2 DEF Seen
<1>5. \A i \in Jobs : i # j => Seen(i)' = Seen(i)
  BY <1>2, <1>3 DEF Seen
<1>6. Lifecycle!Claim(j)
  BY <1>1, <1>2, <1>4, <1>5 DEF Lifecycle!Claim, Seen
<1>7. QED BY <1>6 DEF Lifecycle!LCNext

LEMMA CreationSeen ==
  ASSUME TypeOK, Ownership, NEW j \in Jobs, CreateJob(j)
  PROVE  [Lifecycle!LCNext]_(Lifecycle!lcVars)
<1>1. /\ job[j].status = "ABSENT" /\ job'[j].status = "PENDING"
      /\ job'[j].retry = job[j].retry
      /\ \A i \in Jobs : i # j => job'[i] = job[i]
      /\ hs' = hs /\ reports' = reports
  BY DEF CreateJob, TypeOK, JobRow
<1>2. \A i : Attempted(i)' <=> Attempted(i)
  BY <1>1 DEF Attempted, Owns
<1>3. Seen(j) = "ABSENT" /\ Seen(j)' = "PENDING"
  BY <1>1 DEF Seen
<1>4. \A i \in Jobs : i # j => Seen(i)' = Seen(i)
  BY <1>1, <1>2 DEF Seen
<1>5. Lifecycle!Create(j)
  BY <1>1, <1>3, <1>4 DEF Lifecycle!Create, Seen
<1>6. QED BY <1>5 DEF Lifecycle!LCNext

\* Every step of the manager is a step in the life of one job, or none is seen.
LEMMA LifecycleStep ==
  ASSUME TypeOK, HasJob, Ownership, RetryNotStale, ToldRight, Working, SessionsCommit,
         [Next]_vars
  PROVE  [Lifecycle!LCNext]_(Lifecycle!lcVars)
<1>1. ASSUME NEW h \in Handlers, HandlerStep(h)
      PROVE  [Lifecycle!LCNext]_(Lifecycle!lcVars)
  <2>1. CASE SelectPending(h) \/ WaitPending(h) \/ SelectRetry(h) \/ WaitRetry(h)
    <3>1. /\ hs[h].pc \notin OwnerPcs /\ job' = job /\ reports' = reports
          /\ ~OwnerStep(h) /\ ~MarkRunning(h)
      BY <2>1, OwnerStepEffect, CommitFacts
      DEF SelectPending, WaitPending, SelectRetry, WaitRetry, MarkRunning, At, OwnerPcs
    <3>2. OthersKeep(h)
      BY <1>1, <3>1, HandlerStepEffect, CommitFacts
    <3>3. hs'[h].pc \notin OwnerPcs
      BY <1>1, <3>1, PlaceKept, CommitFacts DEF Places
    <3>4. QED BY <3>1, <3>2, <3>3, BystanderNotSeen
  <2>2. CASE SelectFails(h) \/ NotifyFailed(h) \/ NotifySuccess(h)
    <3>1. /\ hs[h].pc \notin OwnerPcs /\ job' = job /\ reports' = reports /\ Done(h)
      BY <2>2 DEF SelectFails, NotifyFailed, NotifySuccess, NotifyEnd, At, OwnerPcs
    <3>2. QED BY <3>1, DoneEffect, BystanderNotSeen DEF OwnerPcs
  <2>3. CASE NotifyRunning(h)
    <3> PICK j \in Jobs : j = hs[h].job
      BY <2>3, JobOfHandler DEF NotifyRunning, At, JoblessPcs
    <3>1. job' = job /\ reports' = reports /\ (Done(h) \/ Goto(h, "rollbackRead"))
      BY <2>3 DEF NotifyRunning
    <3>2. job[j].status = "RUNNING"
      BY <2>3 DEF NotifyRunning, At, Working, Placed, WorkPcs
    <3>3. OthersKeep(h) /\ (hs'[h].pc \in OwnerPcs => hs'[h].job = j)
      BY <3>1, DoneEffect, GotoEffect DEF OwnerPcs
    <3>4. \A i \in Jobs : i # j => (Attempted(i)' <=> Attempted(i))
      BY <3>3, OtherAttempts
    <3>5. QED BY <3>1, <3>2, <3>4, NotSeen
  <2>4. QED
    BY <1>1, <2>1, <2>2, <2>3, OwnerSeen, ClaimSeen DEF HandlerStep, OwnerStep
<1>2. ASSUME NEW h \in Handlers, NEW w \in Workers, GetJob(h, w)
      PROVE  UNCHANGED Lifecycle!lcVars
  <2>1. /\ OthersKeep(h) /\ hs[h].pc \notin OwnerPcs /\ hs'[h].pc \notin OwnerPcs
        /\ job' = job /\ reports' = reports
    BY <1>2 DEF GetJob, Idle, TypeOK, OthersKeep, At, OwnerPcs
  <2>2. QED BY <2>1, BystanderNotSeen
<1>3. ASSUME NEW h \in Handlers, NEW w \in Workers, CreateReport(h, w)
      PROVE  UNCHANGED Lifecycle!lcVars
  <2> PICK j \in Jobs : j = running[w]
    BY <1>3 DEF CreateReport, TypeOK
  <2>1. /\ OthersKeep(h) /\ hs[h].pc \notin OwnerPcs /\ hs'[h].job = j
        /\ job' = job /\ reports' = reports
    BY <1>3 DEF CreateReport, TypeOK, OthersKeep, At, OwnerPcs
  <2>2. job[j].status = "RUNNING"
    BY DEF Working, Placed
  <2>3. \A i \in Jobs : i # j => (Attempted(i)' <=> Attempted(i))
    BY <2>1, OtherAttempts
  <2>4. QED BY <2>1, <2>2, <2>3, NotSeen
<1>4. ASSUME NEW h \in Handlers, BreakCall(h) PROVE UNCHANGED Lifecycle!lcVars
  <2>1. \A i : Attempted(i)' <=> Attempted(i)
    BY <1>4, BreakCallEffect DEF Attempted, Owns
  <2>2. QED BY <1>4, <2>1, NotSeen DEF BreakCall
<1>5. CASE hs' = hs /\ job' = job /\ reports' = reports
  <2>1. \A i : Attempted(i)' <=> Attempted(i)
    BY <1>5 DEF Attempted, Owns
  <2>2. QED BY <1>5, <2>1, NotSeen
<1>6. ~Restart
  BY DEF Restart, SessionsCommit
<1>7. QED
  BY <1>1, <1>2, <1>3, <1>4, <1>5, <1>6, CreationSeen
  DEF Next, Poll, Report, LoseJob, GetJobNotFound, vars

\* The manager implements the life of a job: for any number of jobs, threads and workers, with
\* failing platform calls and lost workers, each step claims, fails, delivers or completes one.
THEOREM ManagerImplementsLifecycle ==
  ASSUME RowLocks, SessionsCommit
  PROVE  Spec => ImplementsLifecycle
<1> DEFINE Inv == TypeOK /\ HasJob /\ Ownership /\ RetryNotStale /\ ToldRight /\ Working
<1>1. Init => Inv
  <2>1. Init => RetryNotStale /\ ToldRight
    BY DEF Init, RetryNotStale, ToldRight, Idle
  <2>2. Init => Working
    BY DEF Init, Working, Placed, WorkPcs, Idle, Jobs, NoJob
  <2>3. QED BY <2>1, <2>2, TypeInit, HasJobInit, OwnershipInit
<1>2. Inv /\ [Next]_vars => Inv'
  BY CommitFacts, TypeStep, HasJobStep, OwnershipStep, RetryStep, ToldStep, WorkingStep
<1>3. Init => Lifecycle!LCInit
  <2>1. ASSUME Init, NEW j \in Jobs
        PROVE  /\ Seen(j) \in {"ABSENT", "PENDING"} /\ job[j].retry = 0
               /\ (reports[j] > 0) = FALSE
    BY <2>1 DEF Init, Seen
  <2>2. QED BY <2>1 DEF Lifecycle!LCInit, Seen
<1>4. Inv /\ [Next]_vars => [Lifecycle!LCNext]_(Lifecycle!lcVars)
  BY LifecycleStep
<1>5. QED BY <1>1, <1>2, <1>3, <1>4, PTL DEF Spec, ImplementsLifecycle, Lifecycle!LCSpec

\* In the life of a job SUCCESS comes with a delivery.
LEMMA SuccessSeen ==
  ASSUME [Lifecycle!LCNext]_(Lifecycle!lcVars), NEW j \in Jobs,
         Seen(j) = "SUCCESS" => reports[j] > 0, Seen(j)' = "SUCCESS"
  PROVE  reports'[j] > 0
<1> DEFINE S == [i \in Jobs |-> Seen(i)]
           D == [i \in Jobs |-> reports[i] > 0]
<1>1. CASE UNCHANGED Lifecycle!lcVars
  <2>1. S' = S /\ D' = D
    BY <1>1 DEF Lifecycle!lcVars, Seen
  <2>2. S'[j] = S[j] /\ D'[j] = D[j]
    BY <2>1
  <2>3. QED BY <2>2
<1>2. ASSUME NEW i \in Jobs,
             \/ S' = [S EXCEPT ![i] = "PENDING"] /\ D' = D
             \/ S' = [S EXCEPT ![i] = "RUNNING"] /\ D' = D
             \/ S' = S /\ D' = [D EXCEPT ![i] = TRUE]
             \/ S' = [S EXCEPT ![i] = "SUCCESS"] /\ D' = [D EXCEPT ![i] = TRUE]
             \/ S' = [S EXCEPT ![i] = "FAILED"] /\ D' = D
             \/ S' = [S EXCEPT ![i] = "RETRY"] /\ D' = D
      PROVE  reports'[j] > 0
  <2>1. S'[j] = "SUCCESS" /\ (S[j] = "SUCCESS" => D[j])
    OBVIOUS
  <2>2. D'[j]
    <3> HIDE DEF S, D
    <3>1. j \in DOMAIN S /\ j \in DOMAIN D
      BY DEF S, D
    <3>2. QED BY <1>2, <2>1, <3>1
  <2>3. QED BY <2>2
<1>3. CASE Lifecycle!LCNext
  <2>1. PICK i \in Jobs : \/ Lifecycle!Create(i) \/ Lifecycle!Claim(i)
                          \/ Lifecycle!Deliver(i) \/ Lifecycle!Complete(i)
                          \/ Lifecycle!Fail(i)
    BY <1>3 DEF Lifecycle!LCNext
  <2>2. QED
    BY <1>2, <2>1 DEF Lifecycle!Create, Lifecycle!Claim, Lifecycle!Deliver,
                      Lifecycle!Complete, Lifecycle!Fail, Seen
<1>4. QED BY <1>1, <1>3

\* A job that ends as SUCCESS has a report on the platform, whatever calls fail on the way.
THEOREM SuccessIsDelivered ==
  ASSUME RowLocks, SessionsCommit
  PROVE  Spec => []SuccessDelivered
<1> DEFINE Base == TypeOK /\ HasJob /\ Ownership /\ RetryNotStale /\ ToldRight /\ Working
           Reported == \A j \in Jobs : Seen(j) = "SUCCESS" => reports[j] > 0
<1>1. Init => Base /\ Reported
  <2>1. Init => RetryNotStale /\ ToldRight
    BY DEF Init, RetryNotStale, ToldRight, Idle
  <2>2. Init => Working
    BY DEF Init, Working, Placed, WorkPcs, Idle, Jobs, NoJob
  <2>3. Init => Reported
    BY DEF Init, Seen
  <2>4. QED BY <2>1, <2>2, <2>3, TypeInit, HasJobInit, OwnershipInit
<1>2. Base /\ [Next]_vars => Base'
  BY CommitFacts, TypeStep, HasJobStep, OwnershipStep, RetryStep, ToldStep, WorkingStep
<1>3. Base /\ Reported /\ [Next]_vars => Reported'
  BY LifecycleStep, SuccessSeen
<1>4. Reported => SuccessDelivered
  BY DEF SuccessDelivered, Seen, Attempted, Owned
<1>5. QED BY <1>1, <1>2, <1>3, <1>4, PTL DEF Spec

-----------------------------------------------------------------------------
(* Without faults nobody forgets a job *)

\* A call at work has its caller: one worker, which has no job meanwhile.
Callers ==
  \A h \in Handlers :
    /\ hs[h].pc # "idle" => hs[h].client \in Workers
    /\ hs[h].client \in Workers
         => /\ running[hs[h].client] = NoJob
            /\ \A k \in Handlers : hs[k].client = hs[h].client => k = h

\* A handler keeps its caller to the end of the call.
LEMMA CallerKept ==
  ASSUME TypeOK, NEW h \in Handlers, HandlerStep(h)
  PROVE  /\ OthersKeep(h) /\ hs[h].pc # "idle"
         /\ (hs'[h].pc = "idle" /\ hs'[h].client = None) \/ hs'[h].client = hs[h].client
         /\ \/ running' = running
            \/ /\ hs[h].pc = "notifyRunning" /\ Done(h)
               /\ running' = IF hs[h].client = None THEN running
                             ELSE [running EXCEPT ![hs[h].client] = hs[h].job]
<1>1. ASSUME NEW pc, NEW j, NEW r, Goto(h, pc) \/ Hold(h, pc, j) \/ Recall(h, pc, r) \/ Done(h)
      PROVE  OthersKeep(h) /\ ((hs'[h].pc = "idle" /\ hs'[h].client = None)
                               \/ hs'[h].client = hs[h].client)
  BY <1>1 DEF Goto, Hold, Recall, Done, Idle, TypeOK, HandlerState, OthersKeep
<1>2. CASE SelectPending(h) \/ WaitPending(h) \/ SelectRetry(h) \/ WaitRetry(h)
  <2>1. hs[h].pc # "idle" /\ running' = running
    BY <1>2 DEF SelectPending, WaitPending, SelectRetry, WaitRetry, SelectFails, At
  <2>2. \E pc \in Pcs, j \in Jobs \cup {NoJob} : Goto(h, pc) \/ Hold(h, pc, j) \/ Done(h)
    <3>1. hs[h].job \in Jobs \cup {NoJob}
      BY DEF TypeOK, HandlerState
    <3>2. ASSUME NEW wait \in {"waitPending", "waitRetry"}, NEW first \in SUBSET Jobs,
                 SelectRow(h, first, wait)
          PROVE  \E pc \in Pcs, j \in Jobs : Hold(h, pc, j)
      BY <3>2 DEF SelectRow, TakeRow, Pcs
    <3>3. FirstPending \in SUBSET Jobs /\ FirstRetry \in SUBSET Jobs
      BY DEF FirstPending, FirstRetry
    <3>4. CASE SelectPending(h)
      BY <3>2, <3>3, <3>4 DEF SelectPending, Pcs
    <3>5. CASE SelectRetry(h)
      BY <3>2, <3>3, <3>5 DEF SelectRetry, Pcs
    <3>6. CASE WaitPending(h)
      BY <3>1, <3>6 DEF WaitPending, TakeRow, Pcs
    <3>7. CASE WaitRetry(h)
      BY <3>1, <3>7 DEF WaitRetry, TakeRow, Pcs
    <3>8. QED BY <1>2, <3>4, <3>5, <3>6, <3>7
  <2>3. QED BY <1>1, <2>1, <2>2
<1>3. CASE SelectFails(h) \/ NotifyFailed(h) \/ NotifySuccess(h)
  BY <1>1, <1>3 DEF SelectFails, NotifyFailed, NotifySuccess, NotifyEnd, At
<1>4. CASE MarkRunning(h)
  BY <1>1, <1>4 DEF MarkRunning, At
<1>5. CASE NotifyRunning(h)
  BY <1>1, <1>5 DEF NotifyRunning, At
<1>6. CASE FetchTask(h) \/ RollbackRead(h) \/ RollbackWrite(h)
  BY <1>1, <1>6 DEF FetchTask, RollbackRead, RollbackWrite, At
<1>7. CASE EmptyReport(h)
  <2>1. /\ Goto(h, "rollbackRead") \/ Goto(h, "notifyFailed") \/ Done(h)
        /\ hs[h].pc = "emptyReport" /\ running' = running
    BY <1>7 DEF EmptyReport, At
  <2>2. QED BY <1>1, <2>1
<1>8. CASE ValidReport(h) \/ SubmitReport(h)
  BY <1>1, <1>8 DEF ValidReport, SubmitReport, At
<1>9. QED BY <1>2, <1>3, <1>4, <1>5, <1>6, <1>7, <1>8 DEF HandlerStep

\* A call begins with a worker that no other call serves.
LEMMA CallBegins ==
  ASSUME TypeOK, NEW h \in Handlers, NEW w \in Workers, GetJob(h, w) \/ CreateReport(h, w)
  PROVE  /\ OthersKeep(h) /\ hs'[h].client = w /\ hs[h].pc = "idle"
         /\ running'[w] = NoJob
         /\ \A v \in Workers : v # w => running'[v] = running[v]
         /\ \A k \in Handlers : hs[k].client # w
<1>1. CASE GetJob(h, w)
  BY <1>1 DEF GetJob, Idle, TypeOK, OthersKeep, At, Free, Calling
<1>2. CASE CreateReport(h, w)
  BY <1>2 DEF CreateReport, TypeOK, OthersKeep, At, Calling
<1>3. QED BY <1>1, <1>2

LEMMA CallersStep ==
  ASSUME Faults = {}
  PROVE  TypeOK /\ HasJob /\ Callers /\ [Next]_vars => Callers'
<1> SUFFICES ASSUME TypeOK, HasJob, Callers, [Next]_vars PROVE Callers'
  OBVIOUS
<1> None \notin Workers
  BY ManagerAssumption
<1>1. ASSUME NEW h \in Handlers, HandlerStep(h) PROVE Callers'
  <2>1. \A k \in Handlers : hs'[k].client \in Workers => hs'[k].client = hs[k].client
    BY <1>1, CallerKept DEF OthersKeep
  <2>2. \A k \in Handlers : hs'[k].pc # "idle" => hs'[k].client \in Workers
    BY <1>1, CallerKept DEF OthersKeep, Callers
  <2>3. \A k \in Handlers : hs'[k].client \in Workers => running'[hs'[k].client] = NoJob
    <3>1. SUFFICES ASSUME NEW k \in Handlers, hs'[k].client \in Workers
                   PROVE  running'[hs'[k].client] = NoJob
      OBVIOUS
    <3>2. PICK w \in Workers : w = hs'[k].client /\ w = hs[k].client
      BY <2>1, <3>1
    <3>3. running[w] = NoJob
      BY <3>2 DEF Callers
    <3>4. CASE running' = running
      BY <3>2, <3>3, <3>4
    <3>5. CASE running' # running
      <4>1. /\ Done(h)
            /\ running' = IF hs[h].client = None THEN running
                          ELSE [running EXCEPT ![hs[h].client] = hs[h].job]
        BY <1>1, <3>5, CallerKept
      <4>2. hs'[h].client = None
        BY <4>1 DEF Done, Idle, TypeOK
      <4>3. hs[h].client # w
        BY <3>2, <4>2 DEF Callers
      <4>4. QED BY <3>2, <3>3, <4>1, <4>3 DEF TypeOK
    <3>6. QED BY <3>4, <3>5
  <2>4. QED BY <2>1, <2>2, <2>3 DEF Callers
<1>2. ASSUME NEW h \in Handlers, NEW w \in Workers, GetJob(h, w) \/ CreateReport(h, w)
      PROVE  Callers'
  <2>1. \A k \in Handlers : k # h => hs'[k] = hs[k] /\ hs[k].client # w
    BY <1>2, CallBegins DEF OthersKeep
  <2>2. QED BY <1>2, <2>1, CallBegins DEF Callers
<1>3. CASE UNCHANGED <<hs, running>>
  BY <1>3 DEF Callers
<1>4. QED
  BY <1>1, <1>2, <1>3
  DEF Next, Poll, Report, CreateJob, GetJobNotFound, BreakCall, LoseJob, Restart, vars

\* The handler that owns a RUNNING job goes on owning it as long as the row says so.
LEMMA OwnerGoesOn ==
  ASSUME TypeOK, HasJob, Ownership, RetryNotStale, ToldRight, SessionsCommit,
         NEW h \in Handlers, OwnerStep(h), NEW j \in Jobs, j = hs[h].job,
         job'[j].status = "RUNNING"
  PROVE  hs'[h].pc \in OwnerPcs
<1>1. CASE FetchTask(h) \/ RollbackRead(h)
  <2>1. Goto(h, "notifyRunning") \/ Goto(h, "rollbackRead")
          \/ Recall(h, "rollbackWrite", job[j].retry)
    BY <1>1, CommitFacts DEF FetchTask, RollbackRead
  <2>2. QED BY <2>1, GotoEffect, RecallEffect DEF OwnerPcs
<1>2. CASE RollbackWrite(h) \/ EmptyReport(h)
  <2>1. job' = [job EXCEPT ![j] = FailedRow(j, hs[h].retry)]
    BY <1>2, CommitFacts DEF RollbackWrite, EmptyReport, Committed
  <2>2. QED BY <2>1 DEF FailedRow, TypeOK, JobRow
<1>3. CASE ValidReport(h)
  BY <1>3, CommitFacts DEF ValidReport, Committed, TypeOK, JobRow
<1>4. CASE SubmitReport(h)
  BY <1>4 DEF SubmitReport, At, ToldRight
<1>5. QED BY <1>1, <1>2, <1>3, <1>4 DEF OwnerStep

LEMMA StrandedStep ==
  ASSUME Faults = {}, SessionsCommit
  PROVE  TypeOK /\ HasJob /\ Ownership /\ RetryNotStale /\ ToldRight /\ Callers
           /\ NoStrandedJob /\ [Next]_vars => NoStrandedJob'
<1> SUFFICES ASSUME TypeOK, HasJob, Ownership, RetryNotStale, ToldRight, Callers,
                    NoStrandedJob, [Next]_vars, NEW j \in Jobs, job'[j].status = "RUNNING"
             PROVE  Owned(j)'
  BY DEF NoStrandedJob
<1> SUFFICES Placed(OwnerPcs, j)'
  BY DEF Owned, Owns, Placed
<1>0. job[j].status = "RUNNING" => Placed(OwnerPcs, j)
  BY OwnedIsPlaced DEF NoStrandedJob
<1>1. ASSUME NEW h \in Handlers, HandlerStep(h) PROVE Placed(OwnerPcs, j)'
  <2>1. CASE job[j].status # "RUNNING"
    <3>1. ~OwnerStep(h) /\ job' # job
      <4>1. ASSUME OwnerStep(h) PROVE FALSE
        <5>1. hs[h].job = j
          BY <2>1, <4>1, CommitFacts, OwnerStepEffect
        <5>2. Owns(h, j)
          BY <4>1, <5>1, CommitFacts, OwnerStepEffect DEF Owns
        <5>3. QED BY <2>1, <4>1, <5>2, CommitFacts, OwnerWrites
      <4>2. QED BY <2>1, <4>1
    <3>2. MarkRunning(h)
      BY <1>1, <3>1
      DEF HandlerStep, OwnerStep, SelectPending, WaitPending, SelectRetry, WaitRetry,
          SelectFails, NotifyRunning, NotifyFailed, NotifySuccess, NotifyEnd
    <3>3. PICK i \in Jobs : i = hs[h].job
      BY <3>2, JobOfHandler DEF MarkRunning, At, JoblessPcs
    <3>4. Goto(h, "fetch") /\ job' = [job EXCEPT ![i] = [job[i] EXCEPT !.status = "RUNNING"]]
      BY <3>2, <3>3, CommitFacts DEF MarkRunning, Committed
    <3>5. i = j
      BY <2>1, <3>4 DEF TypeOK
    <3>6. QED BY <3>3, <3>4, <3>5, GotoEffect DEF Placed, OwnerPcs
  <2>2. CASE \E k \in Handlers : k # h /\ Owns(k, j)
    BY <1>1, <2>2, CallerKept DEF Owns, OthersKeep, Placed
  <2>3. CASE \E w \in Workers : running[w] = j
    <3>1. PICK w \in Workers : running[w] = j
      BY <2>3
    <3>2. hs[h].client # w
      BY <3>1 DEF Callers, Jobs, NoJob
    <3>3. running'[w] = j
      BY <1>1, <3>1, <3>2, CallerKept DEF TypeOK
    <3>4. QED BY <3>3 DEF Placed
  <2>4. CASE Owns(h, j)
    <3>1. CASE OwnerStep(h)
      <4>1. hs'[h].pc \in OwnerPcs /\ hs'[h].job = j
        BY <2>4, <3>1, CommitFacts, OwnerGoesOn, OwnerStepEffect DEF Owns
      <4>2. QED BY <4>1 DEF Placed
    <3>2. CASE NotifyRunning(h)
      <4>1. PICK w \in Workers : w = hs[h].client
        BY <3>2 DEF NotifyRunning, At, Callers
      <4>2. w # None
        BY ManagerAssumption
      <4>3. running' = [running EXCEPT ![w] = j] \/ Goto(h, "rollbackRead")
        BY <2>4, <3>2, <4>1, <4>2 DEF NotifyRunning, Owns
      <4>4. CASE running' = [running EXCEPT ![w] = j]
        BY <4>4 DEF Placed, TypeOK
      <4>5. CASE Goto(h, "rollbackRead")
        BY <2>4, <4>5, GotoEffect DEF Placed, Owns, OwnerPcs
      <4>6. QED BY <4>3, <4>4, <4>5
    <3>3. ~(SelectPending(h) \/ WaitPending(h) \/ SelectRetry(h) \/ WaitRetry(h)
            \/ SelectFails(h) \/ MarkRunning(h) \/ NotifyFailed(h) \/ NotifySuccess(h))
      BY <2>4 DEF Owns, OwnerPcs, SelectPending, WaitPending, SelectRetry, WaitRetry,
                  SelectFails, MarkRunning, NotifyFailed, NotifySuccess, NotifyEnd, At
    <3>4. QED BY <1>1, <3>1, <3>2, <3>3 DEF HandlerStep, OwnerStep
  <2>5. QED BY <1>0, <2>1, <2>2, <2>3, <2>4 DEF Placed, Owns
<1>2. ASSUME NEW h \in Handlers, NEW w \in Workers, GetJob(h, w) \/ CreateReport(h, w)
      PROVE  Placed(OwnerPcs, j)'
  <2>1. Placed(OwnerPcs, j)
    BY <1>0, <1>2 DEF GetJob, CreateReport
  <2>2. CASE \E k \in Handlers : hs[k].pc \in OwnerPcs /\ hs[k].job = j
    BY <1>2, <2>2, CallBegins DEF Placed, OthersKeep, OwnerPcs
  <2>3. CASE \E v \in Workers : v # w /\ running[v] = j
    BY <1>2, <2>3, CallBegins DEF Placed
  <2>4. CASE running[w] = j
    <3>1. CreateReport(h, w)
      BY <1>2, <2>4 DEF GetJob, Free, Jobs, NoJob
    <3>2. hs'[h].job = j /\ hs'[h].pc \in OwnerPcs
      BY <2>4, <3>1 DEF CreateReport, TypeOK, ReportBranch, OwnerPcs
    <3>3. QED BY <3>2 DEF Placed
  <2>5. QED BY <2>1, <2>2, <2>3, <2>4 DEF Placed
<1>3. ASSUME NEW i \in Jobs, CreateJob(i) PROVE Placed(OwnerPcs, j)'
  <2>1. job[j].status = "RUNNING" /\ hs' = hs /\ running' = running
    BY <1>3 DEF CreateJob, TypeOK, JobRow
  <2>2. QED BY <1>0, <2>1 DEF Placed
<1>4. CASE UNCHANGED vars
  BY <1>0, <1>4 DEF Placed, vars
<1>5. QED
  BY <1>1, <1>2, <1>3, <1>4
  DEF Next, Poll, Report, GetJobNotFound, BreakCall, LoseJob, Restart

\* When nothing is lost, a RUNNING job is always with somebody who has still to end it: with
\* a handler on its way, or with the one worker it was handed to.
THEOREM NobodyForgetsAJob ==
  ASSUME RowLocks, DbOutcomes = {"ok"}, Faults = {}
  PROVE  Spec => []NoStrandedJob
<1> DEFINE Base == TypeOK /\ HasJob /\ Ownership /\ RetryNotStale /\ ToldRight /\ Callers
<1>1. SessionsCommit
  BY DEF SessionsCommit
<1>2. Init => Base /\ NoStrandedJob
  <2>1. Init => RetryNotStale /\ ToldRight /\ NoStrandedJob
    BY DEF Init, RetryNotStale, ToldRight, Idle, NoStrandedJob
  <2>2. Init => Callers
    BY ManagerAssumption DEF Init, Callers, Idle
  <2>3. QED BY <2>1, <2>2, TypeInit, HasJobInit, OwnershipInit
<1>3. Base /\ [Next]_vars => Base'
  BY <1>1, CommitFacts, TypeStep, HasJobStep, OwnershipStep, RetryStep, ToldStep, CallersStep
<1>4. Base /\ NoStrandedJob /\ [Next]_vars => NoStrandedJob'
  BY <1>1, StrandedStep
<1>5. QED BY <1>2, <1>3, <1>4, PTL DEF Spec
=============================================================================
