-------------------------- MODULE WorkerJobs_proofs --------------------------
(***************************************************************************)
(* Theorems about WorkerJobs, for any number of jobs, loops and attempts   *)
(* and for every configuration of a worker.                                *)
(***************************************************************************)
EXTENDS WorkerJobs, FiniteSetTheorems, TLAPS

-----------------------------------------------------------------------------
(* Runs: an attempt is made once, and by one loop *)

Attempts ==
    /\ \A l \in Loops : loop[l].pc = "idle" <=> loop[l].run = NoRun
    /\ \A l \in Loops :
         loop[l].run # NoRun => loop[l].run[2] <= handed[loop[l].run[1]].tries
    /\ \A l, m \in Loops : loop[l].run = loop[m].run /\ loop[l].run # NoRun => l = m
    /\ \A d \in Readers : thread[d] # "off" => d[1][2] <= handed[d[1][1]].tries

-----------------------------------------------------------------------------
(* Types *)

LEMMA RunParts ==
  ASSUME TypeOK, NEW r \in Runs
  PROVE  r[1] \in Jobs /\ r[2] \in 1 .. MaxTries /\ r[1] \in Keys /\ Task(r) \in Keys /\ r # NoRun
BY DEF TypeOK, Runs, Keys, Task, NoRun

LEMMA ReaderParts ==
  ASSUME NEW d \in Readers
  PROVE  d[1] \in Runs /\ d[2] \in Modules /\ d = <<d[1], d[2]>>
BY DEF Readers

LEMMA StreamAtType ==
  ASSUME TypeOK, NEW k \in Keys
  PROVE  StreamAt(k) \in Stream
<1>1. streams[k] \in Seq(Stream)
  BY DEF TypeOK
<1>2. CASE streams[k] = <<>>
  BY <1>2 DEF StreamAt, NewStream, Stream
<1>3. CASE streams[k] # <<>>
  BY <1>1, <1>3 DEF StreamAt
<1>4. QED BY <1>2, <1>3

LEMMA StartedType ==
  ASSUME NEW s \in Stream, NEW R \in SUBSET Readers
  PROVE  /\ Started(s, R) \in Stream
         /\ Started(s, R).message_channels = s.message_channels \union R
         /\ Started(s, R).stopped = s.stopped
<1> DEFINE live == IF s.stopped THEN s.live ELSE s.live + 1
<1>1. live \in Nat
  BY DEF Stream
<1>2. Started(s, R) = [s EXCEPT !.message_channels = s.message_channels \union R, !.live = live]
  BY DEF Started
<1> HIDE DEF live
<1>3. QED BY <1>1, <1>2 DEF Stream

\* A key gets a stream.
LEMMA StreamSet ==
  ASSUME TypeOK, NEW k \in Keys, NEW s \in Stream, streams' = [streams EXCEPT ![k] = <<s>>]
  PROVE  /\ streams' \in [Keys -> Seq(Stream)]
         /\ StreamAt(k)' = s
         /\ \A i \in Keys : i # k => StreamAt(i)' = StreamAt(i)
<1>1. <<s>> \in Seq(Stream) /\ <<s>> # <<>> /\ <<s>>[1] = s
  OBVIOUS
<1>2. streams'[k] = <<s>> /\ \A i \in Keys : i # k => streams'[i] = streams[i]
  BY DEF TypeOK
<1>3. streams' \in [Keys -> Seq(Stream)]
  BY <1>1 DEF TypeOK
<1>4. StreamAt(k)' = s
  BY <1>1, <1>2 DEF StreamAt
<1>5. QED BY <1>2, <1>3, <1>4 DEF StreamAt

\* A stream whose loops end has no channels any more.
LEMMA StreamClosed ==
  ASSUME TypeOK, NEW k \in Keys, StreamEnds(k) \/ StreamBreaks(k)
  PROVE  /\ streams' \in [Keys -> Seq(Stream)]
         /\ StreamAt(k)'.message_channels = {}
         /\ \A i \in Keys : i # k => StreamAt(i)' = StreamAt(i)
<1>1. CASE StreamEnds(k)
  <2> DEFINE s == StreamAt(k)
             t == [s EXCEPT !.live = @ - 1, !.message_channels = {}]
  <2>1. s = streams[k][1] /\ s \in Stream /\ s.live > 0
    BY <1>1, StreamAtType DEF StreamEnds, StreamAt
  <2>2. streams' = [streams EXCEPT ![k] = <<t>>]
    BY <1>1, <2>1 DEF StreamEnds
  <2> HIDE DEF s
  <2>3. s.live - 1 \in Nat
    BY <2>1 DEF Stream
  <2>4. t \in Stream /\ t.message_channels = {}
    BY <2>1, <2>3 DEF Stream
  <2> HIDE DEF t
  <2>5. QED BY <2>2, <2>4, StreamSet
<1>2. CASE StreamBreaks(k)
  <2>1. StoppedStream \in Stream /\ StoppedStream.message_channels = {}
    BY DEF StoppedStream, Stream
  <2>2. streams' = [streams EXCEPT ![k] = <<StoppedStream>>]
    BY <1>2 DEF StreamBreaks
  <2>3. QED BY <2>1, <2>2, StreamSet
<1>3. QED BY <1>1, <1>2

\* A stream whose loops stand still keeps its channels.
LEMMA StreamStalled ==
  ASSUME TypeOK, NEW k \in Keys, StreamStalls(k)
  PROVE  /\ streams' \in [Keys -> Seq(Stream)]
         /\ \A i \in Keys : StreamAt(i)'.message_channels = StreamAt(i).message_channels
<1> DEFINE s == StreamAt(k)
           t == [s EXCEPT !.live = @ - 1, !.stalled = TRUE]
<1>1. s \in Stream /\ s.live > 0
  BY StreamAtType DEF StreamStalls
<1>2. streams' = [streams EXCEPT ![k] = <<t>>]
  BY DEF StreamStalls
<1> HIDE DEF s
<1>3. s.live - 1 \in Nat
  BY <1>1 DEF Stream
<1>4. t \in Stream /\ t.message_channels = s.message_channels
  BY <1>1, <1>3 DEF Stream
<1> HIDE DEF t
<1>5. /\ streams' \in [Keys -> Seq(Stream)] /\ StreamAt(k)' = t
      /\ \A i \in Keys : i # k => StreamAt(i)' = StreamAt(i)
  BY <1>2, <1>4, StreamSet
<1>6. StreamAt(k)'.message_channels = StreamAt(k).message_channels
  BY <1>4, <1>5 DEF s
<1>7. QED BY <1>5, <1>6

\* What the end of a stream does to channels and threads, and what it leaves alone.
LEMMA StreamOverEffect ==
  ASSUME NEW k \in Keys, StreamOver(k)
  PROVE  /\ UNCHANGED thread /\ ThreadFrame
         /\ \/ channel' = CloseOf(StreamAt(k)) /\ (StreamEnds(k) \/ StreamBreaks(k))
            \/ UNCHANGED channel /\ StreamStalls(k)
BY DEF StreamOver, StreamEnds, StreamBreaks, StreamStalls

LEMMA NeedsType == NeedsFrames \subseteq Modules
BY DEF NeedsFrames, Modules

LEMMA ModulesType ==
  ASSUME TypeOK
  PROVE  ModulesOf \subseteq Modules
<1>1. config.rules \subseteq AllRules
  BY WorkerAssumption DEF TypeOK
<1>2. QED BY <1>1 DEF ModulesOf, Modules, PhaseOne, PhaseTwo, AllRules

LEMMA TypeInit == Init => TypeOK
<1> SUFFICES ASSUME Init PROVE TypeOK
  OBVIOUS
<1>1. loop \in [Loops -> LoopState]
  BY DEF Init, LoopState
<1>2. handed \in [Jobs -> [tries: 0 .. MaxTries, ready: BOOLEAN]]
  BY WorkerAssumption DEF Init
<1>3. streams \in [Keys -> Seq(Stream)]
  BY DEF Init
<1>4. reported \in [through: BOOLEAN, ok: BOOLEAN, results: SUBSET Modules]
  BY DEF Init
<1>5. QED BY <1>1, <1>2, <1>3, <1>4 DEF Init, TypeOK

\* What the clean-up of a run leaves.
LEMMA CleanupType ==
  ASSUME TypeOK, NEW r \in Runs, Cleanup(r)
  PROVE  /\ managed_collector' \subseteq Keys \X Modules
         /\ streams' \in [Keys -> Seq(Stream)]
         /\ container' \in [Keys -> Runs \union {NoRun}]
<1>1. <<>> \in Seq(Stream)
  OBVIOUS
<1>2. streams' \in [Keys -> Seq(Stream)]
  BY <1>1 DEF Cleanup, TypeOK
<1>3. QED BY <1>2 DEF Cleanup, TypeOK

LEMMA HandType ==
  ASSUME TypeOK, NEW l, NEW r \in Runs, Fetches(l, r)
  PROVE  /\ Hand(r[1]) \in [Jobs -> [tries: 0 .. MaxTries, ready: BOOLEAN]]
         /\ handed[r[1]].tries + 1 = r[2]
         /\ Hand(r[1])[r[1]] = [tries |-> r[2], ready |-> FALSE]
         /\ \A j \in Jobs : j # r[1] => Hand(r[1])[j] = handed[j]
<1>1. r[1] \in Jobs /\ r[2] \in 1 .. MaxTries
  BY RunParts
<1>2. handed[r[1]].tries + 1 = r[2]
  BY DEF Fetches
<1>3. Hand(r[1]) = [handed EXCEPT ![r[1]] = [tries |-> r[2], ready |-> FALSE]]
  BY <1>1, <1>2 DEF Hand, TypeOK
<1>4. QED BY <1>1, <1>2, <1>3, WorkerAssumption DEF TypeOK

LEMMA HandEffect ==
  ASSUME TypeOK, NEW l \in Loops, NEW r \in Runs, Fetches(l, r), handed' = Hand(r[1])
  PROVE  /\ \A j \in Jobs : handed'[j].tries = IF j = r[1] THEN r[2] ELSE handed[j].tries
         /\ \A j \in Jobs : j # r[1] => handed'[j] = handed[j]
         /\ handed'[r[1]].ready = FALSE
         /\ handed[r[1]].tries + 1 = r[2]
<1>1. /\ handed'[r[1]] = [tries |-> r[2], ready |-> FALSE]
      /\ \A j \in Jobs : j # r[1] => handed'[j] = handed[j]
      /\ handed[r[1]].tries + 1 = r[2]
  BY HandType
<1>2. handed'[r[1]].tries = r[2] /\ handed'[r[1]].ready = FALSE
  BY <1>1
<1>3. QED BY <1>1, <1>2

LEMMA SendReportType ==
  ASSUME TypeOK, NEW r \in Runs, NEW through \in BOOLEAN, SendReport(r, through)
  PROVE  /\ handed' \in [Jobs -> [tries: 0 .. MaxTries, ready: BOOLEAN]]
         /\ reported' \in [through: BOOLEAN, ok: BOOLEAN, results: SUBSET Modules]
         /\ reported'.through = through
         /\ reported'.results = {m \in Modules : thread[<<r, m>>] \in {"ok", "seenok"}}
         /\ \A j \in Jobs : handed'[j].tries = handed[j].tries
         /\ \A j \in Jobs : j # r[1] => handed'[j] = handed[j]
<1> DEFINE results == {m \in Modules : thread[<<r, m>>] \in {"ok", "seenok"}}
           ok == through /\ create_job_report(results)
<1>1. ok \in BOOLEAN
  BY DEF create_job_report
<1>2. reported' = [through |-> through, ok |-> ok, results |-> results]
  BY DEF SendReport
<1> HIDE DEF ok
<1>3. reported' \in [through: BOOLEAN, ok: BOOLEAN, results: SUBSET Modules]
  BY <1>1, <1>2
<1>4. CASE UNCHANGED handed
  BY <1>2, <1>3, <1>4 DEF TypeOK
<1>5. CASE handed' = [handed EXCEPT ![r[1]].ready = @ \/ ~ok]
  <2>1. r[1] \in Jobs
    BY RunParts
  <2>2. (handed[r[1]].ready \/ ~ok) \in BOOLEAN
    OBVIOUS
  <2> DEFINE value == handed[r[1]].ready \/ ~ok
  <2>3. handed' = [handed EXCEPT ![r[1]] = [@ EXCEPT !.ready = value]]
    BY <1>5
  <2> HIDE DEF value
  <2>4. value \in BOOLEAN
    BY <2>2 DEF value
  <2>5. QED BY <1>2, <1>3, <2>1, <2>3, <2>4 DEF TypeOK
<1>6. QED BY <1>4, <1>5 DEF SendReport, ok

LEMMA LoopSet ==
  ASSUME TypeOK, NEW l \in Loops, NEW s \in LoopState, loop' = [loop EXCEPT ![l] = s]
  PROVE  /\ loop' \in [Loops -> LoopState]
         /\ loop'[l] = s /\ \A m \in Loops : m # l => loop'[m] = loop[m]
BY DEF TypeOK

\* Where the end of a run takes its loop, and what it writes.
LEMMA EndRunEffect ==
  ASSUME TypeOK, NEW l \in Loops, NEW r \in Runs, NEW through \in BOOLEAN, EndRun(l, r, through)
  PROVE  /\ loop' \in [Loops -> LoopState]
         /\ \A m \in Loops : m # l => loop'[m] = loop[m]
         /\ handed' \in [Jobs -> [tries: 0 .. MaxTries, ready: BOOLEAN]]
         /\ \A j \in Jobs : handed'[j].tries = handed[j].tries
         /\ \A j \in Jobs : j # r[1] => handed'[j] = handed[j]
         /\ \/ /\ r[1] \in running_jobs
               /\ loop'[l] = [pc |-> "idle", run |-> NoRun]
               /\ running_jobs' = running_jobs \ {r[1]}
               /\ Cleanup(r)
               /\ SendReport(r, through)
            \/ /\ r[1] \notin running_jobs
               /\ loop'[l] = [pc |-> "dead", run |-> r]
               /\ UNCHANGED <<running_jobs, managed_collector, streams, container, reported, handed>>
<1>1. [pc |-> "idle", run |-> NoRun] \in LoopState /\ [pc |-> "dead", run |-> r] \in LoopState
  BY DEF LoopState
<1>2. CASE r[1] \in running_jobs
  <2>1. loop' = [loop EXCEPT ![l] = [pc |-> "idle", run |-> NoRun]] /\ SendReport(r, through)
    BY <1>2 DEF EndRun
  <2>2. running_jobs' = running_jobs \ {r[1]} /\ Cleanup(r)
    BY <1>2 DEF EndRun
  <2>3. /\ loop' \in [Loops -> LoopState]
        /\ loop'[l] = [pc |-> "idle", run |-> NoRun]
        /\ \A m \in Loops : m # l => loop'[m] = loop[m]
    BY <1>1, <2>1, LoopSet
  <2>4. /\ handed' \in [Jobs -> [tries: 0 .. MaxTries, ready: BOOLEAN]]
        /\ \A j \in Jobs : handed'[j].tries = handed[j].tries
        /\ \A j \in Jobs : j # r[1] => handed'[j] = handed[j]
    BY <2>1, SendReportType
  <2>5. QED BY <1>2, <2>1, <2>2, <2>3, <2>4
<1>3. CASE r[1] \notin running_jobs
  <2>1. loop' = [loop EXCEPT ![l] = [pc |-> "dead", run |-> r]]
    BY <1>3 DEF EndRun
  <2>2. UNCHANGED <<running_jobs, managed_collector, streams, container, reported, handed>>
    BY <1>3 DEF EndRun
  <2>3. /\ loop' \in [Loops -> LoopState]
        /\ loop'[l] = [pc |-> "dead", run |-> r]
        /\ \A m \in Loops : m # l => loop'[m] = loop[m]
    BY <1>1, <2>1, LoopSet
  <2>4. QED BY <1>3, <2>2, <2>3 DEF TypeOK
<1>4. QED BY <1>2, <1>3

\* A loop in a phase has a run.
LEMMA ActiveRun ==
  ASSUME TypeOK, Attempts, NEW l \in Loops, loop[l].pc # "idle"
  PROVE  loop[l].run \in Runs
BY DEF TypeOK, LoopState, Attempts

LEMMA FreshRunning ==
  ASSUME TypeOK, NEW r
  PROVE  Seen(r) \in [Readers -> {"off", "run", "ok", "none", "seenok", "seennone"}]
BY DEF Seen, TypeOK

LEMMA TypeStep == TypeOK /\ Attempts /\ [Next]_vars => TypeOK'
<1> SUFFICES ASSUME TypeOK, Attempts, [Next]_vars PROVE TypeOK'
  OBVIOUS
<1>1. ASSUME NEW l \in Loops, NEW r \in Runs, StartRun(l, r) PROVE TypeOK'
  <2>1. r[1] \in Jobs /\ Task(r) \in Keys
    BY RunParts
  <2>2. PICK lost \in BuildOutcomes(r) :
          LET served == {r} \X (NeedsFrames \ lost)
          IN  /\ streams' = IF served = {} THEN streams
                            ELSE [streams EXCEPT ![Task(r)] = <<Started(StreamAt(Task(r)), served)>>]
              /\ channel' = [d \in Readers |-> IF d \in served THEN "open" ELSE channel[d]]
    BY <1>1 DEF StartRun
  <2> DEFINE served == {r} \X (NeedsFrames \ lost)
  <2>3. served \in SUBSET Readers
    BY NeedsType DEF Readers
  <2>4. streams' \in [Keys -> Seq(Stream)]
    <3>1. CASE served = {}
      BY <2>2, <3>1 DEF TypeOK
    <3>2. CASE served # {}
      <4>1. streams' = [streams EXCEPT ![Task(r)] = <<Started(StreamAt(Task(r)), served)>>]
        BY <2>2, <3>2
      <4>2. Started(StreamAt(Task(r)), served) \in Stream
        BY <2>1, <2>3, StreamAtType, StartedType
      <4>3. QED BY <2>1, <4>1, <4>2, StreamSet
    <3>3. QED BY <3>1, <3>2
  <2>5. channel' \in [Readers -> {"none", "open", "closed"}]
    BY <2>2 DEF TypeOK
  <2>6. thread' \in [Readers -> {"off", "run", "ok", "none", "seenok", "seennone"}]
    BY <1>1 DEF StartRun, Launch, TypeOK
  <2>7. loop' \in [Loops -> LoopState]
    BY <1>1 DEF StartRun, TypeOK, LoopState
  <2>8. handed' \in [Jobs -> [tries: 0 .. MaxTries, ready: BOOLEAN]]
    BY <1>1, HandType DEF StartRun
  <2>9. managed_collector' \subseteq Keys \X Modules
    BY <1>1, <2>1, ModulesType DEF StartRun, TypeOK
  <2>10. container' \in [Keys -> Runs \union {NoRun}] /\ running_jobs' \subseteq Jobs
    BY <1>1, <2>1 DEF StartRun, TypeOK
  <2>11. UNCHANGED <<config, reported>>
    BY <1>1 DEF StartRun
  <2>12. QED BY <2>4, <2>5, <2>6, <2>7, <2>8, <2>9, <2>10, <2>11 DEF TypeOK
<1>2. ASSUME NEW l \in Loops, NEW r \in Runs, RunAtOnce(l, r) PROVE TypeOK'
  <2>1. Cleanup(r) /\ Fetches(l, r)
    BY <1>2 DEF RunAtOnce
  <2>2. PICK through \in BOOLEAN :
          LET ok == through /\ create_job_report({})
          IN  /\ reported' = [through |-> through, ok |-> ok, results |-> {}]
              /\ handed' = [Hand(r[1]) EXCEPT ![r[1]].ready = ~ok]
    BY <1>2 DEF RunAtOnce
  <2> DEFINE ok == through /\ create_job_report({})
  <2>3. ok \in BOOLEAN
    BY DEF create_job_report
  <2> HIDE DEF ok
  <2>4. reported' \in [through: BOOLEAN, ok: BOOLEAN, results: SUBSET Modules]
    BY <2>2, <2>3 DEF ok
  <2>5. handed' \in [Jobs -> [tries: 0 .. MaxTries, ready: BOOLEAN]]
    <3>1. handed' = [Hand(r[1]) EXCEPT ![r[1]].ready = ~ok]
      BY <2>2 DEF ok
    <3>2. Hand(r[1]) \in [Jobs -> [tries: 0 .. MaxTries, ready: BOOLEAN]]
      BY <2>1, HandType
    <3>3. QED BY <2>3, <3>1, <3>2
  <2>6. channel' \in [Readers -> {"none", "open", "closed"}]
    BY <1>2 DEF RunAtOnce, Closed, TypeOK
  <2>7. UNCHANGED <<config, loop, thread>> /\ running_jobs' \subseteq Jobs
    BY <1>2 DEF RunAtOnce, TypeOK
  <2>8. QED BY <2>1, <2>4, <2>5, <2>6, <2>7, CleanupType DEF TypeOK
<1>3. ASSUME NEW l \in Loops, Collect(l) PROVE TypeOK'
  <2>1. thread' \in [Readers -> {"off", "run", "ok", "none", "seenok", "seennone"}]
    BY <1>3, FreshRunning DEF Collect
  <2>2. channel' \in [Readers -> {"none", "open", "closed"}]
    BY <1>3 DEF Collect, Closed, TypeOK
  <2>3. QED BY <1>3, <2>1, <2>2 DEF Collect, WakeFrame, TypeOK
<1>4. ASSUME NEW l \in Loops, StartPhaseTwo(l) PROVE TypeOK'
  <2>1. thread' \in [Readers -> {"off", "run", "ok", "none", "seenok", "seennone"}]
    BY <1>4, FreshRunning DEF StartPhaseTwo
  <2>2. channel' \in [Readers -> {"none", "open", "closed"}]
    BY <1>4 DEF StartPhaseTwo, Closed, TypeOK
  <2>3. loop' \in [Loops -> LoopState]
    BY <1>4 DEF StartPhaseTwo, TypeOK, LoopState
  <2>4. QED BY <1>4, <2>1, <2>2, <2>3 DEF StartPhaseTwo, WakeFrame, TypeOK
<1>5. ASSUME NEW l \in Loops, Finish(l) PROVE TypeOK'
  <2> DEFINE r == loop[l].run
             through == AllResults(r) /\ ~CleanUpRaises(r)
  <2>1. r \in Runs
    BY <1>5, ActiveRun DEF Finish
  <2>2. EndRun(l, r, through) /\ through \in BOOLEAN
    BY <1>5 DEF Finish
  <2>3. thread' \in [Readers -> {"off", "run", "ok", "none", "seenok", "seennone"}]
    BY <1>5 DEF Finish, TypeOK
  <2>4. channel' \in [Readers -> {"none", "open", "closed"}]
    <3> DEFINE q == IF r[1] \in running_jobs THEN r ELSE NoRun
    <3>1. channel' = [d \in Readers |->
                        IF d[1] = r /\ thread[d] # "run" THEN "none" ELSE Closed({}, q)[d]]
      BY <1>5 DEF Finish
    <3> HIDE DEF q, r
    <3>2. QED BY <3>1 DEF Closed, TypeOK
  <2>5. UNCHANGED config
    BY <1>5 DEF Finish
  <2> HIDE DEF through, r
  <2>6. /\ loop' \in [Loops -> LoopState]
        /\ handed' \in [Jobs -> [tries: 0 .. MaxTries, ready: BOOLEAN]]
    BY <2>1, <2>2, EndRunEffect
  <2>7. CASE Cleanup(r) /\ SendReport(r, through) /\ running_jobs' = running_jobs \ {r[1]}
    BY <2>1, <2>2, <2>3, <2>4, <2>5, <2>6, <2>7, CleanupType, SendReportType DEF TypeOK
  <2>8. CASE UNCHANGED <<running_jobs, managed_collector, streams, container, reported>>
    BY <2>3, <2>4, <2>5, <2>6, <2>8 DEF TypeOK
  <2>9. \/ Cleanup(r) /\ SendReport(r, through) /\ running_jobs' = running_jobs \ {r[1]}
        \/ UNCHANGED <<running_jobs, managed_collector, streams, container, reported>>
    BY <2>2 DEF EndRun
  <2>10. QED BY <2>7, <2>8, <2>9
<1>6. ASSUME NEW d \in Readers, ThreadOk(d) \/ ThreadFails(d) PROVE TypeOK'
  BY <1>6 DEF ThreadOk, ThreadFails, ThreadFrame, TypeOK
<1>7. ASSUME NEW k \in Keys, StreamOver(k) PROVE TypeOK'
  <2>1. streams' \in [Keys -> Seq(Stream)]
    BY <1>7, StreamOverEffect, StreamClosed, StreamStalled
  <2>2. channel' \in [Readers -> {"none", "open", "closed"}]
    BY <1>7, StreamOverEffect DEF CloseOf, TypeOK
  <2>3. UNCHANGED thread /\ ThreadFrame
    BY <1>7, StreamOverEffect
  <2>4. QED BY <2>1, <2>2, <2>3 DEF ThreadFrame, TypeOK
<1>8. CASE UNCHANGED vars
  BY <1>8 DEF vars, TypeOK
<1>9. QED BY <1>1, <1>2, <1>3, <1>4, <1>5, <1>6, <1>7, <1>8 DEF Next

-----------------------------------------------------------------------------
(* Attempts *)

\* A run that ends before its first await counts as an attempt like any other.
LEMMA RunAtOnceHands ==
  ASSUME TypeOK, NEW l \in Loops, NEW r \in Runs, RunAtOnce(l, r)
  PROVE  /\ \A j \in Jobs : handed'[j].tries = IF j = r[1] THEN r[2] ELSE handed[j].tries
         /\ \A j \in Jobs : j # r[1] => handed'[j] = handed[j]
         /\ handed[r[1]].tries + 1 = r[2]
<1>1. Fetches(l, r) /\ r[1] \in Jobs
  BY RunParts DEF RunAtOnce
<1>2. PICK v \in BOOLEAN : handed' = [Hand(r[1]) EXCEPT ![r[1]].ready = v]
  BY DEF RunAtOnce
<1>3. /\ Hand(r[1]) \in [Jobs -> [tries: 0 .. MaxTries, ready: BOOLEAN]]
      /\ Hand(r[1])[r[1]] = [tries |-> r[2], ready |-> FALSE]
      /\ \A j \in Jobs : j # r[1] => Hand(r[1])[j] = handed[j]
      /\ handed[r[1]].tries + 1 = r[2]
  BY <1>1, HandType
<1> DEFINE H == Hand(r[1])
<1> HIDE DEF H
<1>4. handed' = [H EXCEPT ![r[1]].ready = v]
  BY <1>2 DEF H
<1>5. /\ H \in [Jobs -> [tries: 0 .. MaxTries, ready: BOOLEAN]]
      /\ H[r[1]].tries = r[2] /\ \A j \in Jobs : j # r[1] => H[j] = handed[j]
  BY <1>3 DEF H
<1>6. QED BY <1>1, <1>3, <1>4, <1>5

LEMMA TriesGrow ==
  ASSUME TypeOK, Attempts, [Next]_vars, NEW j \in Jobs
  PROVE  handed'[j].tries >= handed[j].tries
<1>0. handed[j].tries \in Nat
  BY DEF TypeOK
<1>1. ASSUME NEW l \in Loops, NEW r \in Runs, StartRun(l, r)
      PROVE  handed'[j].tries >= handed[j].tries
  <2>1. handed' = Hand(r[1]) /\ Fetches(l, r)
    BY <1>1 DEF StartRun
  <2>2. /\ handed'[j].tries = IF j = r[1] THEN r[2] ELSE handed[j].tries
        /\ handed[r[1]].tries + 1 = r[2]
    BY <2>1, HandEffect
  <2>3. QED BY <1>0, <2>2
<1>2. ASSUME NEW l \in Loops, NEW r \in Runs, RunAtOnce(l, r)
      PROVE  handed'[j].tries >= handed[j].tries
  BY <1>0, <1>2, RunAtOnceHands
<1>3. ASSUME NEW l \in Loops, Finish(l)
      PROVE  handed'[j].tries >= handed[j].tries
  <2>1. loop[l].run \in Runs /\ EndRun(l, loop[l].run, AllResults(loop[l].run) /\ ~CleanUpRaises(loop[l].run))
    BY <1>3, ActiveRun DEF Finish
  <2>2. (AllResults(loop[l].run) /\ ~CleanUpRaises(loop[l].run)) \in BOOLEAN
    OBVIOUS
  <2>3. handed'[j].tries = handed[j].tries
    BY <2>1, <2>2, EndRunEffect
  <2>4. QED BY <1>0, <2>3
<1>4. CASE handed' = handed
  BY <1>0, <1>4
<1>5. handed' = handed \/ \E l \in Loops : Finish(l) \/ \E r \in Runs : StartRun(l, r) \/ RunAtOnce(l, r)
  BY DEF Next, vars, Collect, StartPhaseTwo, WakeFrame, ThreadOk, ThreadFails, ThreadFrame,
         StreamOver, StreamEnds, StreamBreaks, StreamStalls
<1>6. QED BY <1>1, <1>2, <1>3, <1>4, <1>5

LEMMA AttemptsInit == Init => Attempts
BY DEF Init, Attempts, NoRun

\* Nothing starts: runs and threads of an attempt not made yet stay away.
LEMMA NothingStarts ==
  ASSUME TypeOK, Attempts,
         \A j \in Jobs : handed'[j].tries >= handed[j].tries,
         \A j \in Jobs : handed'[j].tries \in Nat,
         \A l \in Loops : loop'[l].pc = "idle" <=> loop'[l].run = NoRun,
         \A l \in Loops : loop'[l].run # NoRun => loop'[l].run = loop[l].run,
         \A d \in Readers : thread'[d] # "off" =>
            thread[d] # "off" \/ \E l \in Loops : loop[l].run = d[1] /\ loop[l].run # NoRun
  PROVE  Attempts'
<1>1. ASSUME NEW l \in Loops, loop'[l].run # NoRun
      PROVE  loop'[l].run[2] <= handed'[loop'[l].run[1]].tries
  <2>1. loop[l].run \in Runs /\ loop'[l].run = loop[l].run
    BY <1>1 DEF TypeOK, LoopState
  <2>2. loop[l].run[1] \in Jobs /\ loop[l].run[2] \in Nat
    BY <2>1, RunParts
  <2>3. loop[l].run[2] <= handed[loop[l].run[1]].tries
    BY <1>1, <2>1 DEF Attempts
  <2>4. handed[loop[l].run[1]].tries \in Nat
    BY <2>2 DEF TypeOK
  <2>5. loop[l].run[2] <= handed'[loop[l].run[1]].tries
    BY <2>2, <2>3, <2>4
  <2>6. QED BY <2>1, <2>5
<1>2. ASSUME NEW d \in Readers, thread'[d] # "off"
      PROVE  d[1][2] <= handed'[d[1][1]].tries
  <2>1. d[1][1] \in Jobs /\ d[1][2] \in Nat
    BY ReaderParts, RunParts
  <2>2. d[1][2] <= handed[d[1][1]].tries
    BY <1>2 DEF Attempts
  <2>3. handed[d[1][1]].tries \in Nat
    BY <2>1 DEF TypeOK
  <2>4. QED BY <2>1, <2>2, <2>3
<1>3. \A l, m \in Loops : loop'[l].run = loop'[m].run /\ loop'[l].run # NoRun => l = m
  BY DEF Attempts
<1>4. QED BY <1>1, <1>2, <1>3 DEF Attempts

LEMMA AttemptsStep == TypeOK /\ Attempts /\ [Next]_vars => Attempts'
<1> SUFFICES ASSUME TypeOK, Attempts, [Next]_vars PROVE Attempts'
  OBVIOUS
<1>0. /\ \A j \in Jobs : handed'[j].tries >= handed[j].tries
      /\ \A j \in Jobs : handed'[j].tries \in Nat
  <2>1. TypeOK'
    BY TypeStep
  <2>2. QED BY <2>1, TriesGrow DEF TypeOK
<1>1. ASSUME NEW l \in Loops, NEW r \in Runs, StartRun(l, r) PROVE Attempts'
  <2>1. r[1] \in Jobs /\ r[2] \in 1 .. MaxTries /\ r # NoRun
    BY RunParts
  <2>2. handed' = Hand(r[1]) /\ Fetches(l, r)
    BY <1>1 DEF StartRun
  <2>3. /\ \A j \in Jobs : handed'[j].tries = IF j = r[1] THEN r[2] ELSE handed[j].tries
        /\ handed[r[1]].tries + 1 = r[2]
    BY <2>2, HandEffect
  <2>4. /\ loop'[l] = [pc |-> "phase1", run |-> r]
        /\ \A m \in Loops : m # l => loop'[m] = loop[m]
    BY <1>1 DEF StartRun, TypeOK
  <2>5. ASSUME NEW m \in Loops, loop[m].run # NoRun
        PROVE  /\ loop[m].run # r
               /\ loop[m].run[2] <= handed'[loop[m].run[1]].tries
    <3>1. loop[m].run \in Runs /\ loop[m].run[2] <= handed[loop[m].run[1]].tries
      BY <2>5 DEF Attempts, TypeOK, LoopState
    <3>2. loop[m].run[1] \in Jobs /\ loop[m].run[2] \in Nat
      BY <3>1, RunParts
    <3>3. handed[loop[m].run[1]].tries \in Nat /\ handed[r[1]].tries \in Nat
      BY <2>1, <3>2 DEF TypeOK
    <3>4. QED BY <1>0, <2>3, <3>1, <3>2, <3>3
  <2>6. ASSUME NEW d \in Readers, thread'[d] # "off"
        PROVE  d[1][2] <= handed'[d[1][1]].tries
    <3>1. d[1] = r \/ thread[d] # "off"
      BY <1>1, <2>6 DEF StartRun, Launch
    <3>2. d[1][1] \in Jobs /\ d[1][2] \in Nat
      BY ReaderParts, RunParts
    <3>3. CASE d[1] = r
      BY <2>1, <2>3, <3>3
    <3>4. CASE thread[d] # "off"
      <4>1. d[1][2] <= handed[d[1][1]].tries
        BY <3>4 DEF Attempts
      <4>2. QED BY <1>0, <3>2, <4>1 DEF TypeOK
    <3>5. QED BY <3>1, <3>3, <3>4
  <2>7. \A m \in Loops : loop'[m].pc = "idle" <=> loop'[m].run = NoRun
    BY <2>1, <2>4 DEF Attempts
  <2>8. \A m \in Loops : loop'[m].run # NoRun => loop'[m].run[2] <= handed'[loop'[m].run[1]].tries
    BY <2>1, <2>3, <2>4, <2>5
  <2>9. \A m, n \in Loops : loop'[m].run = loop'[n].run /\ loop'[m].run # NoRun => m = n
    BY <2>1, <2>4, <2>5 DEF Attempts
  <2>10. QED BY <2>6, <2>7, <2>8, <2>9 DEF Attempts
<1>2. ASSUME NEW l \in Loops, NEW r \in Runs, RunAtOnce(l, r) PROVE Attempts'
  <2>1. UNCHANGED <<loop, thread>>
    BY <1>2 DEF RunAtOnce
  <2>2. QED BY <1>0, <2>1, NothingStarts DEF Attempts
<1>3. ASSUME NEW l \in Loops, Collect(l) PROVE Attempts'
  <2>1. loop' = loop /\ thread' = Seen(loop[l].run)
    BY <1>3 DEF Collect
  <2>2. \A d \in Readers : thread'[d] # "off" => thread[d] # "off"
    BY <2>1 DEF Seen, Fresh, Of
  <2>3. QED BY <1>0, <2>1, <2>2, NothingStarts DEF Attempts
<1>4. ASSUME NEW l \in Loops, StartPhaseTwo(l) PROVE Attempts'
  <2> DEFINE r == loop[l].run
  <2>1. r \in Runs /\ r # NoRun /\ loop[l].pc = "phase1"
    BY <1>4, ActiveRun, RunParts DEF StartPhaseTwo, Wakes
  <2>2. /\ loop'[l].pc = "phase2" /\ loop'[l].run = r
        /\ \A m \in Loops : m # l => loop'[m] = loop[m]
    BY <1>4 DEF StartPhaseTwo, TypeOK, LoopState
  <2>3. \A d \in Readers : thread'[d] # "off" => thread[d] # "off" \/ d[1] = r
    BY <1>4 DEF StartPhaseTwo, Seen, Fresh, Of
  <2> HIDE DEF r
  <2>4. \A m \in Loops : loop'[m].run = loop[m].run
    BY <2>2 DEF r
  <2>5. \A m \in Loops : loop'[m].pc = "idle" <=> loop'[m].run = NoRun
    BY <2>1, <2>2 DEF Attempts
  <2>6. \A d \in Readers : thread'[d] # "off" =>
           thread[d] # "off" \/ \E m \in Loops : loop[m].run = d[1] /\ loop[m].run # NoRun
    BY <2>1, <2>3 DEF r
  <2>7. QED BY <1>0, <2>4, <2>5, <2>6, NothingStarts
<1>5. ASSUME NEW l \in Loops, Finish(l) PROVE Attempts'
  <2> DEFINE r == loop[l].run
             through == AllResults(r) /\ ~CleanUpRaises(r)
  <2>1. r \in Runs /\ r # NoRun /\ loop[l].pc # "idle"
    BY <1>5, ActiveRun, RunParts DEF Finish
  <2>2. EndRun(l, r, through) /\ through \in BOOLEAN
    BY <1>5 DEF Finish
  <2>3. \A d \in Readers : thread'[d] # "off" => thread[d] # "off"
    BY <1>5 DEF Finish
  <2> HIDE DEF r, through
  <2>4. /\ \/ loop'[l] = [pc |-> "idle", run |-> NoRun]
           \/ loop'[l] = [pc |-> "dead", run |-> r]
        /\ \A m \in Loops : m # l => loop'[m] = loop[m]
    BY <2>1, <2>2, EndRunEffect
  <2>5. \A m \in Loops : loop'[m].pc = "idle" <=> loop'[m].run = NoRun
    BY <2>1, <2>4 DEF Attempts
  <2>6. \A m \in Loops : loop'[m].run # NoRun => loop'[m].run = loop[m].run
    BY <2>4 DEF r
  <2>7. QED BY <1>0, <2>3, <2>5, <2>6, NothingStarts
<1>6. ASSUME NEW d \in Readers, ThreadOk(d) \/ ThreadFails(d) PROVE Attempts'
  <2>1. loop' = loop
    BY <1>6 DEF ThreadOk, ThreadFails, ThreadFrame
  <2>2. \A c \in Readers : thread'[c] # "off" => thread[c] # "off"
    BY <1>6 DEF ThreadOk, ThreadFails, TypeOK
  <2>3. QED BY <1>0, <2>1, <2>2, NothingStarts DEF Attempts
<1>7. ASSUME NEW k \in Keys, StreamOver(k) PROVE Attempts'
  <2>1. UNCHANGED <<loop, thread>>
    BY <1>7, StreamOverEffect DEF ThreadFrame
  <2>2. QED BY <1>0, <2>1, NothingStarts DEF Attempts
<1>8. CASE UNCHANGED vars
  BY <1>8 DEF vars, Attempts
<1>9. QED BY <1>1, <1>2, <1>3, <1>4, <1>5, <1>6, <1>7, <1>8 DEF Next

\* The variables of a worker keep their types, whatever its configuration, through every
\* order of fetching, ending, failing and breaking.
THEOREM WorkerTypeCorrect == Spec => []TypeOK
<1>1. Init => TypeOK /\ Attempts
  BY TypeInit, AttemptsInit
<1>2. TypeOK /\ Attempts /\ [Next]_vars => (TypeOK /\ Attempts)'
  BY TypeStep, AttemptsStep
<1>3. QED BY <1>1, <1>2, PTL DEF Spec

-----------------------------------------------------------------------------
(* Slots *)

\* Without a job handed out twice: each job being run has one loop and is not ready.
Slots ==
    "twice" \notin config.faults =>
        /\ SlotsTruthful
        /\ \A l \in Active : ~handed[loop[l].run[1]].ready
        /\ \A l, m \in Active : loop[l].run[1] = loop[m].run[1] => l = m

LEMMA SlotsInit == Init => Slots
<1> SUFFICES ASSUME Init PROVE Slots
  OBVIOUS
<1>1. Active = {}
  BY DEF Init, Active
<1>2. config.max \in Nat
  BY WorkerAssumption DEF Init
<1>3. Cardinality(Active) <= config.max
  BY <1>1, <1>2, FS_EmptySet
<1>4. QED BY <1>1, <1>3 DEF Init, Slots, SlotsTruthful

\* The loops that run, and their jobs, stay.
LEMMA SlotsKept ==
  ASSUME Slots, UNCHANGED <<config, running_jobs>>, Active' = Active,
         \A l \in Loops : loop'[l].run = loop[l].run /\ (loop'[l].pc = "dead" => loop[l].pc = "dead"),
         \A l \in Active : handed'[loop[l].run[1]] = handed[loop[l].run[1]]
  PROVE  Slots'
<1>1. \A l \in Active : l \in Loops
  BY DEF Active
<1>2. {loop'[l].run[1] : l \in Active'} = {loop[l].run[1] : l \in Active}
  BY <1>1
<1>3. QED BY <1>1, <1>2 DEF Slots, SlotsTruthful

\* There is room for one more when the jobs are fewer than the slots.
LEMMA RoomForOne ==
  ASSUME TypeOK, Slots, "twice" \notin config.faults, HasRoom, NEW l \in Loops
  PROVE  Cardinality(Active \union {l}) <= config.max
<1>1. IsFiniteSet(Active) /\ IsFiniteSet(running_jobs)
  <2>1. Active \in SUBSET Loops /\ running_jobs \in SUBSET Jobs
    BY DEF Active, TypeOK
  <2>2. QED BY <2>1, FS_Subset, WorkerAssumption
<1> DEFINE f == [m \in Active |-> loop[m].run[1]]
<1>2. f \in Injection(Active, running_jobs)
  <2>1. f \in [Active -> running_jobs]
    BY DEF Slots, SlotsTruthful
  <2>2. \A m, n \in Active : f[m] = f[n] => m = n
    BY DEF Slots
  <2> HIDE DEF f
  <2>3. QED BY <2>1, <2>2 DEF Injection, IsInjective
<1>3. Cardinality(Active) <= Cardinality(running_jobs)
  BY <1>1, <1>2, FS_Injection
<1>4. /\ Cardinality(Active) \in Nat /\ Cardinality(running_jobs) \in Nat
      /\ Cardinality(Active \union {l}) \in Nat
      /\ Cardinality(Active \union {l}) <= Cardinality(Active) + 1
  <2>1. Cardinality(Active) \in Nat /\ Cardinality(running_jobs) \in Nat
    BY <1>1, FS_CardinalityType
  <2>2. /\ IsFiniteSet(Active \union {l})
        /\ Cardinality(Active \union {l}) =
             IF l \in Active THEN Cardinality(Active) ELSE Cardinality(Active) + 1
    <3> HIDE DEF Active
    <3>1. QED BY <1>1, FS_AddElement
  <2>3. QED BY <2>1, <2>2
<1>5. config.max \in Nat
  BY WorkerAssumption DEF TypeOK
<1>6. QED BY <1>3, <1>4, <1>5 DEF HasRoom

LEMMA ReadyNotRunning ==
  ASSUME Slots, "twice" \notin config.faults, NEW l \in Loops, NEW r \in Runs, Fetches(l, r)
  PROVE  /\ r[1] \notin running_jobs
         /\ \A m \in Active : loop[m].run[1] # r[1]
BY DEF Slots, SlotsTruthful, Fetches, Hands

LEMMA EndRunHands ==
  ASSUME TypeOK, NEW l \in Loops, NEW r \in Runs, NEW through \in BOOLEAN, EndRun(l, r, through),
         NEW j \in Jobs, j # r[1]
  PROVE  handed'[j] = handed[j]
<1>1. CASE r[1] \in running_jobs
  <2>1. SendReport(r, through)
    BY <1>1 DEF EndRun
  <2>2. QED BY <2>1, SendReportType
<1>2. CASE r[1] \notin running_jobs
  BY <1>2 DEF EndRun
<1>3. QED BY <1>1, <1>2

LEMMA SlotsStep == TypeOK /\ Attempts /\ Slots /\ [Next]_vars => Slots'
<1> SUFFICES ASSUME TypeOK, Attempts, Slots, [Next]_vars PROVE Slots'
  OBVIOUS
<1>0. config' = config
  BY DEF Next, vars, StartRun, RunAtOnce, Collect, StartPhaseTwo, Finish, ThreadOk, ThreadFails,
         StreamOver, StreamEnds, StreamBreaks, StreamStalls, ThreadFrame, WakeFrame
<1>1. CASE "twice" \in config.faults
  BY <1>0, <1>1 DEF Slots
<1>2. CASE "twice" \notin config.faults
  <2>1. ASSUME NEW l \in Loops, NEW r \in Runs, StartRun(l, r) PROVE Slots'
    <3>1. Fetches(l, r) /\ r[1] \in Jobs /\ handed' = Hand(r[1])
      BY <2>1, RunParts DEF StartRun
    <3>2. r[1] \notin running_jobs /\ \A m \in Active : loop[m].run[1] # r[1]
      BY <1>2, <3>1, ReadyNotRunning
    <3>3. /\ loop'[l] = [pc |-> "phase1", run |-> r]
          /\ \A m \in Loops : m # l => loop'[m] = loop[m]
          /\ loop[l].pc = "idle"
      BY <2>1 DEF StartRun, Fetches, TypeOK
    <3>4. Active' = Active \union {l} /\ l \notin Active /\ Active \subseteq Loops
      BY <3>3 DEF Active
    <3>5. Cardinality(Active') <= config.max
      BY <1>2, <3>1, <3>4, RoomForOne DEF Fetches
    <3>6. handed'[r[1]].ready = FALSE /\ \A j \in Jobs : j # r[1] => handed'[j] = handed[j]
      BY <3>1, HandEffect
    <3>7. \A m \in Active : loop'[m] = loop[m] /\ loop[m].run[1] \in Jobs
      BY <1>2, <3>3, <3>4 DEF Slots, SlotsTruthful, TypeOK
    <3>8. \A m \in Active' : ~handed'[loop'[m].run[1]].ready
      BY <1>2, <3>2, <3>3, <3>4, <3>6, <3>7 DEF Slots
    <3>9. \A m, n \in Active' : loop'[m].run[1] = loop'[n].run[1] => m = n
      BY <1>2, <3>2, <3>3, <3>4, <3>7 DEF Slots
    <3>10. running_jobs' = {loop'[m].run[1] : m \in Active'}
      <4>1. running_jobs' = running_jobs \union {r[1]}
        BY <2>1 DEF StartRun
      <4>2. running_jobs = {loop[m].run[1] : m \in Active}
        BY <1>2 DEF Slots, SlotsTruthful
      <4>3. {loop'[m].run[1] : m \in Active'} = {loop[m].run[1] : m \in Active} \union {r[1]}
        BY <3>3, <3>4, <3>7
      <4>4. QED BY <4>1, <4>2, <4>3
    <3>11. \A m \in Loops : loop'[m].pc # "dead"
      BY <1>2, <3>3 DEF Slots, SlotsTruthful
    <3>12. QED BY <1>0, <3>5, <3>8, <3>9, <3>10, <3>11 DEF Slots, SlotsTruthful
  <2>2. ASSUME NEW l \in Loops, NEW r \in Runs, RunAtOnce(l, r) PROVE Slots'
    <3>1. Fetches(l, r) /\ loop' = loop /\ running_jobs' = running_jobs \ {r[1]}
      BY <2>2 DEF RunAtOnce
    <3>2. r[1] \notin running_jobs /\ \A m \in Active : loop[m].run[1] # r[1]
      BY <1>2, <3>1, ReadyNotRunning
    <3>3. \A j \in Jobs : j # r[1] => handed'[j] = handed[j]
      BY <2>2, RunAtOnceHands
    <3>4. \A m \in Active : loop[m].run[1] \in Jobs
      BY <1>2 DEF Slots, SlotsTruthful, TypeOK
    <3>5. Active' = Active /\ running_jobs' = running_jobs
      BY <3>1, <3>2 DEF Active
    <3>6. QED BY <1>0, <3>1, <3>2, <3>3, <3>4, <3>5, SlotsKept
  <2>3. ASSUME NEW l \in Loops, StartPhaseTwo(l) PROVE Slots'
    <3>1. /\ loop[l].pc = "phase1" /\ loop'[l].pc = "phase2" /\ loop'[l].run = loop[l].run
          /\ \A m \in Loops : m # l => loop'[m] = loop[m]
      BY <2>3 DEF StartPhaseTwo, Wakes, TypeOK, LoopState
    <3>2. Active' = Active
      BY <3>1 DEF Active
    <3>3. UNCHANGED <<running_jobs, handed>>
      BY <2>3 DEF StartPhaseTwo, WakeFrame
    <3>4. \A m \in Loops : loop'[m].run = loop[m].run /\ (loop'[m].pc = "dead" => loop[m].pc = "dead")
      BY <3>1
    <3>5. QED BY <1>0, <3>2, <3>3, <3>4, SlotsKept
  <2>4. ASSUME NEW l \in Loops, Finish(l) PROVE Slots'
    <3>0. PICK r \in Runs, through \in BOOLEAN : r = loop[l].run /\ EndRun(l, r, through)
      <4>1. loop[l].run \in Runs
        BY <2>4, ActiveRun DEF Finish
      <4>2. QED BY <2>4, <4>1 DEF Finish
    <3>1. l \in Active /\ r[1] \in running_jobs
      BY <1>2, <2>4, <3>0 DEF Finish, Active, Slots, SlotsTruthful
    <3>4. /\ loop'[l] = [pc |-> "idle", run |-> NoRun]
          /\ running_jobs' = running_jobs \ {r[1]}
          /\ \A m \in Loops : m # l => loop'[m] = loop[m]
          /\ \A j \in Jobs : j # r[1] => handed'[j] = handed[j]
      <4>1. EndRun(l, r, through)
        BY <3>0
      <4>2. ASSUME NEW m \in Loops, m # l PROVE loop'[m] = loop[m]
        BY <4>1, <4>2, EndRunEffect
      <4>3. ASSUME NEW j \in Jobs, j # r[1] PROVE handed'[j] = handed[j]
        BY <4>1, <4>3, EndRunHands
      <4>4. loop'[l] = [pc |-> "idle", run |-> NoRun]
        BY <3>1, <4>1, EndRunEffect
      <4>5. running_jobs' = running_jobs \ {r[1]}
        BY <3>1, <4>1, EndRunEffect
      <4>6. QED BY <4>2, <4>3, <4>4, <4>5
    <3>5. Active' = Active \ {l} /\ Active \in SUBSET Loops
      BY <3>4 DEF Active
    <3>6. \A m \in Active' : /\ loop'[m] = loop[m] /\ loop[m].run[1] \in Jobs
                             /\ loop[m].run[1] # r[1]
      BY <1>2, <3>0, <3>1, <3>4, <3>5 DEF Slots, SlotsTruthful, TypeOK
    <3>7. Cardinality(Active') <= config.max
      <4>1. IsFiniteSet(Active)
        BY <3>5, FS_Subset, WorkerAssumption
      <4>2. Cardinality(Active') <= Cardinality(Active)
        BY <3>5, <4>1, FS_Subset
      <4>3. Cardinality(Active) \in Nat /\ Cardinality(Active') \in Nat /\ config.max \in Nat
        BY <3>5, <4>1, FS_Subset, FS_CardinalityType, WorkerAssumption DEF TypeOK
      <4>4. Cardinality(Active) <= config.max
        BY <1>2 DEF Slots, SlotsTruthful
      <4>5. QED BY <4>2, <4>3, <4>4
    <3>8. running_jobs' = {loop'[m].run[1] : m \in Active'}
      <4>1. running_jobs = {loop[m].run[1] : m \in Active}
        BY <1>2 DEF Slots, SlotsTruthful
      <4>2. {loop'[m].run[1] : m \in Active'} = {loop[m].run[1] : m \in Active} \ {r[1]}
        BY <3>0, <3>5, <3>6
      <4>3. QED BY <3>4, <4>1, <4>2
    <3>9. \A m \in Loops : loop'[m].pc # "dead"
      BY <1>2, <3>4 DEF Slots, SlotsTruthful
    <3>10. \A m \in Active' : ~handed'[loop'[m].run[1]].ready
      BY <1>2, <3>4, <3>5, <3>6 DEF Slots
    <3>11. \A m, n \in Active' : loop'[m].run[1] = loop'[n].run[1] => m = n
      BY <1>2, <3>5, <3>6 DEF Slots
    <3>12. QED BY <1>0, <3>7, <3>8, <3>9, <3>10, <3>11 DEF Slots, SlotsTruthful
  <2>5. CASE UNCHANGED <<loop, handed, running_jobs>>
    <3>1. Active' = Active
      BY <2>5 DEF Active
    <3>2. QED BY <1>0, <2>5, <3>1, SlotsKept
  <2>6. \/ UNCHANGED <<loop, handed, running_jobs>>
        \/ \E l \in Loops : StartPhaseTwo(l) \/ Finish(l) \/ \E r \in Runs : StartRun(l, r) \/ RunAtOnce(l, r)
    BY DEF Next, vars, Collect, WakeFrame, ThreadOk, ThreadFails, ThreadFrame, StreamOver,
         StreamEnds, StreamBreaks, StreamStalls
  <2>7. QED BY <2>1, <2>2, <2>3, <2>4, <2>5, <2>6
<1>3. QED BY <1>1, <1>2

\* For any number of loops and slots: the jobs counted are the jobs being run, never more
\* than MAX_RUNNING_JOBS, and no loop dies of a job that is not counted any more, as long
\* as no job is handed out while it runs.
THEOREM SlotsAreTruthful == Spec => []SlotsTruthful
<1>1. Init => TypeOK /\ Attempts /\ Slots
  BY TypeInit, AttemptsInit, SlotsInit
<1>2. TypeOK /\ Attempts /\ Slots /\ [Next]_vars => (TypeOK /\ Attempts /\ Slots)'
  BY TypeStep, AttemptsStep, SlotsStep
<1>3. Slots => SlotsTruthful
  BY DEF Slots, SlotsTruthful
<1>4. QED BY <1>1, <1>2, <1>3, PTL DEF Spec

-----------------------------------------------------------------------------
(* Contexts: a context is found under the task of its run *)

Contexts ==
    /\ \A k \in Keys : container[k] # NoRun => Task(container[k]) = k
    /\ ContextMatchesRun

LEMMA ContextsInit == Init => Contexts
BY DEF Init, Contexts, ContextMatchesRun, Active

LEMMA ConfigKept == [Next]_vars => config' = config
BY DEF Next, vars, StartRun, RunAtOnce, Collect, StartPhaseTwo, Finish, ThreadOk, ThreadFails,
       StreamOver, StreamEnds, StreamBreaks, StreamStalls, ThreadFrame, WakeFrame

\* A run that starts shares its task with no run going on.
LEMMA OwnTask ==
  ASSUME TypeOK, Slots, Exclusive, NEW l \in Loops, NEW r \in Runs, Fetches(l, r)
  PROVE  \A m \in Active : Task(loop[m].run) # Task(r)
<1>1. \A m \in Active : loop[m].run[1] # r[1]
  BY ReadyNotRunning DEF Exclusive
<1>2. \A m \in Active : loop[m].run[1] \in Jobs
  BY DEF Slots, SlotsTruthful, Exclusive, TypeOK
<1>3. r[1] \in Jobs
  BY RunParts
<1>4. QED BY <1>1, <1>2, <1>3 DEF Exclusive, Task

\* The contexts, and whose they are, stay.
LEMMA ContextsKept ==
  ASSUME Contexts, UNCHANGED <<config, container>>, Active' \subseteq Active,
         \A l \in Loops : loop'[l].run = loop[l].run
  PROVE  Contexts'
<1>1. \A l \in Active' : l \in Active /\ l \in Loops
  BY DEF Active
<1>2. QED BY <1>1 DEF Contexts, ContextMatchesRun, Exclusive, Task

LEMMA ContextsStep == TypeOK /\ Attempts /\ Slots /\ Contexts /\ [Next]_vars => Contexts'
<1> SUFFICES ASSUME TypeOK, Attempts, Slots, Contexts, [Next]_vars PROVE Contexts'
  OBVIOUS
<1>0. config' = config
  BY ConfigKept
<1>1. ASSUME NEW l \in Loops, NEW r \in Runs, StartRun(l, r) PROVE Contexts'
  <2>1. Fetches(l, r) /\ Task(r) \in Keys /\ r # NoRun
    BY <1>1, RunParts DEF StartRun
  <2>2. /\ container'[Task(r)] = r
        /\ \A k \in Keys : k # Task(r) => container'[k] = container[k]
    BY <1>1, <2>1 DEF StartRun, TypeOK
  <2>3. /\ loop'[l].run = r
        /\ loop[l].run = NoRun
        /\ \A m \in Loops : m # l => loop'[m] = loop[m]
    BY <1>1 DEF StartRun, Fetches, TypeOK, Attempts
  <2>4. \A m \in Active' : m \in Loops /\ (m # l => m \in Active)
    BY <2>3 DEF Active
  <2>5. \A k \in Keys : container'[k] # NoRun => \E m \in Loops : loop'[m].run = container'[k]
    BY <2>1, <2>2, <2>3 DEF Contexts, ContextMatchesRun
  <2>6. \A k \in Keys : container'[k] # NoRun => Task(container'[k]) = k
    BY <2>1, <2>2 DEF Contexts
  <2>7. ASSUME Exclusive, NEW m \in Active' PROVE container'[Task(loop'[m].run)] = loop'[m].run
    <3>1. CASE m = l
      BY <2>2, <2>3, <3>1
    <3>2. CASE m # l
      <4>1. m \in Active /\ loop'[m] = loop[m]
        BY <2>3, <2>4, <3>2
      <4>2. Task(loop[m].run) # Task(r)
        BY <2>1, <2>7, <4>1, OwnTask
      <4>3. Task(loop[m].run) \in Keys
        BY <4>1, ActiveRun, RunParts DEF Active
      <4>4. container[Task(loop[m].run)] = loop[m].run
        BY <2>7, <4>1 DEF Contexts, ContextMatchesRun
      <4>5. QED BY <2>2, <4>1, <4>2, <4>3, <4>4
    <3>3. QED BY <3>1, <3>2
  <2>8. QED BY <1>0, <2>5, <2>6, <2>7 DEF Contexts, ContextMatchesRun, Exclusive, Task
<1>2. ASSUME NEW l \in Loops, NEW r \in Runs, RunAtOnce(l, r) PROVE Contexts'
  <2>1. Fetches(l, r) /\ Task(r) \in Keys /\ loop' = loop
    BY <1>2, RunParts DEF RunAtOnce
  <2>2. /\ container'[Task(r)] = NoRun
        /\ \A k \in Keys : k # Task(r) => container'[k] = container[k]
    BY <1>2, <2>1 DEF RunAtOnce, Cleanup, TypeOK
  <2>3. Active' = Active
    BY <2>1 DEF Active
  <2>4. ASSUME Exclusive, NEW m \in Active PROVE container'[Task(loop[m].run)] = loop[m].run
    <3>1. Task(loop[m].run) # Task(r)
      BY <2>1, <2>4, OwnTask
    <3>2. Task(loop[m].run) \in Keys
      BY <2>4, ActiveRun, RunParts DEF Active
    <3>3. container[Task(loop[m].run)] = loop[m].run
      BY <2>4 DEF Contexts, ContextMatchesRun
    <3>4. QED BY <2>2, <3>1, <3>2, <3>3
  <2>5. \A k \in Keys : container'[k] # NoRun =>
          Task(container'[k]) = k /\ \E m \in Loops : loop'[m].run = container'[k]
    BY <2>1, <2>2 DEF Contexts, ContextMatchesRun
  <2>6. QED BY <1>0, <2>1, <2>3, <2>4, <2>5 DEF Contexts, ContextMatchesRun, Exclusive, Task
<1>3. ASSUME NEW l \in Loops, StartPhaseTwo(l) PROVE Contexts'
  <2>1. /\ loop[l].pc = "phase1" /\ loop'[l].run = loop[l].run
        /\ \A m \in Loops : m # l => loop'[m] = loop[m]
    BY <1>3 DEF StartPhaseTwo, Wakes, TypeOK, LoopState
  <2>2. Active' \subseteq Active /\ \A m \in Loops : loop'[m].run = loop[m].run
    BY <2>1 DEF Active
  <2>3. container' = container
    BY <1>3 DEF StartPhaseTwo, WakeFrame
  <2>4. QED BY <1>0, <2>2, <2>3, ContextsKept
<1>4. ASSUME NEW l \in Loops, Finish(l) PROVE Contexts'
  <2>1. PICK r \in Runs, through \in BOOLEAN : r = loop[l].run /\ EndRun(l, r, through)
    <3>1. loop[l].run \in Runs
      BY <1>4, ActiveRun DEF Finish
    <3>2. QED BY <1>4, <3>1 DEF Finish
  <2>2. EndRun(l, r, through) /\ l \in Active /\ Task(r) \in Keys /\ r # NoRun
    BY <1>4, <2>1, RunParts DEF Finish, Active
  <2>3. ASSUME NEW m \in Loops, m # l PROVE loop'[m] = loop[m]
    BY <2>2, <2>3, EndRunEffect
  <2>4. CASE r[1] \notin running_jobs
    <3>1. loop'[l] = [pc |-> "dead", run |-> r] /\ container' = container
      BY <2>2, <2>4, EndRunEffect
    <3>2. Active' \subseteq Active /\ \A m \in Loops : loop'[m].run = loop[m].run
      BY <2>1, <2>3, <3>1 DEF Active
    <3>3. QED BY <1>0, <3>1, <3>2, ContextsKept
  <2>5. CASE r[1] \in running_jobs
    <3>1. loop'[l] = [pc |-> "idle", run |-> NoRun] /\ Cleanup(r)
      BY <2>2, <2>5, EndRunEffect
    <3>2. /\ container'[Task(r)] = NoRun
          /\ \A k \in Keys : k # Task(r) => container'[k] = container[k]
      BY <2>2, <3>1 DEF Cleanup, TypeOK
    <3>3. Active' = Active \ {l}
      BY <2>3, <3>1 DEF Active
    <3>4. ASSUME NEW k \in Keys, container'[k] # NoRun
          PROVE  Task(container'[k]) = k /\ \E m \in Loops : loop'[m].run = container'[k]
      <4>1. container'[k] = container[k] /\ k # Task(r) /\ Task(container[k]) = k
        BY <3>2, <3>4 DEF Contexts
      <4>2. PICK m \in Loops : loop[m].run = container[k]
        BY <3>4, <4>1 DEF Contexts, ContextMatchesRun
      <4>3. m # l
        BY <2>1, <4>1, <4>2
      <4>4. QED BY <2>3, <4>1, <4>2, <4>3
    <3>5. ASSUME Exclusive, NEW m \in Active' PROVE container'[Task(loop'[m].run)] = loop'[m].run
      <4>1. m \in Active /\ m # l /\ m \in Loops /\ loop'[m] = loop[m]
        BY <2>3, <3>3, <3>5 DEF Active
      <4>2. loop[m].run[1] # r[1] /\ loop[m].run[1] \in Jobs /\ r[1] \in Jobs
        BY <2>1, <2>2, <3>5, <4>1 DEF Slots, SlotsTruthful, Exclusive, TypeOK
      <4>3. Task(loop[m].run) # Task(r)
        BY <3>5, <4>2 DEF Exclusive, Task
      <4>4. Task(loop[m].run) \in Keys
        BY <4>1, ActiveRun, RunParts DEF Active
      <4>5. container[Task(loop[m].run)] = loop[m].run
        BY <3>5, <4>1 DEF Contexts, ContextMatchesRun
      <4>6. QED BY <3>2, <4>1, <4>3, <4>4, <4>5
    <3>6. QED BY <1>0, <3>4, <3>5 DEF Contexts, ContextMatchesRun, Exclusive, Task
  <2>6. QED BY <2>4, <2>5
<1>5. CASE UNCHANGED <<loop, container>>
  <2>1. Active' = Active
    BY <1>5 DEF Active
  <2>2. QED BY <1>0, <1>5, <2>1, ContextsKept
<1>6. \/ UNCHANGED <<loop, container>>
      \/ \E l \in Loops : StartPhaseTwo(l) \/ Finish(l) \/ \E r \in Runs : StartRun(l, r) \/ RunAtOnce(l, r)
  BY DEF Next, vars, Collect, WakeFrame, ThreadOk, ThreadFails, ThreadFrame, StreamOver,
         StreamEnds, StreamBreaks, StreamStalls
<1>7. QED BY <1>1, <1>2, <1>3, <1>4, <1>5, <1>6

\* Whatever tasks and jobs there are: no context outlives the run it belongs to, and a run
\* whose task is its own keeps its context until it ends.
THEOREM ContextsMatch == Spec => []ContextMatchesRun
<1>1. Init => TypeOK /\ Attempts /\ Slots /\ Contexts
  BY TypeInit, AttemptsInit, SlotsInit, ContextsInit
<1>2. TypeOK /\ Attempts /\ Slots /\ Contexts /\ [Next]_vars => (TypeOK /\ Attempts /\ Slots /\ Contexts)'
  BY TypeStep, AttemptsStep, SlotsStep, ContextsStep
<1>3. Contexts => ContextMatchesRun
  BY DEF Contexts
<1>4. QED BY <1>1, <1>2, <1>3, PTL DEF Spec

-----------------------------------------------------------------------------
(* Channels: who could close them *)

\* Nothing opens, and no stream loses a channel.
LEMMA ReachKept ==
  ASSUME OpenChannelsReachable, UNCHANGED config,
         \A d \in Readers : channel'[d] = "open" => channel[d] = "open",
         \A d \in Readers : StreamAt(Task(d[1]))' = StreamAt(Task(d[1]))
  PROVE  OpenChannelsReachable'
BY DEF OpenChannelsReachable

\* The stream at k goes, and the channels it had are marked.
LEMMA ReachClosed ==
  ASSUME TypeOK, OpenChannelsReachable, UNCHANGED config, NEW k \in Keys,
         \A d \in Readers : channel'[d] = "open" =>
            channel[d] = "open" /\ d \notin StreamAt(k).message_channels,
         \A i \in Keys : i # k => StreamAt(i)' = StreamAt(i)
  PROVE  OpenChannelsReachable'
<1> SUFFICES ASSUME NEW d \in Readers, channel'[d] = "open"
             PROVE  d \in StreamAt(Task(d[1]))'.message_channels
  BY DEF OpenChannelsReachable, Task
<1>1. channel[d] = "open" /\ d \notin StreamAt(k).message_channels
  OBVIOUS
<1>2. d \in StreamAt(Task(d[1])).message_channels
  BY <1>1 DEF OpenChannelsReachable
<1>3. Task(d[1]) \in Keys /\ Task(d[1])' = Task(d[1])
  BY ReaderParts, RunParts DEF Task
<1>4. Task(d[1]) # k
  BY <1>1, <1>2
<1>5. StreamAt(Task(d[1]))' = StreamAt(Task(d[1]))
  BY <1>3, <1>4 DEF StreamAt
<1>6. QED BY <1>2, <1>5

\* Cleaning up after r takes the stream that stands under its job's number.
LEMMA CleanupClosed ==
  ASSUME TypeOK, NEW r \in Runs, Cleanup(r)
  PROVE  /\ r[1] \in Keys
         /\ StoppedReaders(r) = StreamAt(r[1]).message_channels
         /\ \A i \in Keys : i # r[1] => StreamAt(i)' = StreamAt(i)
<1>1. r[1] \in Keys /\ r # NoRun
  BY RunParts
<1>2. \A i \in Keys : i # r[1] => streams'[i] = streams[i]
  BY <1>1 DEF Cleanup, TypeOK
<1>3. QED BY <1>1, <1>2 DEF StoppedReaders, StreamAt

LEMMA ReachStart ==
  ASSUME TypeOK, OpenChannelsReachable, NEW l \in Loops, NEW r \in Runs, StartRun(l, r)
  PROVE  OpenChannelsReachable'
<1>1. PICK lost \in BuildOutcomes(r) :
        LET served == {r} \X (NeedsFrames \ lost)
        IN  /\ streams' = IF served = {} THEN streams
                          ELSE [streams EXCEPT ![Task(r)] = <<Started(StreamAt(Task(r)), served)>>]
            /\ channel' = [d \in Readers |-> IF d \in served THEN "open" ELSE channel[d]]
  BY DEF StartRun
<1> DEFINE served == {r} \X (NeedsFrames \ lost)
           s == Started(StreamAt(Task(r)), served)
<1>2. served \in SUBSET Readers /\ \A d \in served : d[1] = r
  BY NeedsType DEF Readers
<1>3. \A d \in Readers : channel'[d] = IF d \in served THEN "open" ELSE channel[d]
  BY <1>1
<1>4. config' = config
  BY DEF StartRun
<1>5. streams' = IF served = {} THEN streams ELSE [streams EXCEPT ![Task(r)] = <<s>>]
  BY <1>1
<1>6. Task(r) \in Keys
  BY RunParts
<1>7. s \in Stream /\ s.message_channels = StreamAt(Task(r)).message_channels \union served
  BY <1>2, <1>6, StreamAtType, StartedType
<1> HIDE DEF served, s
<1>8. CASE served = {}
  <2>1. streams' = streams /\ channel' = channel
    BY <1>3, <1>5, <1>8, <1>1 DEF TypeOK, served
  <2>2. QED BY <1>4, <2>1, ReachKept DEF StreamAt, Task
<1>9. CASE served # {}
  <2>1. streams' = [streams EXCEPT ![Task(r)] = <<s>>]
    BY <1>5, <1>9
  <2>2. StreamAt(Task(r))' = s
    BY <1>6, <1>7, <2>1, StreamSet, <1>4 DEF Task
  <2>3. \A i \in Keys : i # Task(r) => StreamAt(i)' = StreamAt(i)
    BY <1>6, <1>7, <2>1, StreamSet
  <2>4. ASSUME NEW d \in Readers, channel'[d] = "open"
        PROVE  d \in StreamAt(Task(d[1]))'.message_channels
    <3>1. Task(d[1]) \in Keys /\ Task(d[1])' = Task(d[1])
      BY <1>4, ReaderParts, RunParts DEF Task
    <3>2. d \in served \/ d \in StreamAt(Task(d[1])).message_channels
      BY <1>3, <2>4 DEF OpenChannelsReachable
    <3>3. CASE Task(d[1]) = Task(r)
      <4>1. StreamAt(Task(d[1]))' = s
        BY <1>4, <2>2, <3>3 DEF StreamAt, Task
      <4>2. d \in s.message_channels
        BY <1>7, <3>2, <3>3
      <4>3. QED BY <4>1, <4>2
    <3>4. CASE Task(d[1]) # Task(r)
      <4>1. d \notin served
        BY <1>2, <3>4
      <4>2. StreamAt(Task(d[1]))' = StreamAt(Task(d[1]))
        BY <2>3, <3>1, <3>4 DEF StreamAt
      <4>3. QED BY <3>2, <4>1, <4>2
    <3>5. QED BY <3>3, <3>4
  <2>5. QED BY <2>4 DEF OpenChannelsReachable
<1>10. QED BY <1>8, <1>9

LEMMA ReachStep == TypeOK /\ Attempts /\ OpenChannelsReachable /\ [Next]_vars => OpenChannelsReachable'
<1> SUFFICES ASSUME TypeOK, Attempts, OpenChannelsReachable, [Next]_vars PROVE OpenChannelsReachable'
  OBVIOUS
<1>0. config' = config
  BY ConfigKept
<1>1. ASSUME NEW l \in Loops, NEW r \in Runs, StartRun(l, r) PROVE OpenChannelsReachable'
  BY <1>1, ReachStart
<1>2. ASSUME NEW l \in Loops, NEW r \in Runs, RunAtOnce(l, r) PROVE OpenChannelsReachable'
  <2>1. Cleanup(r) /\ channel' = Closed({}, r)
    BY <1>2 DEF RunAtOnce
  <2>2. \A d \in Readers : channel'[d] = "open" => channel[d] = "open" /\ d \notin StoppedReaders(r)
    BY <2>1 DEF Closed
  <2>3. QED BY <1>0, <2>1, <2>2, CleanupClosed, ReachClosed
<1>3. ASSUME NEW l \in Loops, Collect(l) \/ StartPhaseTwo(l) PROVE OpenChannelsReachable'
  <2>1. streams' = streams /\ channel' = Closed(Fresh(loop[l].run), NoRun)
    BY <1>3 DEF Collect, StartPhaseTwo, WakeFrame
  <2>2. \A d \in Readers : channel'[d] = "open" => channel[d] = "open"
    BY <2>1 DEF Closed
  <2>3. QED BY <1>0, <2>1, <2>2, ReachKept DEF StreamAt, Task
<1>4. ASSUME NEW l \in Loops, Finish(l) PROVE OpenChannelsReachable'
  <2>1. PICK r \in Runs, through \in BOOLEAN : r = loop[l].run /\ EndRun(l, r, through)
    <3>1. loop[l].run \in Runs
      BY <1>4, ActiveRun DEF Finish
    <3>2. QED BY <1>4, <3>1 DEF Finish
  <2>2. channel' = [d \in Readers |->
                      IF d[1] = r /\ thread[d] # "run" THEN "none"
                      ELSE Closed({}, IF r[1] \in running_jobs THEN r ELSE NoRun)[d]]
    BY <1>4, <2>1 DEF Finish
  <2>3. CASE r[1] \in running_jobs
    <3>1. Cleanup(r)
      BY <2>1, <2>3 DEF EndRun
    <3>2. \A d \in Readers : channel'[d] = "open" => channel[d] = "open" /\ d \notin StoppedReaders(r)
      BY <2>2, <2>3 DEF Closed
    <3>3. QED BY <1>0, <3>1, <3>2, CleanupClosed, ReachClosed
  <2>4. CASE r[1] \notin running_jobs
    <3>1. streams' = streams
      BY <2>1, <2>4 DEF EndRun
    <3>2. \A d \in Readers : channel'[d] = "open" => channel[d] = "open"
      BY <2>2, <2>4 DEF Closed
    <3>3. QED BY <1>0, <3>1, <3>2, ReachKept DEF StreamAt, Task
  <2>5. QED BY <2>3, <2>4
<1>5. ASSUME NEW k \in Keys, StreamEnds(k) \/ StreamBreaks(k) PROVE OpenChannelsReachable'
  <2>1. channel' = CloseOf(StreamAt(k))
    BY <1>5 DEF StreamEnds, StreamBreaks
  <2>2. \A d \in Readers : channel'[d] = "open" =>
          channel[d] = "open" /\ d \notin StreamAt(k).message_channels
    BY <2>1 DEF CloseOf
  <2>3. \A i \in Keys : i # k => StreamAt(i)' = StreamAt(i)
    BY <1>5, StreamClosed
  <2>4. QED BY <1>0, <2>2, <2>3, ReachClosed
<1>6. CASE UNCHANGED <<streams, channel>>
  BY <1>0, <1>6, ReachKept DEF StreamAt, Task
<1>7. ASSUME NEW k \in Keys, StreamStalls(k) PROVE OpenChannelsReachable'
  <2>1. UNCHANGED channel
    BY <1>7 DEF StreamStalls
  <2>2. \A d \in Readers : Task(d[1])' = Task(d[1]) /\ Task(d[1]) \in Keys
    BY <1>0, ReaderParts, RunParts DEF Task
  <2>3. QED BY <1>7, <2>1, <2>2, StreamStalled DEF OpenChannelsReachable
<1>8. \/ UNCHANGED <<streams, channel>>
      \/ \E k \in Keys : StreamEnds(k) \/ StreamBreaks(k) \/ StreamStalls(k)
      \/ \E l \in Loops : \/ Collect(l) \/ StartPhaseTwo(l) \/ Finish(l)
                          \/ \E r \in Runs : StartRun(l, r) \/ RunAtOnce(l, r)
  BY DEF Next, StreamOver, vars, ThreadOk, ThreadFails
<1>9. QED BY <1>1, <1>2, <1>3, <1>4, <1>5, <1>6, <1>7, <1>8

\* Streams are looked up by the job when they are cleaned up, and by the task otherwise:
\* even so no channel is left open that its task's stream does not know.
THEOREM ChannelsStayReachable == Spec => []OpenChannelsReachable
<1>1. Init => TypeOK /\ Attempts /\ OpenChannelsReachable
  <2>1. Init => OpenChannelsReachable
    BY DEF Init, OpenChannelsReachable
  <2>2. QED BY <2>1, TypeInit, AttemptsInit
<1>2. TypeOK /\ Attempts /\ OpenChannelsReachable /\ [Next]_vars => (TypeOK /\ Attempts /\ OpenChannelsReachable)'
  BY TypeStep, AttemptsStep, ReachStep
<1>3. QED BY <1>1, <1>2, PTL DEF Spec

-----------------------------------------------------------------------------
(* Threads: which a run has, and that it waits for them *)

Launched(l) == IF loop[l].pc = "phase1" THEN NeedsFrames ELSE ModulesOf

Threads ==
    /\ \A l \in Active, m \in Modules : thread[<<loop[l].run, m>>] # "off" <=> m \in Launched(l)
    /\ \A d \in Readers : thread[d] # "off" => d[2] \in ModulesOf
    /\ \A d \in Readers :
         thread[d] # "off" /\ channel[d] = "none" /\ d[2] \in PhaseOne => "source" \in config.faults
    /\ ReportComplete
    /\ ThreadsWaitedFor

LEMMA ThreadsInit == Init => Threads
BY DEF Init, Threads, Active, ReportComplete, ThreadsWaitedFor

\* No thread starts or is left behind, no channel goes.
LEMMA ThreadsKept ==
  ASSUME TypeOK, Attempts, Threads, UNCHANGED <<config, loop>>,
         \A d \in Readers : /\ thread'[d] = "off" <=> thread[d] = "off"
                            /\ thread'[d] = "run" => thread[d] = "run"
                            /\ channel'[d] = "none" => channel[d] = "none",
         reported'.through => reported'.results = ModulesOf
  PROVE  Threads'
<1>1. /\ Active' = Active /\ ModulesOf' = ModulesOf
      /\ \A l \in Loops : Launched(l)' = Launched(l) /\ loop'[l] = loop[l]
  BY DEF Active, ModulesOf, need_speech_detection, NeedsFrames, Launched
<1>2. ASSUME NEW l \in Active, NEW m \in Modules
      PROVE  thread'[<<loop'[l].run, m>>] # "off" <=> m \in Launched(l)'
  <2>1. l \in Loops /\ <<loop[l].run, m>> \in Readers
    BY ActiveRun DEF Active, Readers
  <2>2. QED BY <1>1, <2>1 DEF Threads
<1>3. QED BY <1>1, <1>2 DEF Threads, ReportComplete, ThreadsWaitedFor

\* An attempt has no threads, and no loop, before it is fetched.
LEMMA Unused ==
  ASSUME TypeOK, Attempts, NEW l \in Loops, NEW r \in Runs, Fetches(l, r)
  PROVE  /\ \A m \in Modules : thread[<<r, m>>] = "off"
         /\ \A k \in Loops : loop[k].run # r
<1>0. r[1] \in Jobs /\ r[2] \in Nat /\ r # NoRun
  BY RunParts
<1>1. handed[r[1]].tries + 1 = r[2] /\ handed[r[1]].tries \in Nat
  <2>1. handed[r[1]].tries \in Nat
    BY <1>0 DEF TypeOK
  <2>2. QED BY <2>1 DEF Fetches
<1>2. ASSUME NEW m \in Modules, thread[<<r, m>>] # "off" PROVE FALSE
  <2>1. <<r, m>> \in Readers
    BY DEF Readers
  <2>2. r[2] <= handed[r[1]].tries
    BY <1>2, <2>1 DEF Attempts
  <2>3. QED BY <1>0, <1>1, <2>2
<1>3. ASSUME NEW k \in Loops, loop[k].run = r PROVE FALSE
  <2>1. r[2] <= handed[r[1]].tries
    BY <1>0, <1>3 DEF Attempts
  <2>2. QED BY <1>0, <1>1, <2>1
<1>4. QED BY <1>2, <1>3

LEMMA SameModules ==
  ASSUME UNCHANGED config
  PROVE  ModulesOf' = ModulesOf /\ NeedsFrames' = NeedsFrames
BY DEF ModulesOf, need_speech_detection, NeedsFrames

LEMMA ThreadsStart ==
  ASSUME TypeOK, Attempts, Threads, NEW l \in Loops, NEW r \in Runs, StartRun(l, r)
  PROVE  Threads'
<1>1. UNCHANGED <<config, reported>> /\ Fetches(l, r)
  BY DEF StartRun
<1>2. ModulesOf' = ModulesOf /\ NeedsFrames' = NeedsFrames /\ NeedsFrames \subseteq ModulesOf
  BY <1>1, SameModules DEF NeedsFrames
<1>3. \A d \in Readers :
        thread'[d] = IF d[1] = r /\ d[2] \in NeedsFrames THEN "run" ELSE thread[d]
  BY DEF StartRun, Launch
<1>4. /\ loop'[l] = [pc |-> "phase1", run |-> r]
      /\ \A m \in Loops : m # l => loop'[m] = loop[m]
      /\ loop[l].pc = "idle"
  BY <1>1 DEF StartRun, Fetches, TypeOK
<1>5. l \in Active' /\ \A m \in Loops : m # l => (m \in Active' <=> m \in Active)
  BY <1>4 DEF Active
<1>6. /\ \A m \in Modules : thread[<<r, m>>] = "off"
      /\ \A k \in Loops : loop[k].run # r
  BY <1>1, Unused
<1>7. ASSUME NEW k \in Active', NEW m \in Modules
      PROVE  thread'[<<loop'[k].run, m>>] # "off" <=> m \in Launched(k)'
  <2>1. CASE k = l
    <3>1. <<r, m>> \in Readers /\ Launched(l)' = NeedsFrames
      BY <1>2, <1>4 DEF Readers, Launched
    <3>2. thread'[<<r, m>>] = IF m \in NeedsFrames THEN "run" ELSE "off"
      BY <1>3, <1>6, <3>1
    <3>3. QED BY <1>4, <2>1, <3>1, <3>2
  <2>2. CASE k # l
    <3>1. k \in Loops /\ k \in Active /\ loop'[k] = loop[k]
      BY <1>4, <1>5, <2>2 DEF Active
    <3>2. <<loop[k].run, m>> \in Readers /\ loop[k].run # r
      BY <1>6, <3>1, ActiveRun DEF Active, Readers
    <3>3. thread'[<<loop[k].run, m>>] = thread[<<loop[k].run, m>>]
      BY <1>3, <3>2
    <3>4. Launched(k)' = Launched(k)
      BY <1>2, <3>1 DEF Launched
    <3>5. QED BY <3>1, <3>3, <3>4 DEF Threads
  <2>3. QED BY <2>1, <2>2
<1>8. \A d \in Readers : thread'[d] # "off" => d[2] \in ModulesOf
  BY <1>2, <1>3 DEF Threads
<1>9. ASSUME NEW d \in Readers, thread'[d] # "off", channel'[d] = "none", d[2] \in PhaseOne
      PROVE  "source" \in config.faults
  <2>1. PICK lost \in BuildOutcomes(r) :
          LET served == {r} \X (NeedsFrames \ lost)
          IN  channel' = [e \in Readers |-> IF e \in served THEN "open" ELSE channel[e]]
    BY DEF StartRun
  <2>2. d \notin {r} \X (NeedsFrames \ lost) /\ channel[d] = "none"
    BY <1>9, <2>1
  <2>3. CASE d[1] = r /\ d[2] \in NeedsFrames
    <3>1. d[2] \in lost
      BY <2>2, <2>3, ReaderParts
    <3>2. QED BY <3>1 DEF BuildOutcomes
  <2>4. CASE ~(d[1] = r /\ d[2] \in NeedsFrames)
    BY <1>3, <1>9, <2>2, <2>4 DEF Threads
  <2>5. QED BY <2>3, <2>4
<1>10. ASSUME NEW d \in Readers, thread'[d] = "run", \A k \in Active' : loop'[k].run # d[1]
       PROVE  "source" \in config.faults /\ "subtitle" \in ModulesOf
  <2>1. d[1] # r
    BY <1>4, <1>5, <1>10
  <2>2. thread[d] = "run"
    BY <1>3, <1>10, <2>1
  <2>3. \A k \in Active : k \in Active' /\ loop'[k] = loop[k]
    BY <1>4, <1>5 DEF Active
  <2>4. \A k \in Active : loop[k].run # d[1]
    BY <1>10, <2>3
  <2>5. QED BY <2>2, <2>4 DEF Threads, ThreadsWaitedFor
<1>11. ReportComplete'
  BY <1>1, <1>2 DEF Threads, ReportComplete
<1>12. QED BY <1>1, <1>2, <1>7, <1>8, <1>9, <1>10, <1>11 DEF Threads, ThreadsWaitedFor

LEMMA ThreadsPhaseTwo ==
  ASSUME TypeOK, Attempts, Threads, NEW l \in Loops, StartPhaseTwo(l)
  PROVE  Threads'
<1>0. PICK r \in Runs : r = loop[l].run
  BY ActiveRun DEF StartPhaseTwo, Wakes
<1>1. UNCHANGED <<config, reported>>
  BY DEF StartPhaseTwo, WakeFrame
<1>2. ModulesOf' = ModulesOf /\ NeedsFrames' = NeedsFrames /\ ModulesOf \subseteq Modules
  BY <1>1, SameModules, ModulesType
<1>3. /\ loop[l].pc = "phase1" /\ loop'[l].pc = "phase2" /\ loop'[l].run = r
      /\ \A m \in Loops : m # l => loop'[m] = loop[m]
  BY <1>0 DEF StartPhaseTwo, Wakes, TypeOK, LoopState
<1>4. Active' = Active /\ l \in Active /\ \A m \in Loops : loop'[m].run = loop[m].run
  BY <1>0, <1>3 DEF Active
<1>5. \A d \in Readers :
        /\ thread'[d] = "off" <=> thread[d] = "off" /\ ~(d[1] = r /\ d[2] \in ModulesOf \intersect PhaseTwo)
        /\ thread'[d] = "run" => thread[d] = "run" \/ d[1] = r
  BY <1>0 DEF StartPhaseTwo, Seen, Fresh, Of
<1>6. \A d \in Readers : channel'[d] = "none" => channel[d] = "none"
  BY DEF StartPhaseTwo, Closed
<1>7. ASSUME NEW k \in Active', NEW m \in Modules
      PROVE  thread'[<<loop'[k].run, m>>] # "off" <=> m \in Launched(k)'
  <2>1. k \in Active /\ k \in Loops /\ <<loop[k].run, m>> \in Readers /\ loop'[k].run = loop[k].run
    BY <1>4, ActiveRun DEF Active, Readers
  <2>2. thread[<<loop[k].run, m>>] # "off" <=> m \in Launched(k)
    BY <2>1 DEF Threads
  <2>3. CASE k = l
    <3>1. Launched(k) = NeedsFrames /\ Launched(k)' = ModulesOf
      BY <1>2, <1>3, <2>3 DEF Launched
    <3>2. m \in ModulesOf <=> m \in NeedsFrames \/ m \in ModulesOf \intersect PhaseTwo
      BY <1>2 DEF Modules, NeedsFrames
    <3>3. QED BY <1>0, <1>5, <2>1, <2>2, <2>3, <3>1, <3>2
  <2>4. CASE k # l
    <3>1. loop[k].run # r
      BY <1>0, <2>1, <2>4, RunParts DEF Attempts
    <3>2. Launched(k)' = Launched(k)
      BY <1>2, <1>3, <2>1, <2>4 DEF Launched
    <3>3. QED BY <1>5, <2>1, <2>2, <3>1, <3>2
  <2>5. QED BY <2>3, <2>4
<1>8. \A d \in Readers : thread'[d] # "off" => d[2] \in ModulesOf
  BY <1>5 DEF Threads
<1>9. ASSUME NEW d \in Readers, thread'[d] # "off", channel'[d] = "none", d[2] \in PhaseOne
      PROVE  "source" \in config.faults
  <2>1. d[2] \notin PhaseTwo
    BY <1>9 DEF PhaseOne, PhaseTwo
  <2>2. thread[d] # "off" /\ channel[d] = "none"
    BY <1>5, <1>6, <1>9, <2>1
  <2>3. QED BY <1>9, <2>2 DEF Threads
<1>10. ASSUME NEW d \in Readers, thread'[d] = "run", \A k \in Active' : loop'[k].run # d[1]
       PROVE  "source" \in config.faults /\ "subtitle" \in ModulesOf
  <2>1. \A k \in Active : k \in Loops /\ loop[k].run # d[1]
    BY <1>4, <1>10 DEF Active
  <2>2. thread[d] = "run"
    BY <1>0, <1>4, <1>5, <1>10, <2>1
  <2>3. QED BY <2>1, <2>2 DEF Threads, ThreadsWaitedFor
<1>11. ReportComplete'
  BY <1>1, <1>2 DEF Threads, ReportComplete
<1>12. QED BY <1>1, <1>2, <1>7, <1>8, <1>9, <1>10, <1>11 DEF Threads, ThreadsWaitedFor

LEMMA ThreadsFinish ==
  ASSUME TypeOK, Attempts, Threads, NEW l \in Loops, Finish(l)
  PROVE  Threads'
<1>0. PICK r \in Runs : r = loop[l].run
  BY ActiveRun DEF Finish
<1> DEFINE through == AllResults(r) /\ ~CleanUpRaises(r)
           q == IF r[1] \in running_jobs THEN r ELSE NoRun
<1>1. config' = config
  BY DEF Finish
<1>2. ModulesOf' = ModulesOf /\ NeedsFrames' = NeedsFrames /\ ModulesOf \subseteq Modules
  BY <1>1, SameModules, ModulesType
<1>3. EndRun(l, r, through) /\ through \in BOOLEAN /\ MayLeave(l, r) /\ l \in Active
  BY <1>0 DEF Finish, Active
<1>4. \A d \in Readers :
        thread'[d] = IF d[1] = r /\ thread[d] # "run" THEN "off" ELSE thread[d]
  BY <1>0 DEF Finish
<1>5. ASSUME NEW d \in Readers, thread'[d] # "off", channel'[d] = "none" PROVE channel[d] = "none"
  <2>1. channel'[d] = IF d[1] = r /\ thread[d] # "run" THEN "none" ELSE Closed({}, q)[d]
    BY <1>0 DEF Finish
  <2>2. Closed({}, q)[d] = "none"
    BY <1>4, <1>5, <2>1
  <2> HIDE DEF q
  <2>3. QED BY <2>2 DEF Closed
<1> HIDE DEF through, q
<1>6. ASSUME NEW m \in Loops, m # l PROVE loop'[m] = loop[m]
  BY <1>3, <1>6, EndRunEffect
<1>7. loop'[l].pc \in {"idle", "dead"}
  <2>1. \/ loop'[l] = [pc |-> "idle", run |-> NoRun]
        \/ loop'[l] = [pc |-> "dead", run |-> r]
    BY <1>3, EndRunEffect
  <2>2. QED BY <2>1
<1>8. Active' = Active \ {l}
  BY <1>6, <1>7 DEF Active
<1>9. \A k \in Active' : k \in Active /\ k \in Loops /\ k # l /\ loop'[k] = loop[k] /\ loop[k].run # r
  <2>1. \A k \in Active' : k \in Active /\ k \in Loops /\ k # l
    BY <1>8 DEF Active
  <2>2. \A k \in Active' : loop[k].run # r
    BY <1>0, <2>1, RunParts DEF Attempts
  <2>3. QED BY <1>6, <2>1, <2>2
<1>10. ASSUME NEW k \in Active', NEW m \in Modules
       PROVE  thread'[<<loop'[k].run, m>>] # "off" <=> m \in Launched(k)'
  <2>1. <<loop[k].run, m>> \in Readers
    BY <1>9, ActiveRun DEF Active, Readers
  <2>2. thread'[<<loop[k].run, m>>] = thread[<<loop[k].run, m>>]
    BY <1>4, <1>9, <2>1
  <2>3. Launched(k)' = Launched(k)
    BY <1>2, <1>9 DEF Launched
  <2>4. QED BY <1>9, <2>2, <2>3 DEF Threads
<1>11. \A d \in Readers : thread'[d] # "off" => thread[d] # "off" /\ d[2] \in ModulesOf
  BY <1>4 DEF Threads
<1>12. \A d \in Readers : thread'[d] # "off" /\ channel'[d] = "none" /\ d[2] \in PhaseOne
         => "source" \in config.faults
  BY <1>5, <1>11 DEF Threads
<1>13. ASSUME NEW d \in Readers, thread'[d] = "run", \A k \in Active' : loop'[k].run # d[1]
       PROVE  "source" \in config.faults /\ "subtitle" \in ModulesOf
  <2>1. thread[d] = "run"
    BY <1>4, <1>13
  <2>2. CASE d[1] = r
    <3>1. d \in Of(r, {"run"})
      BY <2>1, <2>2 DEF Of
    <3>2. CleanUpRaises(r)
      BY <1>3, <3>1 DEF MayLeave
    <3>3. PICK e \in Readers : thread[e] \in {"ok", "none"} /\ e[2] = "subtitle" /\ channel[e] = "none"
      BY <3>2 DEF CleanUpRaises, Fresh, Of
    <3>4. QED BY <3>3 DEF Threads, PhaseOne
  <2>3. CASE d[1] # r
    <3>1. \A k \in Active : loop[k].run # d[1]
      <4>1. \A k \in Active : k # l => k \in Active' /\ loop'[k] = loop[k]
        BY <1>8, <1>9
      <4>2. QED BY <1>0, <1>13, <2>3, <4>1
    <3>2. QED BY <2>1, <3>1 DEF Threads, ThreadsWaitedFor
  <2>4. QED BY <2>2, <2>3
<1>14. ASSUME reported'.through PROVE reported'.results = ModulesOf
  <2>1. CASE r[1] \notin running_jobs
    <3>1. reported' = reported
      BY <1>3, <2>1 DEF EndRun
    <3>2. QED BY <1>14, <3>1 DEF Threads, ReportComplete
  <2>2. CASE r[1] \in running_jobs
    <3>1. SendReport(r, through)
      BY <1>3, <2>2 DEF EndRun
    <3>2. /\ reported'.through = through
          /\ reported'.results = {m \in Modules : thread[<<r, m>>] \in {"ok", "seenok"}}
      BY <1>3, <3>1, SendReportType
    <3>3. AllResults(r) /\ ~CleanUpRaises(r)
      BY <1>14, <3>2 DEF through
    <3>4. /\ Of(r, {"run"}) = {} /\ Of(r, {"none", "seennone"}) = {}
          /\ loop[l].pc = "phase2" \/ ModulesOf \intersect PhaseTwo = {}
      BY <1>3, <3>3 DEF MayLeave, AllResults
    <3>5. Launched(l) = ModulesOf
      BY <1>2, <3>4 DEF Launched, NeedsFrames, Modules
    <3>6. ASSUME NEW m \in Modules
          PROVE  thread[<<r, m>>] \in {"ok", "seenok"} <=> m \in ModulesOf
      <4>1. <<r, m>> \in Readers
        BY DEF Readers
      <4>2. thread[<<r, m>>] \in {"off", "run", "ok", "none", "seenok", "seennone"}
        BY <4>1 DEF TypeOK
      <4>3. thread[<<r, m>>] \notin {"run", "none", "seennone"}
        BY <3>4, <4>1 DEF Of
      <4>4. thread[<<r, m>>] # "off" <=> m \in ModulesOf
        BY <1>0, <1>3, <3>5 DEF Threads
      <4>5. QED BY <4>2, <4>3, <4>4
    <3>7. QED BY <1>2, <3>2, <3>6
  <2>3. QED BY <2>1, <2>2
<1>15. QED BY <1>1, <1>2, <1>10, <1>11, <1>12, <1>13, <1>14 DEF Threads, ReportComplete, ThreadsWaitedFor

LEMMA ThreadsStep == TypeOK /\ Attempts /\ Threads /\ [Next]_vars => Threads'
<1> SUFFICES ASSUME TypeOK, Attempts, Threads, [Next]_vars PROVE Threads'
  OBVIOUS
<1>0. config' = config
  BY ConfigKept
<1>1. ASSUME NEW l \in Loops, NEW r \in Runs, StartRun(l, r) PROVE Threads'
  BY <1>1, ThreadsStart
<1>2. ASSUME NEW l \in Loops, NEW r \in Runs, RunAtOnce(l, r) PROVE Threads'
  <2>1. UNCHANGED <<loop, thread>> /\ channel' = Closed({}, r)
    BY <1>2 DEF RunAtOnce
  <2>2. reported'.through => reported'.results = ModulesOf
    BY <1>2 DEF RunAtOnce
  <2>3. \A d \in Readers : channel'[d] = "none" => channel[d] = "none"
    BY <2>1 DEF Closed
  <2>4. QED BY <1>0, <2>1, <2>2, <2>3, ThreadsKept
<1>3. ASSUME NEW l \in Loops, Collect(l) PROVE Threads'
  <2>1. UNCHANGED <<loop, reported>>
    BY <1>3 DEF Collect, WakeFrame
  <2>2. \A d \in Readers : /\ thread'[d] = "off" <=> thread[d] = "off"
                           /\ thread'[d] = "run" => thread[d] = "run"
                           /\ channel'[d] = "none" => channel[d] = "none"
    BY <1>3 DEF Collect, Seen, Fresh, Of, Closed
  <2>3. QED BY <1>0, <2>1, <2>2, ThreadsKept DEF Threads, ReportComplete
<1>4. ASSUME NEW l \in Loops, StartPhaseTwo(l) PROVE Threads'
  BY <1>4, ThreadsPhaseTwo
<1>5. ASSUME NEW l \in Loops, Finish(l) PROVE Threads'
  BY <1>5, ThreadsFinish
<1>6. ASSUME NEW d \in Readers, ThreadOk(d) \/ ThreadFails(d) PROVE Threads'
  <2>1. UNCHANGED <<loop, reported, channel>>
    BY <1>6 DEF ThreadOk, ThreadFails, ThreadFrame
  <2>2. \A e \in Readers : /\ thread'[e] = "off" <=> thread[e] = "off"
                           /\ thread'[e] = "run" => thread[e] = "run"
    BY <1>6 DEF ThreadOk, ThreadFails, TypeOK
  <2>3. QED BY <1>0, <2>1, <2>2, ThreadsKept DEF Threads, ReportComplete
<1>7. ASSUME NEW k \in Keys, StreamOver(k) PROVE Threads'
  <2>1. UNCHANGED <<loop, reported, thread>> /\ channel' \in {CloseOf(StreamAt(k)), channel}
    BY <1>7, StreamOverEffect DEF ThreadFrame
  <2>2. \A d \in Readers : channel'[d] = "none" => channel[d] = "none"
    BY <2>1 DEF CloseOf
  <2>3. QED BY <1>0, <2>1, <2>2, ThreadsKept DEF Threads, ReportComplete
<1>8. CASE UNCHANGED vars
  BY <1>8, ThreadsKept DEF vars, Threads, ReportComplete
<1>9. QED BY <1>1, <1>2, <1>3, <1>4, <1>5, <1>6, <1>7, <1>8 DEF Next

LEMMA ThreadsAlways == Spec => []Threads
<1>1. Init => TypeOK /\ Attempts /\ Threads
  BY TypeInit, AttemptsInit, ThreadsInit
<1>2. TypeOK /\ Attempts /\ Threads /\ [Next]_vars => (TypeOK /\ Attempts /\ Threads)'
  BY TypeStep, AttemptsStep, ThreadsStep
<1>3. QED BY <1>1, <1>2, PTL DEF Spec

\* Whatever a task consists of and whatever fails: a report is only made of the results of
\* all the modules its task needs.
THEOREM ReportsAreComplete == Spec => []ReportComplete
<1>1. Threads => ReportComplete
  BY DEF Threads
<1>2. QED BY <1>1, ThreadsAlways, PTL

\* No run ends before its threads, except where a subtitle matching got no stream.
THEOREM ThreadsAreWaitedFor == Spec => []ThreadsWaitedFor
<1>1. Threads => ThreadsWaitedFor
  BY DEF Threads
<1>2. QED BY <1>1, ThreadsAlways, PTL
=============================================================================
