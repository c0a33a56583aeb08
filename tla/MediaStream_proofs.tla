-------------------------- MODULE MediaStream_proofs --------------------------
(***************************************************************************)
(* Theorems about MediaStream, for any number of channels, any media and   *)
(* any sizes of the ring and of the queues.                                *)
(***************************************************************************)
EXTENDS MediaStream, Selection_proofs

-----------------------------------------------------------------------------
(* Shapes: which fields the channels and their readers have *)

ChannelShape(c) ==
    ch[c] = [queue |-> ch[c].queue, mark_closed |-> ch[c].mark_closed, closed |-> ch[c].closed]

Shape ==
    /\ channels \subseteq Channels /\ config.subtitle \subseteq Channels
    /\ ch = [c \in Channels |-> ch[c]] /\ \A c \in Channels : ChannelShape(c)
    /\ con = [c \in Channels |-> con[c]]
    /\ \A c \in Channels : con[c] = [pc |-> con[c].pc, got |-> con[c].got]

Inv == Shape /\ MarkedMeansOver

LEMMA InitInv == Init => Inv
BY LimitAssumption DEF Init, Inv, Shape, ChannelShape, MarkedMeansOver

-----------------------------------------------------------------------------
(* What a step does to registrations, marks and readers *)

\* Why channel c may be marked although it is registered.
MayBeMarked(c) ==
    \/ \A d \in Siblings(c) : con[d].pc \in ConEnd
    \/ c \in config.subtitle /\ \E d \in config.subtitle : con[d].pc = "failed"

\* No end of a reader and no failure is undone: what might be marked, may be.
LEMMA MayStill ==
  ASSUME Shape, config' = config, NEW c \in Channels, MayBeMarked(c),
         \A d \in Channels : /\ con[d].pc \in ConEnd => con'[d].pc \in ConEnd
                             /\ con[d].pc = "failed" => con'[d].pc = "failed"
  PROVE  MayBeMarked(c)'
<1>1. Siblings(c)' = Siblings(c) /\ Siblings(c) \subseteq Channels /\ config.subtitle \subseteq Channels
  BY DEF Siblings, Shape
<1>2. QED BY <1>1 DEF MayBeMarked

\* The marks and the registered channels stay.
LEMMA MarksKept ==
  ASSUME Inv, channels' = channels, config' = config, Shape',
         \A c \in Channels : /\ ch'[c].mark_closed <=> ch[c].mark_closed
                             /\ con[c].pc \in ConEnd => con'[c].pc \in ConEnd
                             /\ con[c].pc = "failed" => con'[c].pc = "failed"
  PROVE  Inv'
<1>1. ASSUME NEW c \in Channels, c \in channels, ch[c].mark_closed PROVE MayBeMarked(c)'
  BY <1>1, MayStill DEF Inv, MarkedMeansOver, MayBeMarked
<1>2. QED BY <1>1 DEF Inv, MarkedMeansOver, MayBeMarked

LEMMA MarkEffect ==
  ASSUME Shape, NEW C \in SUBSET Channels, ch' = MarkClosed(C)
  PROVE  /\ ch' = [c \in Channels |-> ch'[c]] /\ \A c \in Channels : ChannelShape(c)'
         /\ \A c \in Channels : /\ ch'[c].mark_closed <=> ch[c].mark_closed \/ c \in C
                                /\ ch'[c].queue = ch[c].queue
<1>1. ch' = [c \in Channels |-> ch'[c]]
  BY DEF MarkClosed
<1>2. ASSUME NEW c \in Channels
      PROVE  /\ ChannelShape(c)' /\ (ch'[c].mark_closed <=> ch[c].mark_closed \/ c \in C)
             /\ ch'[c].queue = ch[c].queue
  <2> DEFINE mark == ch[c].mark_closed \/ c \in C
  <2>1. ch'[c] = [ch[c] EXCEPT !.mark_closed = mark]
    BY DEF MarkClosed
  <2>2. mark \in BOOLEAN /\ (mark <=> ch[c].mark_closed \/ c \in C)
    OBVIOUS
  <2> HIDE DEF mark
  <2>3. ch'[c] = [queue |-> ch[c].queue, mark_closed |-> mark, closed |-> ch[c].closed]
    BY <2>1 DEF Shape, ChannelShape
  <2>4. ch'[c].mark_closed = mark /\ ch'[c].queue = ch[c].queue /\ ch'[c].closed = ch[c].closed
    BY <2>3
  <2>5. ChannelShape(c)'
    BY <2>3, <2>4 DEF ChannelShape
  <2>6. QED BY <2>2, <2>4, <2>5
<1>3. QED BY <1>1, <1>2

\* Channels are removed: they are marked.
\* The same when one channel is marked.
LEMMA MarkOne ==
  ASSUME Shape, NEW c \in Channels, ch' = MarkClosed({c})
  PROVE  /\ ch' = [d \in Channels |-> ch'[d]] /\ \A d \in Channels : ChannelShape(d)'
         /\ \A d \in Channels : ch'[d].mark_closed <=> ch[d].mark_closed \/ d = c
<1>1. {c} \in SUBSET Channels /\ \A d : d \in {c} <=> d = c
  OBVIOUS
<1> DEFINE C == {c}
<1>2. C \in SUBSET Channels /\ ch' = MarkClosed(C) /\ \A d : d \in C <=> d = c
  BY <1>1
<1> HIDE DEF C
<1>3. /\ ch' = [d \in Channels |-> ch'[d]] /\ \A d \in Channels : ChannelShape(d)'
      /\ \A d \in Channels : /\ ch'[d].mark_closed <=> ch[d].mark_closed \/ d \in C
                             /\ ch'[d].queue = ch[d].queue
  BY <1>2, MarkEffect
<1>4. QED BY <1>2, <1>3

LEMMA Removed ==
  ASSUME Inv, NEW C \in SUBSET Channels, RemoveChannels(C), UNCHANGED <<config, con>>
  PROVE  Inv'
<1>1. /\ ch' = [c \in Channels |-> ch'[c]] /\ \A c \in Channels : ChannelShape(c)'
      /\ \A c \in Channels : ch'[c].mark_closed <=> ch[c].mark_closed \/ c \in C
  BY MarkEffect DEF Inv, RemoveChannels
<1>2. channels' = channels \ C
  BY DEF RemoveChannels
<1>3. ASSUME NEW c \in Channels, MayBeMarked(c) PROVE MayBeMarked(c)'
  BY <1>3, MayStill DEF Inv
<1>4. Shape'
  BY <1>1, <1>2 DEF Inv, Shape
<1>5. QED BY <1>1, <1>2, <1>3, <1>4 DEF Inv, MarkedMeansOver, MayBeMarked

LEMMA Stopped ==
  ASSUME Inv, StopAll, UNCHANGED <<config, con>>
  PROVE  Inv'
BY Removed DEF StopAll, Inv, Shape

\* One reader or its queue moves: no mark, and no end, is undone.
LEMMA ReaderMoves ==
  ASSUME Inv, NEW c \in Channels, UNCHANGED <<channels, config>>,
         NEW q, NEW closed, NEW pc, NEW got, con[c].pc \notin ConEnd,
         ch' = [ch EXCEPT ![c] = [queue |-> q, mark_closed |-> ch[c].mark_closed, closed |-> closed]],
         con' = [con EXCEPT ![c] = [pc |-> pc, got |-> got]]
  PROVE  Inv'
<1>1. /\ ch'[c] = [queue |-> q, mark_closed |-> ch[c].mark_closed, closed |-> closed]
      /\ con'[c] = [pc |-> pc, got |-> got]
      /\ \A d \in Channels : d # c => ch'[d] = ch[d] /\ con'[d] = con[d]
  BY DEF Inv, Shape
<1>2. ch' = [d \in Channels |-> ch'[d]] /\ con' = [d \in Channels |-> con'[d]]
  BY DEF Inv, Shape
<1>3. Shape'
  BY <1>1, <1>2 DEF Inv, Shape, ChannelShape
<1>4. con[c].pc # "failed"
  BY DEF ConEnd
<1>5. QED BY <1>1, <1>3, <1>4, MarksKept

LEMMA Fields ==
  ASSUME Shape, NEW c \in Channels, NEW v
  PROVE  /\ [con EXCEPT ![c].pc = v] = [con EXCEPT ![c] = [pc |-> v, got |-> con[c].got]]
         /\ [ch EXCEPT ![c].closed = v]
              = [ch EXCEPT ![c] = [queue |-> ch[c].queue, mark_closed |-> ch[c].mark_closed, closed |-> v]]
         /\ [ch EXCEPT ![c].queue = v]
              = [ch EXCEPT ![c] = [queue |-> v, mark_closed |-> ch[c].mark_closed, closed |-> ch[c].closed]]
         /\ ch = [ch EXCEPT ![c] = [queue |-> ch[c].queue, mark_closed |-> ch[c].mark_closed,
                                    closed |-> ch[c].closed]]
<1>1. con[c] = [pc |-> con[c].pc, got |-> con[c].got] /\ ChannelShape(c)
  BY DEF Shape
<1>2. [con[c] EXCEPT !.pc = v] = [pc |-> v, got |-> con[c].got]
  BY <1>1
<1>3. /\ [ch[c] EXCEPT !.closed = v]
           = [queue |-> ch[c].queue, mark_closed |-> ch[c].mark_closed, closed |-> v]
      /\ [ch[c] EXCEPT !.queue = v]
           = [queue |-> v, mark_closed |-> ch[c].mark_closed, closed |-> ch[c].closed]
  BY <1>1 DEF ChannelShape
<1>4. ch = [ch EXCEPT ![c] = ch[c]]
  BY DEF Shape
<1>5. ch = [ch EXCEPT ![c] = [queue |-> ch[c].queue, mark_closed |-> ch[c].mark_closed,
                              closed |-> ch[c].closed]]
  BY <1>1, <1>4 DEF ChannelShape
<1>6. QED BY <1>2, <1>3, <1>5

LEMMA ReaderStep ==
  ASSUME Inv, NEW c \in Channels,
         TestMark(c) \/ Get(c) \/ GetTimeout(c) \/ Process(c) \/ Leave(c) \/ Fail(c)
  PROVE  Inv'
<1>1. UNCHANGED <<channels, config>> /\ con[c].pc \notin ConEnd
  BY DEF TestMark, Get, GetTimeout, Process, Leave, Fail, ConFrame, ConEnd
<1>2. ASSUME NEW p, ConGoto(c, p), UNCHANGED ch PROVE Inv'
  <2>1. con' = [con EXCEPT ![c] = [pc |-> p, got |-> con[c].got]]
    BY <1>2, Fields DEF ConGoto, Inv
  <2>2. ch' = [ch EXCEPT ![c] = [queue |-> ch[c].queue, mark_closed |-> ch[c].mark_closed,
                                 closed |-> ch[c].closed]]
    BY <1>2, Fields DEF Inv
  <2>3. QED BY <1>1, <2>1, <2>2, ReaderMoves
<1>3. ASSUME NEW p, ConGoto(c, p), ch' = [ch EXCEPT ![c].closed = TRUE] PROVE Inv'
  <2>1. con' = [con EXCEPT ![c] = [pc |-> p, got |-> con[c].got]]
    BY <1>3, Fields DEF ConGoto, Inv
  <2>2. ch' = [ch EXCEPT ![c] = [queue |-> ch[c].queue, mark_closed |-> ch[c].mark_closed,
                                 closed |-> TRUE]]
    BY <1>3, Fields DEF Inv
  <2>3. QED BY <1>1, <2>1, <2>2, ReaderMoves
<1>4. CASE Get(c)
  <2>1. con' = [con EXCEPT ![c] = [pc |-> "busy", got |-> Append(con[c].got, Head(ch[c].queue))]]
    BY <1>4 DEF Get, Inv, Shape
  <2>2. ch' = [ch EXCEPT ![c].queue = Tail(ch[c].queue)]
    BY <1>4 DEF Get
  <2>3. ch' = [ch EXCEPT ![c] = [queue |-> Tail(ch[c].queue), mark_closed |-> ch[c].mark_closed,
                                 closed |-> ch[c].closed]]
    BY <2>2, Fields DEF Inv
  <2>4. QED BY <1>1, <2>1, <2>3, ReaderMoves
<1>5. CASE TestMark(c) \/ GetTimeout(c) \/ Process(c) \/ Leave(c) \/ Fail(c)
  BY <1>2, <1>3, <1>5 DEF TestMark, GetTimeout, Process, Leave, Fail
<1>6. QED BY <1>4, <1>5

\* A subtitle configuration that has failed marks the channel of one of them.
LEMMA SiblingStep ==
  ASSUME Inv, NEW c \in Channels, MarkSiblings(c)
  PROVE  Inv'
<1>1. PICK d \in config.subtitle : ch' = MarkClosed({d})
  BY DEF MarkSiblings
<1>2. /\ UNCHANGED <<channels, config, con>>
      /\ con[c].pc = "failed" /\ c \in config.subtitle /\ d \in Channels
  BY DEF MarkSiblings, ConFrame, Inv, Shape
<1>3. /\ ch' = [e \in Channels |-> ch'[e]] /\ \A e \in Channels : ChannelShape(e)'
      /\ \A e \in Channels : ch'[e].mark_closed <=> ch[e].mark_closed \/ e = d
  BY <1>1, <1>2, MarkOne DEF Inv
<1>4. Shape'
  BY <1>2, <1>3 DEF Inv, Shape
<1>5. MayBeMarked(d)
  BY <1>1, <1>2 DEF MayBeMarked
<1>6. ASSUME NEW e \in Channels, MayBeMarked(e) PROVE MayBeMarked(e)'
  BY <1>2, <1>6, MayStill DEF Inv
<1>7. ASSUME NEW e \in Channels
      PROVE  IF e \in channels' THEN ch'[e].mark_closed => MayBeMarked(e)' ELSE ch'[e].mark_closed
  BY <1>2, <1>3, <1>5, <1>6 DEF Inv, MarkedMeansOver, MayBeMarked
<1>8. QED BY <1>4, <1>7 DEF Inv, MarkedMeansOver, MayBeMarked

\* All readers of the module have gone for good when the job runner marks a channel of it.
LEMMA CleanUpStep ==
  ASSUME Inv, NEW c \in Channels, CleanUp(c)
  PROVE  Inv'
<1>1. /\ UNCHANGED <<channels, config>> /\ ch' = MarkClosed({c}) /\ ConGoto(c, "cleaned")
      /\ con[c].pc \in ConEnd
      /\ c \in config.subtitle => \A d \in config.subtitle : con[d].pc \in ConEnd
  BY DEF CleanUp, ConFrame, ConEnd
<1>2. /\ ch' = [d \in Channels |-> ch'[d]] /\ \A d \in Channels : ChannelShape(d)'
      /\ \A d \in Channels : ch'[d].mark_closed <=> ch[d].mark_closed \/ d = c
  BY <1>1, MarkOne DEF Inv
<1>3. con' = [con EXCEPT ![c] = [pc |-> "cleaned", got |-> con[c].got]]
  BY <1>1, Fields DEF ConGoto, Inv
<1>4. /\ con'[c] = [pc |-> "cleaned", got |-> con[c].got]
      /\ \A d \in Channels : d # c => con'[d] = con[d]
      /\ con' = [d \in Channels |-> con'[d]]
  BY <1>3 DEF Inv, Shape
<1>5. Shape'
  BY <1>1, <1>2, <1>4 DEF Inv, Shape
<1>6. \A d \in Channels : con[d].pc \in ConEnd => con'[d].pc \in ConEnd
  <2>1. con'[c].pc \in ConEnd
    BY <1>4 DEF ConEnd
  <2>2. QED BY <1>4, <2>1
<1>7. \A d \in Channels : Siblings(d)' = Siblings(d) /\ Siblings(d) \subseteq Channels
  BY <1>1 DEF Siblings, Inv, Shape
<1>8. MayBeMarked(c)'
  <2>1. \A d \in Siblings(c) : con[d].pc \in ConEnd
    BY <1>1 DEF Siblings
  <2>2. QED BY <1>6, <1>7, <2>1 DEF MayBeMarked
<1>9. ASSUME NEW d \in Channels, MayBeMarked(d) PROVE MayBeMarked(d)'
  <2>1. CASE \A e \in Siblings(d) : con[e].pc \in ConEnd
    BY <1>6, <1>7, <2>1 DEF MayBeMarked
  <2>2. ASSUME d \in config.subtitle, NEW e \in config.subtitle, con[e].pc = "failed"
        PROVE  MayBeMarked(d)'
    <3>1. CASE e = c
      <4>1. Siblings(d) = config.subtitle /\ c \in config.subtitle
        BY <2>2, <3>1 DEF Siblings
      <4>2. QED BY <1>1, <1>6, <1>7, <4>1 DEF MayBeMarked
    <3>2. CASE e # c
      <4>1. con'[e].pc = "failed"
        BY <1>4, <2>2, <3>2 DEF Inv, Shape
      <4>2. QED BY <1>1, <2>2, <4>1 DEF MayBeMarked
    <3>3. QED BY <3>1, <3>2
  <2>3. QED BY <1>9, <2>1, <2>2 DEF MayBeMarked
<1>10. ASSUME NEW d \in Channels
       PROVE  IF d \in channels' THEN ch'[d].mark_closed => MayBeMarked(d)' ELSE ch'[d].mark_closed
  BY <1>1, <1>2, <1>8, <1>9 DEF Inv, MarkedMeansOver, MayBeMarked
<1>11. QED BY <1>5, <1>10 DEF Inv, MarkedMeansOver, MayBeMarked

LEMMA PutStep ==
  ASSUME Inv, NEW c \in Channels, ServePut(c)
  PROVE  Inv'
<1>1. /\ UNCHANGED <<channels, config, con>>
      /\ ch' = [ch EXCEPT ![c].queue = Append(ch[c].queue, dis.msg)]
  BY DEF ServePut, DisFrame
<1>2. ch' = [ch EXCEPT ![c] = [queue |-> Append(ch[c].queue, dis.msg),
                               mark_closed |-> ch[c].mark_closed, closed |-> ch[c].closed]]
  BY <1>1, Fields DEF Inv
<1>3. /\ ch'[c] = [queue |-> Append(ch[c].queue, dis.msg),
                   mark_closed |-> ch[c].mark_closed, closed |-> ch[c].closed]
      /\ \A d \in Channels : d # c => ch'[d] = ch[d]
      /\ ch' = [d \in Channels |-> ch'[d]]
  BY <1>2 DEF Inv, Shape
<1>4. Shape'
  BY <1>1, <1>3 DEF Inv, Shape, ChannelShape
<1>5. QED BY <1>1, <1>3, <1>4, MarksKept

LEMMA StepInv == Inv /\ [Next]_vars => Inv'
<1> SUFFICES ASSUME Inv, [Next]_vars PROVE Inv'
  OBVIOUS
<1>1. ASSUME UNCHANGED <<config, channels, ch, con>> PROVE Inv'
  BY <1>1 DEF Inv, Shape, ChannelShape, MarkedMeansOver, Siblings
<1>2. ASSUME StopAll, UNCHANGED <<config, con>> PROVE Inv'
  BY <1>2, Stopped
<1>3. CASE Stream
  BY <1>1, <1>2, <1>3
  DEF Stream, StreamStart, StreamSetup, StreamWait, StreamMessage, StreamRetryPut, Accept,
      StreamRetry, StreamGivesUp, StreamCancelled, SrcFails, SrcFrame
<1>4. CASE StreamFaults
  BY <1>1, <1>2, <1>4
  DEF StreamFaults, SetupFails, StreamBreaks, StreamError, StreamTruncated, SrcFails, SrcFrame
<1>5. CASE DispatchStart \/ DispatchStops \/ DispatchTake
  BY <1>1, <1>5 DEF DispatchStart, DispatchStops, DispatchTake, DisFrame
<1>6. CASE DispatchDone
  <2>1. RemoveChannels(channels) \/ UNCHANGED <<channels, ch>>
    BY <1>6 DEF DispatchDone
  <2>2. UNCHANGED <<config, con>>
    BY <1>6 DEF DispatchDone, DisFrame
  <2>3. QED BY <1>1, <2>1, <2>2, Removed DEF Inv, Shape
<1>7. ASSUME NEW c \in Channels, ServeSkip(c) \/ ServeBlocked(c) PROVE Inv'
  BY <1>1, <1>7 DEF ServeSkip, ServeBlocked, DisFrame
<1>8. ASSUME NEW c \in Channels, ServeGone(c) PROVE Inv'
  BY <1>8, Removed DEF ServeGone, DisFrame
<1>9. ASSUME NEW c \in Channels, ServeRaises(c) PROVE Inv'
  BY <1>2, <1>9 DEF ServeRaises, DisFrame
<1>10. CASE ForceStop
  BY <1>2, <1>10 DEF ForceStop
<1>11. CASE UNCHANGED vars
  BY <1>1, <1>11 DEF vars
<1>12. QED
  BY <1>3, <1>4, <1>5, <1>6, <1>7, <1>8, <1>9, <1>10, <1>11, PutStep, ReaderStep, SiblingStep, CleanUpStep
  DEF Next, Dispatch, Read

\* For any number of channels and any media: a channel the stream has let go is marked, so
\* that its reader is told, and one still registered is marked only when all readers of its
\* module have ended or, of subtitle matching, one of them has failed.
THEOREM MarksAreTruthful == Spec => []MarkedMeansOver
<1>1. Inv => MarkedMeansOver
  BY DEF Inv
<1>2. QED BY <1>1, InitInv, StepInv, PTL DEF Spec
-----------------------------------------------------------------------------
(* The ring of messages *)

(* What EventCollector_proofs proves of a ring, for this one. *)
RingFacts == INSTANCE EventCollector_proofs
    WITH Size <- CacheSize, NoItem <- NoMsg, Events <- Messages, Limit <- 1,
         ring <- cache, consuming <- FALSE, ret <- <<>>, last <- NoMsg

HoldsMessages(r) == RingFacts!WellFormed(r)

LEMMA RingAssumptions == RingFacts!SizeAssumption /\ RingFacts!EventAssumption
BY MediaAssumption, LimitAssumption
DEF RingFacts!SizeAssumption, RingFacts!EventAssumption, Messages

LEMMA SameRing ==
  ASSUME NEW r
  PROVE  /\ Ring!IsFull(r) = RingFacts!IsFull(r) /\ Ring!IsEmpty(r) = RingFacts!IsEmpty(r)
         /\ Ring!First(r) = RingFacts!First(r) /\ Ring!Dequeue(r) = RingFacts!Dequeue(r)
         /\ Ring!Contents(r) = RingFacts!Contents(r)
         /\ \A m : Ring!Enqueue(r, m) = RingFacts!Enqueue(r, m)
         /\ Ring!EmptyRing = RingFacts!EmptyRing
<1>1. Ring!IsEmpty(r) = RingFacts!IsEmpty(r) /\ Ring!IsFull(r) = RingFacts!IsFull(r)
  BY DEF Ring!IsEmpty, RingFacts!IsEmpty, Ring!IsFull, RingFacts!IsFull
<1>2. Ring!Count(r) = RingFacts!Count(r) /\ \A i : Ring!SlotOf(r, i) = RingFacts!SlotOf(r, i)
  BY <1>1 DEF Ring!Count, RingFacts!Count, Ring!SlotOf, RingFacts!SlotOf
<1>3. Ring!Contents(r) = RingFacts!Contents(r)
  BY <1>2 DEF Ring!Contents, RingFacts!Contents
<1>4. Ring!First(r) = RingFacts!First(r) /\ Ring!Dequeue(r) = RingFacts!Dequeue(r)
  BY <1>1 DEF Ring!First, RingFacts!First, Ring!Dequeue, RingFacts!Dequeue
<1>5. \A m : Ring!Enqueue(r, m) = RingFacts!Enqueue(r, m)
  BY <1>1 DEF Ring!Enqueue, RingFacts!Enqueue
<1>6. Ring!EmptyRing = RingFacts!EmptyRing
  BY DEF Ring!EmptyRing, RingFacts!EmptyRing, Ring!Slots, RingFacts!Slots
<1>7. QED BY <1>1, <1>3, <1>4, <1>5, <1>6

LEMMA RingStarts == HoldsMessages(Ring!EmptyRing) /\ Ring!Contents(Ring!EmptyRing) = <<>>
<1> DEFINE r == RingFacts!EmptyRing
<1>1. r.front = -1 /\ r.rear = -1
  BY DEF RingFacts!EmptyRing
<1>2. RingFacts!Count(r) = 0
  BY <1>1 DEF RingFacts!Count, RingFacts!IsEmpty
<1>3. r \in RingFacts!RingType(Messages) /\ RingFacts!Consistent(r)
  BY <1>1 DEF RingFacts!EmptyRing, RingFacts!RingType, RingFacts!Consistent
<1>4. RingFacts!WellFormed(r)
  BY <1>2, <1>3 DEF RingFacts!WellFormed
<1>5. RingFacts!Contents(r) = <<>>
  BY <1>2 DEF RingFacts!Contents
<1>6. QED BY <1>4, <1>5, SameRing DEF HoldsMessages

LEMMA RingHolds ==
  ASSUME NEW r, HoldsMessages(r)
  PROVE  /\ Ring!Contents(r) \in Seq(Messages)
         /\ \A m \in Messages : ~Ring!IsFull(r) =>
              /\ HoldsMessages(Ring!Enqueue(r, m))
              /\ Ring!Contents(Ring!Enqueue(r, m)) = Append(Ring!Contents(r), m)
         /\ ~Ring!IsEmpty(r) =>
              /\ HoldsMessages(Ring!Dequeue(r)) /\ Ring!First(r) \in Messages
              /\ Ring!Contents(r) = <<Ring!First(r)>> \o Ring!Contents(Ring!Dequeue(r))
<1>1. RingFacts!Contents(r) \in Seq(Messages) /\ Ring!Contents(r) \in Seq(Messages)
  BY RingFacts!ContentsSeq, RingAssumptions, SameRing DEF HoldsMessages
<1>2. ASSUME NEW m \in Messages, ~Ring!IsFull(r)
      PROVE  /\ HoldsMessages(Ring!Enqueue(r, m))
             /\ Ring!Contents(Ring!Enqueue(r, m)) = Append(Ring!Contents(r), m)
  <2>1. ~RingFacts!IsFull(r)
    BY <1>2, SameRing
  <2>2. /\ RingFacts!WellFormed(RingFacts!Enqueue(r, m))
        /\ RingFacts!Contents(RingFacts!Enqueue(r, m)) = Append(RingFacts!Contents(r), m)
    BY <2>1, RingFacts!EnqueueAppends, RingAssumptions DEF HoldsMessages
  <2>3. QED BY <2>2, SameRing DEF HoldsMessages
<1>3. ASSUME ~Ring!IsEmpty(r)
      PROVE  /\ HoldsMessages(Ring!Dequeue(r)) /\ Ring!First(r) \in Messages
             /\ Ring!Contents(r) = <<Ring!First(r)>> \o Ring!Contents(Ring!Dequeue(r))
  <2>1. ~RingFacts!IsEmpty(r)
    BY <1>3, SameRing
  <2>2. /\ RingFacts!WellFormed(RingFacts!Dequeue(r))
        /\ RingFacts!First(r) = Head(RingFacts!Contents(r)) /\ RingFacts!First(r) \in Messages
        /\ RingFacts!Contents(RingFacts!Dequeue(r)) = Tail(RingFacts!Contents(r))
    BY <2>1, RingFacts!DequeueTakesFirst, RingAssumptions DEF HoldsMessages
  <2>3. RingFacts!Contents(r) # <<>>
    <3>1. RingFacts!First(r) # NoMsg
      BY <2>2, RingAssumptions DEF RingFacts!EventAssumption
    <3>2. QED BY <3>1, RingFacts!NoneMeansEmpty, RingAssumptions DEF HoldsMessages
  <2>4. \A s \in Seq(Messages) : s # <<>> => s = <<Head(s)>> \o Tail(s)
    OBVIOUS
  <2>5. RingFacts!Contents(r) = <<RingFacts!First(r)>> \o RingFacts!Contents(RingFacts!Dequeue(r))
    BY <1>1, <2>2, <2>3, <2>4
  <2>6. QED BY <2>2, <2>5, SameRing DEF HoldsMessages
<1>4. QED BY <1>1, <1>2, <1>3
-----------------------------------------------------------------------------
(* Delivery: the invariant *)

LoopShape ==
    /\ src = [pc |-> src.pc, next |-> src.next, attempt |-> src.attempt]
    /\ src.next \in 1 .. Len(Media)
    /\ dis = [pc |-> dis.pc, msg |-> dis.msg, todo |-> dis.todo]
    /\ dis.todo \in Seq(Channels) /\ Distinct(dis.todo)
    /\ IF dis.pc \in {"serve", "full"} THEN dis.msg \in Messages ELSE dis.todo = <<>>

FlowType ==
    /\ config \in Configs
    /\ process_steps \in [Channels -> Int]
    /\ HoldsMessages(cache)
    /\ accepted \in Seq(Messages)
    /\ \A c \in Channels : ch[c].queue \in Seq(Messages) /\ con[c].got \in Seq(Messages)

\* A loop that serves has all it has still to serve registered; who is cancelled, has none.
ServesRegistered ==
    /\ dis.pc = "serve" => \A c \in Channels : Has(dis.todo, c) => c \in channels
    /\ WakesToItsChannels
    /\ "dispatch" \in cancelled => channels = {}

\* The steps are settled before the first message.
NothingYet ==
    src.pc \in {"new", "setup", "wait"} =>
        accepted = <<>> /\ Ring!Contents(cache) = <<>> /\ dis.pc \notin {"serve", "full"}

FlowInv == Inv /\ LoopShape /\ FlowType /\ ServesRegistered /\ NothingYet /\ Delivery

-----------------------------------------------------------------------------
(* Sequences and prefixes *)

LEMMA PrefixOfConcat ==
  ASSUME NEW A, NEW s \in Seq(A), NEW t \in Seq(A)
  PROVE  IsPrefix(s, s \o t)
BY DEF IsPrefix

LEMMA PrefixGrows ==
  ASSUME NEW A, NEW s \in Seq(A), NEW t \in Seq(A), NEW u \in Seq(A), IsPrefix(s, t)
  PROVE  IsPrefix(s, t \o u)
<1>1. Len(s) \in Nat /\ Len(t) \in Nat /\ Len(s) <= Len(t) /\ t \o u \in Seq(A)
      /\ Len(t \o u) = Len(t) + Len(u) /\ Len(u) \in Nat
  BY DEF IsPrefix
<1>2. SubSeq(t \o u, 1, Len(s)) = SubSeq(t, 1, Len(s))
  BY <1>1
<1>3. QED BY <1>1, <1>2 DEF IsPrefix

LEMMA ConcatApart ==
  ASSUME NEW A, NEW s \in Seq(A), NEW t \in Seq(A), NEW u \in Seq(A)
  PROVE  (s \o t) \o u = s \o (t \o u)
OBVIOUS

LEMMA HeadApart ==
  ASSUME NEW A, NEW s \in Seq(A), s # <<>>
  PROVE  /\ s = <<Head(s)>> \o Tail(s) /\ Head(s) \in A /\ Tail(s) \in Seq(A)
         /\ Distinct(s) => Distinct(Tail(s)) /\ ~Has(Tail(s), Head(s))
         /\ \A x : Has(s, x) <=> x = Head(s) \/ Has(Tail(s), x)
<1>1. /\ s = <<Head(s)>> \o Tail(s) /\ Head(s) \in A /\ Tail(s) \in Seq(A) /\ Len(s) \in Nat
      /\ Len(Tail(s)) = Len(s) - 1 /\ Head(s) = s[1] /\ Len(s) >= 1
      /\ \A i \in 1 .. Len(s) - 1 : Tail(s)[i] = s[i + 1]
  OBVIOUS
<1> DEFINE k == Len(s)
           t == Tail(s)
<1> HIDE DEF k, t
<1>2. Distinct(s) => Distinct(t) /\ ~Has(t, Head(s))
  BY <1>1 DEF Distinct, Has, t
<1>3. ASSUME NEW x PROVE Has(s, x) <=> x = Head(s) \/ Has(t, x)
  <2>1. ASSUME Has(s, x) PROVE x = Head(s) \/ Has(t, x)
    <3>1. PICK i \in 1 .. Len(s) : s[i] = x
      BY <2>1 DEF Has
    <3>2. i = 1 \/ (i - 1 \in 1 .. Len(s) - 1 /\ t[i - 1] = x)
      BY <1>1, <3>1 DEF t
    <3>3. QED BY <1>1, <3>1, <3>2 DEF Has, t
  <2>2. ASSUME Has(t, x) PROVE Has(s, x)
    <3>1. PICK i \in 1 .. Len(s) - 1 : t[i] = x
      BY <1>1, <2>2 DEF Has, t
    <3>2. i + 1 \in 1 .. Len(s) /\ s[i + 1] = x
      BY <1>1, <3>1 DEF t
    <3>3. QED BY <3>2 DEF Has
  <2>3. QED BY <1>1, <2>1, <2>2 DEF Has
<1>4. QED BY <1>1, <1>2, <1>3 DEF t

LEMMA RangeHas == ASSUME NEW s \in Seq(Channels), NEW c PROVE c \in Range(s) <=> Has(s, c)
BY DEF Range, Has

LEMMA ServesRange ==
  ASSUME NEW s \in Seq(Channels)
  PROVE  Range(s) \subseteq channels <=> \A c \in Channels : Has(s, c) => c \in channels
<1>1. \A c \in Range(s) : c \in Channels
  BY DEF Range
<1>2. QED BY <1>1, RangeHas

LEMMA WantedSeq ==
  ASSUME NEW c, NEW s \in Seq(Messages)
  PROVE  Wanted(c, s) \in Seq(Messages)
<1>1. Wanted(c, s) \in Seq(Messages \cap WantedMessages(c))
  BY SelectType DEF Wanted
<1>2. QED BY <1>1

LEMMA WantedConcat ==
  ASSUME NEW c, NEW s \in Seq(Messages), NEW t \in Seq(Messages)
  PROVE  Wanted(c, s \o t) = Wanted(c, s) \o Wanted(c, t)
BY SelectConcat DEF Wanted

LEMMA WantedOne ==
  ASSUME NEW c, NEW m \in Messages
  PROVE  Wanted(c, <<m>>) = IF m \in WantedMessages(c) THEN <<m>> ELSE <<>>
<1> DEFINE S == WantedMessages(c)
<1> HIDE DEF S
<1>1. <<m>> = Append(<<>>, m) /\ <<>> \in Seq(Messages)
  OBVIOUS
<1>2. Select(Append(<<>>, m), S) = IF m \in S THEN Append(Select(<<>>, S), m) ELSE Select(<<>>, S)
  BY <1>1, SelectAppend
<1>3. Select(<<>>, S) = <<>>
  BY SelectEmpty
<1>4. Select(<<m>>, S) = IF m \in S THEN <<m>> ELSE <<>>
  BY <1>1, <1>2, <1>3
<1>5. QED BY <1>4 DEF Wanted, S

LEMMA FlowSeqs ==
  ASSUME Shape, LoopShape, FlowType, NEW c \in Channels
  PROVE  /\ Had(c) \in Seq(Messages) /\ StillToServe(c) \in Seq(Messages)
         /\ Wanted(c, StillToServe(c)) \in Seq(Messages) /\ Wanted(c, accepted) \in Seq(Messages)
<1>1. Had(c) \in Seq(Messages)
  BY DEF Had, FlowType
<1>2. Ring!Contents(cache) \in Seq(Messages)
  BY RingHolds DEF FlowType
<1>3. c \in Range(dis.todo) => dis.msg \in Messages
  BY RangeHas DEF LoopShape, Has
<1>4. StillToServe(c) \in Seq(Messages)
  BY <1>2, <1>3 DEF StillToServe
<1>5. QED BY <1>1, <1>4, WantedSeq DEF FlowType

\* Registered or not, a channel has had the first of what it wants.
LEMMA FirstOfWanted ==
  ASSUME FlowInv, NEW c \in Channels
  PROVE  IsPrefix(Had(c), Wanted(c, accepted))
BY FlowSeqs, PrefixOfConcat DEF Delivery, FlowInv, Inv

LEMMA SameWanted ==
  ASSUME NEW c, process_steps'[c] = process_steps[c]
  PROVE  WantedMessages(c)' = WantedMessages(c) /\ \A s : Wanted(c, s)' = Wanted(c, s)
BY DEF WantedMessages, Wanted, Messages

Delivered(c) ==
    IF c \in channels THEN Had(c) \o Wanted(c, StillToServe(c)) = Wanted(c, accepted)
    ELSE IsPrefix(Had(c), Wanted(c, accepted))

\* What was not touched, or was only removed, has still had what it should.
LEMMA Untouched ==
  ASSUME FlowInv, NEW c \in Channels, Had(c)' = Had(c),
         process_steps'[c] = process_steps[c], accepted' = accepted,
         c \in channels' => c \in channels /\ Wanted(c, StillToServe(c))' = Wanted(c, StillToServe(c))
  PROVE  Delivered(c)'
<1>1. Wanted(c, accepted)' = Wanted(c, accepted)
  BY SameWanted
<1>2. IsPrefix(Had(c), Wanted(c, accepted)) /\ Delivered(c)
  BY FirstOfWanted DEF FlowInv, Delivery, Delivered
<1>3. QED BY <1>1, <1>2 DEF Delivered

\* Nothing in the queues or with the readers changes, and the ring and what it took neither.
Still == /\ UNCHANGED <<config, process_steps, accepted, cache>>
         /\ \A c \in Channels : ch'[c].queue = ch[c].queue /\ con'[c].got = con[c].got

LEMMA StillTypes ==
  ASSUME FlowInv, Still
  PROVE  FlowType' /\ \A c \in Channels : Had(c)' = Had(c)
<1>1. HoldsMessages(cache)'
  BY DEF FlowInv, FlowType, Still
<1>2. QED BY <1>1 DEF FlowInv, FlowType, Still, Had

LEMMA StillSame ==
  ASSUME FlowInv, Still, channels' = channels, dis'.todo = dis.todo, dis'.msg = dis.msg
  PROVE  FlowType' /\ Delivery'
<1>1. ASSUME NEW c \in Channels PROVE Delivered(c)'
  <2>1. StillToServe(c)' = StillToServe(c)
    BY DEF StillToServe, Still
  <2>2. Wanted(c, StillToServe(c))' = Wanted(c, StillToServe(c))
    BY <2>1, SameWanted DEF Still
  <2>3. QED BY <2>2, Untouched, StillTypes DEF Still
<1>2. QED BY <1>1, StillTypes DEF Delivery, Delivered

LEMMA StillGone ==
  ASSUME FlowInv, Still, channels' = {}
  PROVE  FlowType' /\ Delivery'
<1>1. ASSUME NEW c \in Channels PROVE Delivered(c)'
  BY Untouched, StillTypes DEF Still
<1>2. QED BY <1>1, StillTypes DEF Delivery, Delivered

LEMMA StopAllStill ==
  ASSUME FlowInv, StopAll, UNCHANGED <<config, process_steps, accepted, cache, con>>
  PROVE  /\ FlowType' /\ Delivery' /\ channels' = {}
         /\ cancelled' = cancelled \union Unfinished
<1>1. channels' = {} /\ ch' = MarkClosed(channels) /\ cancelled' = cancelled \union Unfinished
  BY DEF StopAll, RemoveChannels
<1>2. Still
  BY <1>1, MarkEffect DEF Still, FlowInv, Inv, Shape
<1>3. QED BY <1>1, <1>2, StillGone

-----------------------------------------------------------------------------
(* Steps of the stream loop *)

\* The loop moves on and touches nothing else.
LEMMA SrcMoves ==
  ASSUME FlowInv, UNCHANGED <<config, process_steps, cancelled, dis, cache, con, accepted, channels, ch>>,
         NEW p, NEW n \in 1 .. Len(Media), NEW a, src' = [pc |-> p, next |-> n, attempt |-> a],
         p \in {"new", "setup", "wait"} => src.pc \in {"new", "setup", "wait"}
  PROVE  LoopShape' /\ FlowType' /\ ServesRegistered' /\ NothingYet' /\ Delivery'
<1>1. FlowType' /\ Delivery'
  BY StillSame DEF Still
<1>2. LoopShape' /\ NothingYet'
  BY DEF FlowInv, LoopShape, NothingYet
<1>3. ServesRegistered'
  BY DEF FlowInv, ServesRegistered, WakesToItsChannels
<1>4. QED BY <1>1, <1>2, <1>3

\* Everything is stopped, by the stream loop or from outside.
LEMMA StopAllStep ==
  ASSUME FlowInv, StopAll, UNCHANGED <<config, process_steps, dis, accepted, cache, con>>,
         dis.pc # "serve", NEW p, src' = [src EXCEPT !.pc = p],
         p \in {"new", "setup", "wait"} => src.pc \in {"new", "setup", "wait"}
  PROVE  LoopShape' /\ FlowType' /\ ServesRegistered' /\ NothingYet' /\ Delivery'
<1>1. FlowType' /\ Delivery' /\ channels' = {} /\ cancelled' = cancelled \union Unfinished
  BY StopAllStill
<1>2. src'.pc = p /\ src'.next = src.next /\ src'.attempt = src.attempt
      /\ src' = [pc |-> p, next |-> src.next, attempt |-> src.attempt]
  BY DEF FlowInv, LoopShape
<1>3. LoopShape' /\ NothingYet'
  BY <1>2 DEF FlowInv, LoopShape, NothingYet
<1>4. dis.pc = "full" => "dispatch" \in cancelled'
  BY <1>1 DEF Unfinished
<1>5. ServesRegistered'
  BY <1>1, <1>4 DEF ServesRegistered, WakesToItsChannels
<1>6. QED BY <1>1, <1>3, <1>5

\* The channel with the highest rate there is.
LEMMA TopRate ==
  ASSUME config \in Configs, ChannelFps # {}
  PROVE  \E f \in ChannelFps : \A g \in ChannelFps : g <= f
<1> DEFINE n == Len(ChannelOrder)
           rate == [i \in 1 .. n |-> config.fps[ChannelOrder[i]]]
<1>1. config.fps \in [Channels -> Nat]
  BY LimitAssumption
<1>2. n \in Nat /\ Channels = {ChannelOrder[i] : i \in 1 .. n}
  BY ChannelAssumption DEF Channels, Range
<1>3. n # 0
  BY <1>2 DEF ChannelFps
<1>4. rate \in [1 .. n -> Int]
  BY <1>1, <1>2
<1>5. PICK m \in 1 .. n : \A j \in 1 .. n : rate[j] <= rate[m]
  BY <1>2, <1>3, <1>4, Greatest
<1>6. \A g \in ChannelFps : g \in Nat /\ g # 0 /\ \E j \in 1 .. n : g = rate[j]
  BY <1>1, <1>2 DEF ChannelFps
<1>7. PICK g \in ChannelFps : TRUE
  OBVIOUS
<1>8. rate[m] \in Nat /\ rate[m] # 0
  <2>1. PICK j \in 1 .. n : g = rate[j]
    BY <1>6
  <2>2. rate[m] = config.fps[ChannelOrder[m]] /\ ChannelOrder[m] \in Channels
    BY <1>2
  <2>3. rate[m] \in Nat
    BY <1>1, <2>2
  <2>4. QED BY <1>5, <1>6, <2>1, <2>3
<1>9. rate[m] \in ChannelFps
  BY <1>2, <1>8 DEF ChannelFps
<1>10. QED BY <1>5, <1>6, <1>9

LEMMA StepTyped ==
  ASSUME config \in Configs, NEW c \in Channels
  PROVE  StepOf(c) \in Int
<1>1. config.fps \in [Channels -> Nat] /\ config.meta \in Nat
  BY LimitAssumption
<1>2. ChannelFps \subseteq Nat
  BY <1>1 DEF ChannelFps
<1> DEFINE top == CHOOSE f \in ChannelFps : \A g \in ChannelFps : g <= f
<1>3. ChannelFps # {} => top \in Nat
  BY <1>2, TopRate
<1>4. DecodeFps \in Nat
  BY <1>1, <1>3 DEF DecodeFps
<1>5. QED BY <1>1, <1>4 DEF StepOf

LEMMA WantedNone == \A c : Wanted(c, <<>>) = <<>> /\ Wanted(c, <<>>)' = <<>>
BY SelectEmpty DEF Wanted

\* The steps are settled while there is nothing to choose from.
LEMMA StepsSettled ==
  ASSUME FlowInv, StreamStart, src'.pc = "setup"
  PROVE  FlowType' /\ Delivery'
<1>1. /\ src.pc = "new" /\ UNCHANGED <<config, dis, cache, con, accepted, channels, ch>>
      /\ process_steps' = [c \in Channels |-> IF c \in channels THEN StepOf(c) ELSE process_steps[c]]
  BY DEF StreamStart, SrcRuns, SrcGoto, SrcFrame, FlowInv, LoopShape
<1>2. config \in Configs /\ process_steps \in [Channels -> Int]
  BY DEF FlowInv, FlowType
<1>3. process_steps' \in [Channels -> Int]
  BY <1>1, <1>2, StepTyped
<1>4. FlowType'
  BY <1>1, <1>3 DEF FlowInv, FlowType
<1>5. accepted = <<>> /\ Ring!Contents(cache) = <<>> /\ dis.todo = <<>>
  BY <1>1 DEF FlowInv, NothingYet, LoopShape
<1>6. ASSUME NEW c \in Channels PROVE Delivered(c)'
  <2>1. StillToServe(c) = <<>> /\ StillToServe(c)' = <<>>
    <3>1. c \notin Range(dis.todo)
      BY <1>5 DEF Range
    <3>2. QED BY <1>1, <1>5, <3>1 DEF StillToServe
  <2>2. Wanted(c, accepted) = <<>> /\ Wanted(c, StillToServe(c)) = <<>>
    BY <1>5, <2>1, WantedNone
  <2>3. Wanted(c, accepted)' = <<>> /\ Wanted(c, StillToServe(c))' = <<>>
    <3>1. accepted' = <<>>
      BY <1>1, <1>5
    <3>2. QED BY <2>1, <3>1, WantedNone DEF Wanted
  <2>4. Had(c) \in Seq(Messages) /\ Had(c)' = Had(c)
    BY <1>1, FlowSeqs DEF FlowInv, Inv, Had
  <2>5. IsPrefix(Had(c), <<>>)
    BY <2>2, FirstOfWanted
  <2>6. Had(c) = <<>>
    BY <2>4, <2>5 DEF IsPrefix
  <2>7. IsPrefix(<<>>, <<>>)
    BY DEF IsPrefix
  <2>8. QED BY <2>3, <2>4, <2>6, <2>7 DEF Delivered
<1>7. QED BY <1>4, <1>6 DEF Delivery, Delivered

\* A message enters the ring, behind those that are there.
LEMMA Entered ==
  ASSUME FlowInv, NEW m \in Messages, ~Ring!IsFull(cache),
         cache' = Ring!Enqueue(cache, m), accepted' = Append(accepted, m),
         UNCHANGED <<config, process_steps, dis, con, channels, ch>>
  PROVE  FlowType' /\ Delivery'
<1>1. /\ HoldsMessages(cache) /\ accepted \in Seq(Messages)
      /\ accepted' = accepted \o <<m>> /\ accepted' \in Seq(Messages) /\ <<m>> \in Seq(Messages)
  BY DEF FlowInv, FlowType
<1>2. /\ HoldsMessages(cache') /\ Ring!Contents(cache) \in Seq(Messages)
      /\ Ring!Contents(cache') = Append(Ring!Contents(cache), m)
  BY <1>1, RingHolds
<1>3. HoldsMessages(cache)'
  BY <1>2
<1>4. FlowType'
  BY <1>1, <1>3 DEF FlowInv, FlowType
<1>5. ASSUME NEW c \in Channels PROVE Delivered(c)'
  <2> DEFINE had == Had(c)
             todo == Wanted(c, StillToServe(c))
             all == Wanted(c, accepted)
             one == Wanted(c, <<m>>)
  <2>1. Had(c)' = had
    BY DEF Had
  <2>2. had \in Seq(Messages) /\ todo \in Seq(Messages) /\ all \in Seq(Messages) /\ one \in Seq(Messages)
        /\ StillToServe(c) \in Seq(Messages)
    BY <1>1, FlowSeqs, WantedSeq DEF FlowInv, Inv
  <2>3. Wanted(c, accepted)' = all \o one
    <3>1. Wanted(c, accepted \o <<m>>) = all \o one
      BY <1>1, WantedConcat
    <3>2. Wanted(c, accepted)' = Wanted(c, accepted \o <<m>>)
      BY <1>1, SameWanted
    <3>3. QED BY <3>1, <3>2
  <2>4. StillToServe(c)' = StillToServe(c) \o <<m>>
    <3>1. c \in Range(dis.todo) => dis.msg \in Messages
      BY RangeHas DEF FlowInv, LoopShape, Has
    <3> DEFINE now == IF c \in Range(dis.todo) THEN <<dis.msg>> ELSE <<>>
    <3>2. now \in Seq(Messages) /\ now' = now
      BY <3>1
    <3>3. StillToServe(c) = now \o Ring!Contents(cache) /\ StillToServe(c)' = now' \o Ring!Contents(cache')
      BY DEF StillToServe
    <3> HIDE DEF now
    <3>4. now \o (Ring!Contents(cache) \o <<m>>) = (now \o Ring!Contents(cache)) \o <<m>>
      BY <1>2, <3>2
    <3>5. QED BY <1>2, <3>2, <3>3, <3>4
  <2>5. Wanted(c, StillToServe(c))' = todo \o one
    <3>1. Wanted(c, StillToServe(c) \o <<m>>) = todo \o one
      BY <1>1, <2>2, WantedConcat
    <3>2. Wanted(c, StillToServe(c))' = Wanted(c, StillToServe(c) \o <<m>>)
      BY <2>4, SameWanted
    <3>3. QED BY <3>1, <3>2
  <2>6. Delivered(c) /\ IsPrefix(had, all)
    BY FirstOfWanted DEF FlowInv, Delivery, Delivered
  <2>7. c \in channels => had \o todo = all
    BY <2>6 DEF Delivered
  <2> HIDE DEF had, todo, all, one
  <2>8. CASE c \in channels
    <3>1. had \o (todo \o one) = (had \o todo) \o one
      BY <2>2
    <3>2. QED BY <2>1, <2>3, <2>5, <2>7, <2>8, <3>1 DEF Delivered
  <2>9. CASE c \notin channels
    <3>1. IsPrefix(had, all \o one)
      BY <2>2, <2>6, PrefixGrows
    <3>2. QED BY <2>1, <2>3, <2>9, <3>1 DEF Delivered
  <2>10. QED BY <2>8, <2>9
<1>6. QED BY <1>4, <1>5 DEF Delivery, Delivered

LEMMA AcceptStep ==
  ASSUME FlowInv, NEW p \in {"fetch", "full"}, Accept(p)
  PROVE  LoopShape' /\ FlowType' /\ ServesRegistered' /\ NothingYet' /\ Delivery'
<1> DEFINE m == Media[src.next]
<1>1. /\ src.pc = p /\ src.next \in 1 .. Len(Media) /\ m \in Messages
      /\ src = [pc |-> src.pc, next |-> src.next, attempt |-> src.attempt]
  BY DEF Accept, SrcRuns, FlowInv, LoopShape, Messages, Range
<1>2. UNCHANGED <<config, process_steps, cancelled, dis, con, channels, ch>>
  BY DEF Accept, control
<1>3. ASSUME NEW q \in {"ended", "full"}, SrcGoto(q), UNCHANGED <<cache, accepted>>
      PROVE  LoopShape' /\ FlowType' /\ ServesRegistered' /\ NothingYet' /\ Delivery'
  <2>1. src' = [pc |-> q, next |-> src.next, attempt |-> src.attempt]
    BY <1>1, <1>3 DEF SrcGoto
  <2>2. QED BY <1>1, <1>2, <1>3, <2>1, SrcMoves
<1>4. ASSUME ~Ring!IsFull(cache), cache' = Ring!Enqueue(cache, m), accepted' = Append(accepted, m),
             src' = IF StopsSource(m) THEN [src EXCEPT !.pc = "ended"]
                    ELSE [src EXCEPT !.pc = "fetch", !.next = @ + 1]
      PROVE  LoopShape' /\ FlowType' /\ ServesRegistered' /\ NothingYet' /\ Delivery'
  <2>1. FlowType' /\ Delivery'
    BY <1>1, <1>2, <1>4, Entered
  <2>2. ~StopsSource(m) => src.next + 1 \in 1 .. Len(Media)
    <3>1. m.last => StopsSource(m)
      BY DEF StopsSource
    <3>2. m.last <=> src.next = Len(Media)
      BY <1>1, MediaAssumption
    <3>3. Len(Media) \in Nat
      BY MediaAssumption
    <3>4. QED BY <1>1, <3>1, <3>2, <3>3
  <2>3. src' = IF StopsSource(m) THEN [pc |-> "ended", next |-> src.next, attempt |-> src.attempt]
               ELSE [pc |-> "fetch", next |-> src.next + 1, attempt |-> src.attempt]
    <3>1. CASE StopsSource(m)
      BY <1>1, <1>4, <3>1
    <3>2. CASE ~StopsSource(m)
      <4>1. src' = [src EXCEPT !.pc = "fetch", !.next = @ + 1]
        BY <1>4, <3>2
      <4>2. src' = [pc |-> "fetch", next |-> src.next + 1, attempt |-> src.attempt]
        BY <1>1, <4>1
      <4>3. QED BY <3>2, <4>2
    <3>3. QED BY <3>1, <3>2
  <2> HIDE DEF m
  <2>4. LoopShape' /\ NothingYet'
    BY <1>1, <1>2, <2>2, <2>3 DEF FlowInv, LoopShape, NothingYet
  <2>5. ServesRegistered'
    BY <1>2 DEF FlowInv, ServesRegistered, WakesToItsChannels
  <2>6. QED BY <2>1, <2>4, <2>5
<1>5. QED BY <1>3, <1>4 DEF Accept

LEMMA StreamStep ==
  ASSUME FlowInv, Stream \/ StreamFaults
  PROVE  LoopShape' /\ FlowType' /\ ServesRegistered' /\ NothingYet' /\ Delivery'
<1> DEFINE Good == LoopShape' /\ FlowType' /\ ServesRegistered' /\ NothingYet' /\ Delivery'
<1>1. src.next \in 1 .. Len(Media) /\ src = [pc |-> src.pc, next |-> src.next, attempt |-> src.attempt]
  BY DEF FlowInv, LoopShape
<1>2. ASSUME NEW p, SrcGoto(p), SrcFrame, UNCHANGED <<control, process_steps, channels, ch>>,
             p \in {"new", "setup", "wait"} => src.pc \in {"new", "setup", "wait"}
      PROVE  Good
  <2>1. src' = [pc |-> p, next |-> src.next, attempt |-> src.attempt]
    BY <1>1, <1>2 DEF SrcGoto
  <2>2. QED BY <1>1, <1>2, <2>1, SrcMoves DEF SrcFrame, control
<1>3. ASSUME NEW p, SrcRuns(p), SrcFails(p) PROVE Good
  <2>1. dis.pc # "serve" /\ src' = [src EXCEPT !.pc = "ended"]
    BY <1>3 DEF SrcRuns, LoopFree, SrcFails, SrcGoto
  <2>2. StopAll /\ UNCHANGED <<config, process_steps, dis, accepted, cache, con>>
    BY <1>3 DEF SrcFails, SrcFrame
  <2>3. QED BY <2>1, <2>2, StopAllStep
<1>4. CASE StreamStart
  <2>1. CASE src'.pc = "setup"
    <3>1. FlowType' /\ Delivery'
      BY <1>4, <2>1, StepsSettled
    <3>2. /\ UNCHANGED <<dis, cache, accepted, channels, cancelled>> /\ src.pc = "new"
          /\ \E p : src' = [src EXCEPT !.pc = p]
      BY <1>4 DEF StreamStart, SrcFrame, SrcRuns, SrcGoto, control
    <3>3. LoopShape' /\ NothingYet'
      BY <3>2 DEF FlowInv, LoopShape, NothingYet
    <3>4. ServesRegistered'
      BY <3>2 DEF FlowInv, ServesRegistered, WakesToItsChannels
    <3>5. QED BY <3>1, <3>3, <3>4
  <2>2. CASE src'.pc # "setup"
    <3>1. SrcGoto("raised") /\ UNCHANGED process_steps
      BY <1>1, <1>4, <2>2 DEF StreamStart, SrcGoto
    <3>2. QED BY <1>2, <1>4, <3>1 DEF StreamStart
  <2>3. QED BY <2>1, <2>2
<1>5. CASE StreamSetup \/ StreamWait \/ StreamCancelled \/ StreamBreaks \/ StreamTruncated
  BY <1>2, <1>5 DEF StreamSetup, StreamWait, StreamCancelled, StreamBreaks, StreamTruncated, SrcRuns, SrcEnd
<1>6. CASE StreamMessage \/ StreamRetryPut
  BY <1>6, AcceptStep DEF StreamMessage, StreamRetryPut
<1>7. CASE StreamRetry
  <2>1. PICK n \in 1 .. src.next : src' = [pc |-> "fetch", next |-> n, attempt |-> src.attempt + 1]
    BY <1>7 DEF StreamRetry
  <2>2. n \in 1 .. Len(Media)
    BY <1>1
  <2>3. UNCHANGED <<config, process_steps, cancelled, dis, cache, con, accepted, channels, ch>>
    BY <1>7 DEF StreamRetry, SrcFrame, control
  <2>4. QED BY <2>1, <2>2, <2>3, SrcMoves
<1>8. CASE StreamGivesUp \/ SetupFails \/ StreamError
  BY <1>3, <1>8 DEF StreamGivesUp, SetupFails, StreamError
<1>9. QED BY <1>4, <1>5, <1>6, <1>7, <1>8 DEF Stream, StreamFaults

-----------------------------------------------------------------------------
(* Steps of the dispatch loop *)

LEMMA OrderDistinct == ChannelOrder \in Seq(Channels) /\ Distinct(ChannelOrder)
BY ChannelAssumption DEF IsInjective, Distinct

\* The loop is where it serves nobody.
LEMMA DispatchIdles ==
  ASSUME FlowInv, NEW p \in {"new", "poll", "ended"}, dis' = Idle(p), dis.todo = <<>> \/ channels = {},
         UNCHANGED <<config, process_steps, src, cancelled, cache, con, accepted>>,
         UNCHANGED <<channels, ch>> \/ RemoveChannels(channels)
  PROVE  LoopShape' /\ FlowType' /\ ServesRegistered' /\ NothingYet' /\ Delivery'
<1>1. dis' = [pc |-> p, msg |-> NoMsg, todo |-> <<>>] /\ dis'.pc = p /\ dis'.todo = <<>>
  BY DEF Idle
<1>2. Still /\ channels' \subseteq channels
  <2>1. CASE UNCHANGED <<channels, ch>>
    BY <2>1 DEF Still
  <2>2. CASE RemoveChannels(channels)
    BY <2>2, MarkEffect DEF Still, FlowInv, Inv, Shape, RemoveChannels
  <2>3. QED BY <2>1, <2>2
<1>3. ASSUME NEW c \in Channels PROVE Delivered(c)'
  <2>1. ASSUME c \in channels' PROVE Wanted(c, StillToServe(c))' = Wanted(c, StillToServe(c))
    <3>1. c \notin Range(dis.todo) /\ c \notin Range(dis'.todo)
      BY <1>1, <1>2, <2>1 DEF Range
    <3>2. StillToServe(c)' = StillToServe(c)
      BY <1>2, <3>1 DEF StillToServe, Still
    <3>3. QED BY <1>2, <3>2, SameWanted DEF Still
  <2>2. QED BY <1>2, <2>1, Untouched, StillTypes DEF Still
<1>4. FlowType' /\ Delivery'
  BY <1>2, <1>3, StillTypes DEF Delivery, Delivered
<1>5. Distinct(<<>>)
  BY DEF Distinct
<1>6. LoopShape' /\ NothingYet'
  BY <1>1, <1>5 DEF FlowInv, LoopShape, NothingYet
<1>7. ServesRegistered'
  BY <1>1, <1>2 DEF FlowInv, ServesRegistered, WakesToItsChannels
<1>8. QED BY <1>4, <1>6, <1>7

LEMMA TakeStep ==
  ASSUME FlowInv, DispatchTake
  PROVE  LoopShape' /\ FlowType' /\ ServesRegistered' /\ NothingYet' /\ Delivery'
<1> DEFINE m == Ring!First(cache)
           todo == Select(ChannelOrder, channels)
<1>1. /\ dis.pc = "poll" /\ ~Ring!IsEmpty(cache) /\ cache' = Ring!Dequeue(cache)
      /\ dis' = [pc |-> "serve", msg |-> m, todo |-> todo]
      /\ UNCHANGED <<config, process_steps, src, cancelled, con, accepted, channels, ch>>
  BY DEF DispatchTake, DisFrame, control
<1>2. /\ HoldsMessages(cache) /\ HoldsMessages(cache') /\ m \in Messages
      /\ Ring!Contents(cache) = <<m>> \o Ring!Contents(cache')
      /\ Ring!Contents(cache') \in Seq(Messages) /\ Ring!Contents(cache) \in Seq(Messages)
  BY <1>1, RingHolds DEF FlowInv, FlowType
<1>3. /\ todo \in Seq(Channels \cap channels) /\ Distinct(todo)
      /\ \A c \in Channels : Has(todo, c) <=> c \in channels /\ Has(ChannelOrder, c)
  BY OrderDistinct, SelectType, SelectDistinct, SelectMembers
<1>4. todo \in Seq(Channels) /\ \A c \in Channels : Has(ChannelOrder, c)
  BY <1>3, OrderDistinct, RangeHas DEF Channels
<1> HIDE DEF todo, m
<1>5. dis'.pc = "serve" /\ dis'.msg = m /\ dis'.todo = todo
  BY <1>1
<1>6. HoldsMessages(cache)'
  BY <1>2
<1>7. FlowType'
  BY <1>1, <1>6 DEF FlowInv, FlowType
<1>8. ASSUME NEW c \in Channels PROVE Delivered(c)'
  <2>1. c \in channels => StillToServe(c)' = StillToServe(c)
    <3>1. dis.todo = <<>> /\ c \notin Range(dis.todo)
      BY <1>1 DEF FlowInv, LoopShape, Range
    <3>2. StillToServe(c) = Ring!Contents(cache)
      BY <1>2, <3>1 DEF StillToServe
    <3>3. c \in channels => c \in Range(todo)
      BY <1>3, <1>4, RangeHas
    <3>4. c \in channels => StillToServe(c)' = <<m>> \o Ring!Contents(cache')
      BY <1>5, <3>3 DEF StillToServe
    <3>5. QED BY <1>2, <3>2, <3>4
  <2>2. Had(c)' = Had(c)
    BY <1>1 DEF Had
  <2>3. c \in channels => Wanted(c, StillToServe(c))' = Wanted(c, StillToServe(c))
    BY <1>1, <2>1, SameWanted
  <2>4. QED BY <1>1, <2>2, <2>3, Untouched
<1>9. Delivery'
  BY <1>8 DEF Delivery, Delivered
<1>10. LoopShape' /\ NothingYet'
  <2>1. Ring!Contents(cache) # <<>>
    BY <1>2
  <2>2. QED BY <1>1, <1>2, <1>3, <1>4, <1>5, <2>1 DEF FlowInv, LoopShape, NothingYet
<1>11. ServesRegistered'
  BY <1>1, <1>3, <1>5 DEF FlowInv, ServesRegistered, WakesToItsChannels
<1>12. QED BY <1>7, <1>9, <1>10, <1>11

\* The channel being served is one of the first, and is registered.
LEMMA ServedChannel ==
  ASSUME FlowInv, NEW c \in Channels, Serving(c)
  PROVE  /\ dis.pc \in {"serve", "full"} /\ dis.msg \in Messages
         /\ \A d \in Channels : Has(dis.todo, d) => d \in channels
         /\ Tail(dis.todo) \in Seq(Channels) /\ Distinct(Tail(dis.todo))
         /\ \A d \in Channels : Has(dis.todo, d) <=> d = c \/ Has(Tail(dis.todo), d)
         /\ ~Has(Tail(dis.todo), c) /\ c \in channels
<1>1. /\ dis.pc \in {"serve", "full"} /\ dis.todo # <<>> /\ c = Head(dis.todo)
      /\ dis.pc = "full" => "dispatch" \notin cancelled
  BY DEF Serving
<1>2. dis.msg \in Messages /\ dis.todo \in Seq(Channels) /\ Distinct(dis.todo)
  BY <1>1 DEF FlowInv, LoopShape
<1>3. \A d \in Channels : Has(dis.todo, d) => d \in channels
  BY <1>1, <1>2, ServesRange DEF FlowInv, ServesRegistered, WakesToItsChannels
<1>4. QED BY <1>1, <1>2, <1>3, HeadApart

\* c is through with the message; the others have what they had.
LEMMA Served ==
  ASSUME FlowInv, NEW c \in Channels, Serving(c), NextChannel,
         UNCHANGED <<config, process_steps, src, cancelled, cache, con, accepted>>,
         channels' \subseteq channels, \A d \in channels : d # c => d \in channels',
         \A d \in Channels : ch'[d].queue \in Seq(Messages) /\ (d # c => ch'[d].queue = ch[d].queue),
         Delivered(c)'
  PROVE  LoopShape' /\ FlowType' /\ ServesRegistered' /\ NothingYet' /\ Delivery'
<1> DEFINE rest == Tail(dis.todo)
<1>1. dis' = [pc |-> "serve", msg |-> dis.msg, todo |-> rest]
  BY DEF NextChannel, FlowInv, LoopShape
<1>2. /\ dis.pc \in {"serve", "full"} /\ dis.msg \in Messages
      /\ \A d \in Channels : Has(dis.todo, d) => d \in channels
      /\ rest \in Seq(Channels) /\ Distinct(rest) /\ ~Has(rest, c)
      /\ \A d \in Channels : Has(dis.todo, d) <=> d = c \/ Has(rest, d)
  BY ServedChannel
<1> HIDE DEF rest
<1>3. dis'.pc = "serve" /\ dis'.msg = dis.msg /\ dis'.todo = rest
  BY <1>1
<1>4. LoopShape' /\ NothingYet'
  BY <1>1, <1>2, <1>3 DEF FlowInv, LoopShape, NothingYet
<1>5. ServesRegistered'
  BY <1>2, <1>3 DEF FlowInv, ServesRegistered, WakesToItsChannels
<1>6. HoldsMessages(cache)'
  BY DEF FlowInv, FlowType
<1>7. FlowType'
  BY <1>6 DEF FlowInv, FlowType
<1>8. ASSUME NEW d \in Channels, d # c PROVE Delivered(d)'
  <2>1. d \in Range(dis'.todo) <=> d \in Range(dis.todo)
    BY <1>2, <1>3, <1>8, RangeHas DEF FlowInv, LoopShape
  <2>2. StillToServe(d)' = StillToServe(d)
    BY <1>3, <2>1 DEF StillToServe
  <2>3. Wanted(d, StillToServe(d))' = Wanted(d, StillToServe(d))
    BY <2>2, SameWanted
  <2>4. Had(d)' = Had(d)
    BY <1>8 DEF Had
  <2>5. QED BY <2>3, <2>4, Untouched
<1>9. Delivery'
  BY <1>8 DEF Delivery, Delivered
<1>10. QED BY <1>4, <1>5, <1>7, <1>9

\* What the channel being served has before it, and after its turn.
LEMMA Turn ==
  ASSUME FlowInv, NEW c \in Channels, Serving(c), NextChannel,
         UNCHANGED <<process_steps, cache, accepted>>
  PROVE  /\ Had(c) \in Seq(Messages) /\ Wanted(c, <<dis.msg>>) \in Seq(Messages)
         /\ Wanted(c, StillToServe(c))' \in Seq(Messages)
         /\ (Had(c) \o Wanted(c, <<dis.msg>>)) \o Wanted(c, StillToServe(c))' = Wanted(c, accepted)'
         /\ Wanted(c, <<dis.msg>>) = IF dis.msg \in WantedMessages(c) THEN <<dis.msg>> ELSE <<>>
<1> DEFINE held == Ring!Contents(cache)
<1>1. /\ dis.msg \in Messages /\ Has(dis.todo, c) /\ c \in channels
      /\ Tail(dis.todo) \in Seq(Channels) /\ ~Has(Tail(dis.todo), c) /\ dis.todo \in Seq(Channels)
  BY ServedChannel DEF FlowInv, LoopShape
<1>2. dis'.msg = dis.msg /\ dis'.todo = Tail(dis.todo)
  BY DEF NextChannel, FlowInv, LoopShape
<1>3. <<dis.msg>> \in Seq(Messages) /\ held \in Seq(Messages) /\ cache' = cache
  <2>1. held \in Seq(Messages)
    BY RingHolds DEF FlowInv, FlowType
  <2>2. QED BY <1>1, <2>1
<1>4. StillToServe(c) = <<dis.msg>> \o held
  BY <1>1, RangeHas DEF StillToServe
<1>5. StillToServe(c)' = held
  <2>1. c \notin Range(dis'.todo)
    BY <1>1, <1>2, RangeHas
  <2>2. QED BY <1>3, <2>1 DEF StillToServe
<1> HIDE DEF held
<1>6. Wanted(c, StillToServe(c)) = Wanted(c, <<dis.msg>>) \o Wanted(c, held)
  BY <1>3, <1>4, WantedConcat
<1>7. Wanted(c, StillToServe(c))' = Wanted(c, held)
  BY <1>5, SameWanted
<1>8. Wanted(c, accepted)' = Wanted(c, accepted)
  BY SameWanted
<1>9. Had(c) \o Wanted(c, StillToServe(c)) = Wanted(c, accepted)
  BY <1>1 DEF FlowInv, Delivery
<1>10. Had(c) \in Seq(Messages)
  BY FlowSeqs DEF FlowInv, Inv
<1>11. Wanted(c, <<dis.msg>>) \in Seq(Messages) /\ Wanted(c, held) \in Seq(Messages)
  BY <1>3, WantedSeq
<1>12. (Had(c) \o Wanted(c, <<dis.msg>>)) \o Wanted(c, held) = Wanted(c, accepted)'
  <2>1. (Had(c) \o Wanted(c, <<dis.msg>>)) \o Wanted(c, held)
          = Had(c) \o (Wanted(c, <<dis.msg>>) \o Wanted(c, held))
    BY <1>10, <1>11, ConcatApart
  <2>2. QED BY <1>6, <1>8, <1>9, <2>1
<1>13. QED BY <1>1, <1>7, <1>10, <1>11, <1>12, WantedOne

\* c has had the message if it wants it.
LEMMA TurnDelivers ==
  ASSUME FlowInv, NEW c \in Channels, Serving(c), NextChannel,
         UNCHANGED <<process_steps, cache, accepted>>,
         channels' = channels, Had(c)' = Had(c) \o Wanted(c, <<dis.msg>>)
  PROVE  Delivered(c)'
<1>1. (Had(c) \o Wanted(c, <<dis.msg>>)) \o Wanted(c, StillToServe(c))' = Wanted(c, accepted)'
  BY Turn
<1>2. c \in channels'
  BY ServedChannel
<1>3. QED BY <1>1, <1>2 DEF Delivered

LEMMA SkipStep ==
  ASSUME FlowInv, NEW c \in Channels, ServeSkip(c)
  PROVE  LoopShape' /\ FlowType' /\ ServesRegistered' /\ NothingYet' /\ Delivery'
<1>1. /\ Serving(c) /\ Skips(dis.msg, c) /\ NextChannel
      /\ UNCHANGED <<config, process_steps, src, cancelled, cache, con, accepted, channels, ch>>
  BY DEF ServeSkip, DisFrame, control
<1>2. dis.msg \notin WantedMessages(c)
  BY <1>1 DEF Skips, WantedMessages
<1>3. Had(c) \in Seq(Messages) /\ Wanted(c, <<dis.msg>>) = <<>> /\ Had(c)' = Had(c)
  BY <1>1, <1>2, Turn DEF Had
<1>4. Had(c)' = Had(c) \o Wanted(c, <<dis.msg>>)
  BY <1>3
<1>5. \A d \in Channels : ch'[d].queue \in Seq(Messages) /\ ch'[d].queue = ch[d].queue
  BY <1>1 DEF FlowInv, FlowType
<1>6. Delivered(c)'
  BY <1>1, <1>4, TurnDelivers
<1>7. QED BY <1>1, <1>5, <1>6, Served

LEMMA PutDelivers ==
  ASSUME FlowInv, NEW c \in Channels, ServePut(c)
  PROVE  LoopShape' /\ FlowType' /\ ServesRegistered' /\ NothingYet' /\ Delivery'
<1>1. /\ Serving(c) /\ ~Skips(dis.msg, c) /\ ~Raises(dis.msg, c) /\ NextChannel
      /\ ch' = [ch EXCEPT ![c].queue = Append(ch[c].queue, dis.msg)]
      /\ UNCHANGED <<config, process_steps, src, cancelled, cache, con, accepted, channels>>
  BY DEF ServePut, DisFrame, control
<1>2. dis.msg \in Messages /\ dis.msg \in WantedMessages(c)
  <2>1. dis.msg \in Messages /\ dis.msg.image \in BOOLEAN
    <3>1. dis.msg \in Messages
      BY <1>1, ServedChannel
    <3>2. \A i \in 1 .. Len(Media) : Media[i].image \in BOOLEAN
      <4>1. \A T : Media \in Seq(T) => \A i \in 1 .. Len(Media) : Media[i] \in T
        OBVIOUS
      <4>2. \A i \in 1 .. Len(Media) : Media[i] \in [id: Nat, image: BOOLEAN, last: BOOLEAN]
        BY <4>1, MediaAssumption
      <4>3. QED BY <4>2
    <3>3. PICK i \in 1 .. Len(Media) : dis.msg = Media[i]
      BY <3>1, MediaAssumption DEF Messages, Range
    <3>4. QED BY <3>1, <3>2, <3>3
  <2>2. process_steps[c] \in Int
    BY DEF FlowInv, FlowType
  <2>3. QED BY <1>1, <2>1, <2>2 DEF Skips, Raises, WantedMessages
<1>3. Wanted(c, <<dis.msg>>) = <<dis.msg>>
  BY <1>1, <1>2, Turn
<1>4. \A d \in Channels : ch[d].queue \in Seq(Messages) /\ con[d].got \in Seq(Messages)
  BY DEF FlowInv, FlowType
<1>5. ch'[c].queue = Append(ch[c].queue, dis.msg) /\ \A d \in Channels : d # c => ch'[d].queue = ch[d].queue
  <2>1. ch' = [ch EXCEPT ![c] = [queue |-> Append(ch[c].queue, dis.msg),
                                 mark_closed |-> ch[c].mark_closed, closed |-> ch[c].closed]]
    BY <1>1, Fields DEF FlowInv, Inv
  <2>2. QED BY <2>1 DEF FlowInv, Inv, Shape
<1>6. \A d \in Channels : ch'[d].queue \in Seq(Messages)
  <2>1. Append(ch[c].queue, dis.msg) \in Seq(Messages)
    BY <1>2, <1>4
  <2>2. QED BY <1>4, <1>5, <2>1
<1>7. Had(c)' = Had(c) \o Wanted(c, <<dis.msg>>)
  <2> DEFINE got == con[c].got
             queue == ch[c].queue
  <2>1. got \in Seq(Messages) /\ queue \in Seq(Messages)
    BY <1>4
  <2>2. Had(c) = got \o queue /\ Had(c)' = got \o Append(queue, dis.msg)
    BY <1>1, <1>5 DEF Had
  <2> HIDE DEF got, queue
  <2>3. got \o Append(queue, dis.msg) = (got \o queue) \o <<dis.msg>>
    BY <1>2, <2>1
  <2>4. QED BY <1>3, <2>2, <2>3
<1>8. Delivered(c)'
  BY <1>1, <1>7, TurnDelivers
<1>9. QED BY <1>1, <1>5, <1>6, <1>8, Served

LEMMA GoneStep ==
  ASSUME FlowInv, NEW c \in Channels, ServeGone(c)
  PROVE  LoopShape' /\ FlowType' /\ ServesRegistered' /\ NothingYet' /\ Delivery'
<1>1. /\ Serving(c) /\ NextChannel /\ ch' = MarkClosed({c}) /\ channels' = channels \ {c}
      /\ UNCHANGED <<config, process_steps, src, cancelled, cache, con, accepted>>
  BY DEF ServeGone, RemoveChannels, DisFrame, control
<1>2. \A d \in Channels : ch'[d].queue \in Seq(Messages) /\ ch'[d].queue = ch[d].queue
  BY <1>1, MarkEffect DEF FlowInv, FlowType, Inv
<1>3. Delivered(c)'
  <2>1. Had(c)' = Had(c)
    BY <1>1, <1>2 DEF Had
  <2>2. QED BY <1>1, <2>1, Untouched
<1>4. QED BY <1>1, <1>2, <1>3, Served

LEMMA RaiseStep ==
  ASSUME FlowInv, NEW c \in Channels, ServeRaises(c)
  PROVE  LoopShape' /\ FlowType' /\ ServesRegistered' /\ NothingYet' /\ Delivery'
<1>1. /\ dis' = Idle("ended") /\ StopAll
      /\ UNCHANGED <<config, process_steps, src, cache, con, accepted>>
  BY DEF ServeRaises, DispatchEnds, DisFrame
<1>2. FlowType' /\ Delivery' /\ channels' = {}
  BY <1>1, StopAllStill
<1>3. dis' = [pc |-> "ended", msg |-> NoMsg, todo |-> <<>>] /\ dis'.pc = "ended" /\ dis'.todo = <<>>
  BY <1>1 DEF Idle
<1>4. Distinct(<<>>)
  BY DEF Distinct
<1>5. LoopShape' /\ NothingYet'
  <2>1. <<>> \in Seq(Channels) /\ dis'.msg = NoMsg /\ src' = src
    BY <1>1, <1>3
  <2>2. LoopShape'
    BY <1>3, <1>4, <2>1 DEF FlowInv, LoopShape
  <2>3. NothingYet'
    BY <1>1, <1>3 DEF FlowInv, NothingYet
  <2>4. QED BY <2>2, <2>3
<1>6. ServesRegistered'
  BY <1>2, <1>3 DEF ServesRegistered, WakesToItsChannels
<1>7. QED BY <1>2, <1>5, <1>6

LEMMA BlockedStep ==
  ASSUME FlowInv, NEW c \in Channels, ServeBlocked(c)
  PROVE  LoopShape' /\ FlowType' /\ ServesRegistered' /\ NothingYet' /\ Delivery'
<1>1. /\ dis.pc = "serve" /\ dis' = [dis EXCEPT !.pc = "full"]
      /\ UNCHANGED <<config, process_steps, src, cancelled, cache, con, accepted, channels, ch>>
  BY DEF ServeBlocked, DisFrame, control
<1>2. dis' = [pc |-> "full", msg |-> dis.msg, todo |-> dis.todo]
  BY <1>1 DEF FlowInv, LoopShape
<1>3. dis'.pc = "full" /\ dis'.msg = dis.msg /\ dis'.todo = dis.todo
  BY <1>2
<1>4. FlowType' /\ Delivery'
  BY <1>1, <1>3, StillSame DEF Still
<1>5. LoopShape' /\ NothingYet'
  BY <1>1, <1>2, <1>3 DEF FlowInv, LoopShape, NothingYet
<1>6. ServesRegistered'
  <2>1. Range(dis.todo) \subseteq channels
    BY <1>1, ServesRange DEF FlowInv, ServesRegistered, LoopShape
  <2>2. QED BY <1>1, <1>3, <2>1 DEF FlowInv, ServesRegistered, WakesToItsChannels
<1>7. QED BY <1>4, <1>5, <1>6

LEMMA DispatchStep ==
  ASSUME FlowInv, Dispatch
  PROVE  LoopShape' /\ FlowType' /\ ServesRegistered' /\ NothingYet' /\ Delivery'
<1>1. CASE DispatchStart
  <2>1. /\ dis.pc = "new" /\ dis' = Idle("poll")
        /\ UNCHANGED <<config, process_steps, src, cancelled, cache, con, accepted, channels, ch>>
    BY <1>1 DEF DispatchStart, DisFrame, control
  <2>2. dis.todo = <<>>
    BY <2>1 DEF FlowInv, LoopShape
  <2>3. QED BY <2>1, <2>2, DispatchIdles
<1>2. CASE DispatchStops
  <2>1. /\ dis' = Idle("ended") /\ (dis.pc \in {"new", "poll"} \/ "dispatch" \in cancelled)
        /\ UNCHANGED <<config, process_steps, src, cancelled, cache, con, accepted, channels, ch>>
    BY <1>2 DEF DispatchStops, DispatchEnds, DisFrame, control
  <2>2. dis.todo = <<>> \/ channels = {}
    BY <2>1 DEF FlowInv, LoopShape, ServesRegistered
  <2>3. "ended" \in {"new", "poll", "ended"}
    OBVIOUS
  <2>4. QED BY <2>1, <2>2, <2>3, DispatchIdles
<1>3. CASE DispatchDone
  <2>1. /\ dis.todo = <<>> /\ \E p \in {"new", "poll", "ended"} : dis' = Idle(p)
        /\ UNCHANGED <<config, process_steps, src, cancelled, cache, con, accepted>>
        /\ UNCHANGED <<channels, ch>> \/ RemoveChannels(channels)
    BY <1>3 DEF DispatchDone, DispatchEnds, DisFrame, control
  <2>2. QED BY <2>1, DispatchIdles
<1>4. QED BY <1>1, <1>2, <1>3, TakeStep, SkipStep, PutDelivers, BlockedStep, GoneStep, RaiseStep DEF Dispatch

-----------------------------------------------------------------------------
(* Steps of the readers *)

\* A reader takes the first of its queue: it has had the same.
LEMMA GetStep ==
  ASSUME FlowInv, NEW c \in Channels, Get(c)
  PROVE  FlowType' /\ Delivery'
<1>1. /\ ch[c].queue # <<>>
      /\ con' = [con EXCEPT ![c] = [pc |-> "busy", got |-> Append(con[c].got, Head(ch[c].queue))]]
      /\ ch' = [ch EXCEPT ![c].queue = Tail(ch[c].queue)]
      /\ UNCHANGED <<config, process_steps, dis, cache, channels, accepted>>
  BY DEF Get, ConFrame, FlowInv, Inv, Shape
<1>2. \A d \in Channels : ch[d].queue \in Seq(Messages) /\ con[d].got \in Seq(Messages)
  BY DEF FlowInv, FlowType
<1> DEFINE q == ch[c].queue
           g == con[c].got
<1>3. q \in Seq(Messages) /\ g \in Seq(Messages) /\ q # <<>>
  BY <1>1, <1>2
<1>4. /\ con'[c].got = Append(g, Head(q)) /\ ch'[c].queue = Tail(q)
      /\ \A d \in Channels : d # c => ch'[d].queue = ch[d].queue /\ con'[d].got = con[d].got
  <2>1. ch' = [ch EXCEPT ![c] = [queue |-> Tail(q), mark_closed |-> ch[c].mark_closed,
                                 closed |-> ch[c].closed]]
    BY <1>1, Fields DEF FlowInv, Inv
  <2>2. QED BY <1>1, <2>1 DEF FlowInv, Inv, Shape
<1>5. Had(c)' = Append(g, Head(q)) \o Tail(q) /\ Had(c) = g \o q
  BY <1>4 DEF Had
<1> HIDE DEF q, g
<1>6. /\ Head(q) \in Messages /\ Tail(q) \in Seq(Messages) /\ q = <<Head(q)>> \o Tail(q)
      /\ Append(g, Head(q)) = g \o <<Head(q)>> /\ <<Head(q)>> \in Seq(Messages)
  BY <1>3, HeadApart
<1>7. Had(c)' = Had(c)
  BY <1>3, <1>5, <1>6, ConcatApart
<1>8. FlowType'
  <2>1. Append(g, Head(q)) \in Seq(Messages)
    BY <1>3, <1>6
  <2>2. \A d \in Channels : ch'[d].queue \in Seq(Messages) /\ con'[d].got \in Seq(Messages)
    BY <1>2, <1>4, <1>6, <2>1
  <2>3. HoldsMessages(cache)'
    BY <1>1 DEF FlowInv, FlowType
  <2>4. QED BY <1>1, <2>2, <2>3 DEF FlowInv, FlowType
<1>9. ASSUME NEW d \in Channels PROVE Delivered(d)'
  <2>1. Had(d)' = Had(d)
    <3>1. d # c => Had(d)' = Had(d)
      BY <1>4 DEF Had
    <3>2. QED BY <1>7, <3>1
  <2>2. StillToServe(d)' = StillToServe(d)
    BY <1>1 DEF StillToServe
  <2>3. Wanted(d, StillToServe(d))' = Wanted(d, StillToServe(d))
    BY <1>1, <2>2, SameWanted
  <2>4. QED BY <1>1, <2>1, <2>3, Untouched
<1>10. QED BY <1>8, <1>9 DEF Delivery, Delivered

LEMMA ReaderKeeps ==
  ASSUME FlowInv, NEW c \in Channels,
         \/ Get(c) \/ TestMark(c) \/ GetTimeout(c) \/ Process(c) \/ Leave(c) \/ Fail(c)
         \/ MarkSiblings(c) \/ CleanUp(c)
  PROVE  LoopShape' /\ FlowType' /\ ServesRegistered' /\ NothingYet' /\ Delivery'
<1>1. UNCHANGED <<config, process_steps, src, dis, cancelled, cache, channels, accepted>>
  BY DEF Get, TestMark, GetTimeout, Process, Leave, Fail, MarkSiblings, CleanUp, ConFrame, control
<1>2. LoopShape' /\ ServesRegistered' /\ NothingYet'
  BY <1>1 DEF FlowInv, LoopShape, ServesRegistered, WakesToItsChannels, NothingYet
<1>3. ASSUME NEW p, ConGoto(c, p) PROVE \A d \in Channels : con'[d].got = con[d].got
  <2>1. con' = [con EXCEPT ![c] = [pc |-> p, got |-> con[c].got]]
    BY <1>3, Fields DEF ConGoto, FlowInv, Inv
  <2>2. QED BY <2>1 DEF FlowInv, Inv, Shape
<1>4. ASSUME UNCHANGED ch \/ ch' = [ch EXCEPT ![c].closed = TRUE]
                \/ \E d \in Channels : ch' = MarkClosed({d})
      PROVE  \A d \in Channels : ch'[d].queue = ch[d].queue
  <2>1. CASE ch' = [ch EXCEPT ![c].closed = TRUE]
    <3>1. ch' = [ch EXCEPT ![c] = [queue |-> ch[c].queue, mark_closed |-> ch[c].mark_closed,
                                   closed |-> TRUE]]
      BY <2>1, Fields DEF FlowInv, Inv
    <3>2. QED BY <3>1 DEF FlowInv, Inv, Shape
  <2>2. CASE \E d \in Channels : ch' = MarkClosed({d})
    BY <2>2, MarkEffect DEF FlowInv, Inv
  <2>3. QED BY <1>4, <2>1, <2>2
<1>5. CASE ~Get(c)
  <2>1. \A d \in Channels : con'[d].got = con[d].got
    BY <1>3, <1>5 DEF TestMark, GetTimeout, Process, Leave, Fail, MarkSiblings, CleanUp
  <2>2. \A d \in Channels : ch'[d].queue = ch[d].queue
    <3>1. config.subtitle \subseteq Channels
      BY DEF FlowInv, Inv, Shape
    <3>2. QED BY <1>4, <1>5, <3>1 DEF TestMark, GetTimeout, Process, Leave, Fail, MarkSiblings, CleanUp
  <2>3. Still
    BY <1>1, <2>1, <2>2 DEF Still
  <2>4. QED BY <1>1, <1>2, <2>3, StillSame
<1>6. QED BY <1>2, <1>5, GetStep

-----------------------------------------------------------------------------
(* The invariant *)

LEMMA InitFlow == Init => FlowInv
<1> SUFFICES ASSUME Init PROVE FlowInv
  OBVIOUS
<1>1. Inv
  BY InitInv
<1>2. Distinct(<<>>)
  BY DEF Distinct
<1>3. 1 \in 1 .. Len(Media)
  BY MediaAssumption
<1>4. LoopShape
  BY <1>2, <1>3 DEF Init, LoopShape
<1>5. HoldsMessages(cache) /\ Ring!Contents(cache) = <<>>
  BY RingStarts DEF Init
<1>6. FlowType
  <2>1. <<>> \in Seq(Messages) /\ -1 \in Int
    OBVIOUS
  <2>2. \A c \in Channels : ch[c].queue = <<>> /\ con[c].got = <<>>
    BY DEF Init
  <2>3. config \in Configs /\ accepted = <<>> /\ process_steps = [c \in Channels |-> -1]
    BY DEF Init
  <2>4. QED BY <1>5, <2>1, <2>2, <2>3 DEF FlowType
<1>7. ServesRegistered /\ NothingYet
  BY <1>5 DEF Init, ServesRegistered, WakesToItsChannels, NothingYet
<1>8. Delivery
  <2>1. ASSUME NEW c \in Channels PROVE c \in channels /\ Had(c) = <<>> /\ StillToServe(c) = <<>>
    BY <1>5 DEF Init, Had, StillToServe, Range
  <2>2. accepted = <<>>
    BY DEF Init
  <2>3. <<>> \o <<>> = <<>>
    OBVIOUS
  <2>4. ASSUME NEW c \in Channels
        PROVE  c \in channels /\ Had(c) \o Wanted(c, StillToServe(c)) = Wanted(c, accepted)
    BY <2>1, <2>2, <2>3, WantedNone
  <2>5. QED BY <2>4 DEF Delivery
<1>9. QED BY <1>1, <1>4, <1>6, <1>7, <1>8 DEF FlowInv

LEMMA StepFlow == FlowInv /\ [Next]_vars => FlowInv'
<1> SUFFICES ASSUME FlowInv, [Next]_vars PROVE FlowInv'
  OBVIOUS
<1> DEFINE Good == LoopShape' /\ FlowType' /\ ServesRegistered' /\ NothingYet' /\ Delivery'
<1>1. Inv'
  BY StepInv DEF FlowInv
<1>2. CASE ForceStop
  <2>1. /\ dis.pc # "serve" /\ StopAll
        /\ UNCHANGED <<config, process_steps, src, dis, accepted, cache, con>>
    BY <1>2 DEF ForceStop, LoopFree
  <2>2. src' = [src EXCEPT !.pc = src.pc]
    BY <2>1 DEF FlowInv, LoopShape
  <2>3. QED BY <1>1, <2>1, <2>2, StopAllStep DEF FlowInv
<1>3. CASE UNCHANGED vars
  <2>1. FlowType' /\ Delivery'
    BY <1>3, StillSame DEF Still, vars
  <2>2. LoopShape' /\ ServesRegistered' /\ NothingYet'
    BY <1>3 DEF vars, FlowInv, LoopShape, ServesRegistered, WakesToItsChannels, NothingYet
  <2>3. QED BY <1>1, <2>1, <2>2 DEF FlowInv
<1>4. CASE Stream \/ StreamFaults \/ Dispatch
  BY <1>1, <1>4, StreamStep, DispatchStep DEF FlowInv
<1>5. CASE \E c \in Channels : \/ Read(c) \/ Process(c) \/ Leave(c) \/ Fail(c)
                               \/ MarkSiblings(c) \/ CleanUp(c)
  BY <1>1, <1>5, ReaderKeeps DEF FlowInv, Read
<1>6. QED BY <1>2, <1>3, <1>4, <1>5 DEF Next

\* For any number of channels, any media, frame rates, faults and sizes: from the ring to the
\* modules no message a channel wants is lost, doubled or reordered while it is registered.
THEOREM DeliversInOrder == Spec => []Delivery
<1>1. FlowInv => Delivery
  BY DEF FlowInv
<1>2. QED BY <1>1, InitFlow, StepFlow, PTL DEF Spec

\* For any number of channels and any faults: the dispatch loop wakes from a full queue to
\* channels that are still registered, or to its own cancellation.
THEOREM WakesSafely == Spec => []WakesToItsChannels
<1>1. FlowInv => WakesToItsChannels
  BY DEF FlowInv, ServesRegistered
<1>2. QED BY <1>1, InitFlow, StepFlow, PTL DEF Spec
=============================================================================
