------------------------ MODULE EventCollector_proofs ------------------------
(***************************************************************************)
(* The ring holds a first-in-first-out queue whatever its size, and the    *)
(* event collector on top of it implements the queue that drops its oldest.*)
(***************************************************************************)
EXTENDS EventCollector, SequenceTheorems, TLAPS

(* A ring that is well formed: the part of TypeOK that speaks of it, item  *)
(* by item.                                                                *)
WellFormed(r) ==
    /\ r \in RingType(Events) /\ Consistent(r)
    /\ \A i \in 1 .. Count(r) : r.queue[SlotOf(r, i)] \in Events

(* The only two cases of the code's modulo. *)
LEMMA NextIndex ==
    ASSUME NEW n \in -1 .. Size - 1
    PROVE  (n + 1) % Size = IF n + 1 < Size THEN n + 1 ELSE 0
  BY SizeAssumption

(* The indices of a well-formed ring, as linear facts. *)
LEMMA Indices ==
    ASSUME NEW r, WellFormed(r)
    PROVE  /\ Size \in Nat /\ Size >= 1
           /\ r.front \in -1 .. Size - 1 /\ r.rear \in -1 .. Size - 1
           /\ r.front = -1 <=> r.rear = -1
           /\ Count(r) \in 0 .. Size
           /\ Count(r) = 0 <=> r.front = -1
           /\ r.front # -1 /\ r.front <= r.rear => Count(r) = r.rear - r.front + 1
           /\ r.rear < r.front => Count(r) = r.rear - r.front + 1 + Size
           /\ \A i \in 1 .. Count(r) : SlotOf(r, i) \in Slots
  BY SizeAssumption DEF WellFormed, RingType, Consistent, Slots, Count, SlotOf, IsEmpty

(* The contents of a well-formed ring are a sequence of events. *)
LEMMA ContentsSeq ==
    ASSUME NEW r, WellFormed(r)
    PROVE  /\ Contents(r) \in Seq(Events)
           /\ Len(Contents(r)) = Count(r)
           /\ \A i \in 1 .. Count(r) : Contents(r)[i] = r.queue[SlotOf(r, i)]
<1>1. Count(r) \in Nat
  BY Indices
<1>2. Contents(r) \in [1 .. Count(r) -> Events]
  BY DEF Contents, WellFormed
<1>3. QED
  BY <1>1, <1>2 DEF Contents

(* A ring is full exactly when it holds Size items. *)
LEMMA FullCount ==
    ASSUME NEW r, WellFormed(r)
    PROVE  IsFull(r) <=> Count(r) = Size
<1>1. (r.rear + 1) % Size = IF r.rear + 1 < Size THEN r.rear + 1 ELSE 0
  BY Indices, NextIndex
<1>2. QED
  BY <1>1, Indices DEF IsFull

(* A ring that is not full takes an item at its end: rear moves to a slot  *)
(* outside the items held, front stays.                                    *)
LEMMA EnqueueAppends ==
    ASSUME NEW r, WellFormed(r), ~IsFull(r), NEW e \in Events
    PROVE  /\ WellFormed(Enqueue(r, e))
           /\ Contents(Enqueue(r, e)) = Append(Contents(r), e)
<1> DEFINE q == Enqueue(r, e)
           n == Count(r)
<1>0. PICK rear \in Slots : rear = IF r.front = -1 THEN 0 ELSE (r.rear + 1) % Size
  BY Indices, NextIndex DEF Slots
<1>1. /\ q = [queue |-> [r.queue EXCEPT ![rear] = e],
              front |-> IF r.front = -1 THEN 0 ELSE r.front, rear |-> rear]
      /\ r.front # -1 => rear = IF r.rear + 1 < Size THEN r.rear + 1 ELSE 0
  BY <1>0, Indices, NextIndex DEF Enqueue, IsEmpty
<1>2. n \in 0 .. Size - 1
  BY FullCount, Indices
<1>3. /\ q.front = (IF r.front = -1 THEN 0 ELSE r.front) /\ q.rear = rear
      /\ q.front \in Slots /\ q.front # -1
  BY <1>1, Indices DEF Slots
<1>4. q \in RingType(Events) /\ Consistent(q)
  BY <1>1, <1>3, Indices DEF WellFormed, RingType, Consistent, Slots
<1>5. Count(q) = n + 1
  <2>1. CASE r.front = -1
    BY <2>1, <1>0, <1>3, Indices DEF Count, IsEmpty
  <2>2. CASE r.front # -1
    <3>1. r.front = q.front /\ q.rear = IF r.rear + 1 < Size THEN r.rear + 1 ELSE 0
      BY <2>2, <1>1, <1>3
    <3>2. Count(q) = IF q.front <= q.rear THEN q.rear - q.front + 1
                                         ELSE q.rear - q.front + 1 + Size
      BY <1>3 DEF Count, IsEmpty
    <3>3. n = IF r.front <= r.rear THEN r.rear - r.front + 1
                                   ELSE r.rear - r.front + 1 + Size
      BY <2>2 DEF Count, IsEmpty
    <3> HIDE DEF q, n
    <3>4. QED
      BY <3>1, <3>2, <3>3, <2>2, <1>2, Indices
  <2>3. QED
    BY <2>1, <2>2
<1>6. /\ \A i \in 1 .. n : SlotOf(q, i) = SlotOf(r, i) /\ SlotOf(r, i) # rear
      /\ SlotOf(q, n + 1) = rear
  <2>1. CASE r.front = -1
    BY <2>1, <1>0, <1>3, Indices DEF SlotOf
  <2>2. CASE r.front # -1
    <3>1. /\ r.front = q.front /\ r.front \in 0 .. Size - 1 /\ r.rear \in 0 .. Size - 1
          /\ rear = IF r.rear + 1 < Size THEN r.rear + 1 ELSE 0
          /\ n = IF r.front <= r.rear THEN r.rear - r.front + 1
                                      ELSE r.rear - r.front + 1 + Size
      BY <2>2, <1>1, <1>3, Indices DEF Count, IsEmpty
    <3> HIDE DEF q, n
    <3>2. QED
      BY <3>1, <1>2, Indices DEF SlotOf
  <2>3. QED
    BY <2>1, <2>2
<1>7. /\ \A i \in 1 .. n : q.queue[SlotOf(q, i)] = r.queue[SlotOf(r, i)]
      /\ q.queue[SlotOf(q, n + 1)] = e
  BY <1>1, <1>6, Indices DEF WellFormed, RingType
<1>8. WellFormed(q)
  <2>1. \A i \in 1 .. n + 1 : q.queue[SlotOf(q, i)] \in Events
    <3> HIDE DEF q, n
    <3>1. \A i \in 1 .. n + 1 : i \in 1 .. n \/ i = n + 1
      BY <1>2
    <3>2. \A i \in 1 .. n : r.queue[SlotOf(r, i)] \in Events
      BY DEF WellFormed, n
    <3>3. QED
      BY <3>1, <3>2, <1>7
  <2>2. QED
    BY <2>1, <1>4, <1>5 DEF WellFormed
<1>9. Contents(q) = Append(Contents(r), e)
  <2>1. /\ Contents(q) \in Seq(Events) /\ Len(Contents(q)) = n + 1
        /\ \A i \in 1 .. n + 1 : Contents(q)[i] = q.queue[SlotOf(q, i)]
    BY <1>8, <1>5, ContentsSeq
  <2>2. /\ Contents(r) \in Seq(Events) /\ Len(Contents(r)) = n
        /\ \A i \in 1 .. n : Contents(r)[i] = r.queue[SlotOf(r, i)]
    BY ContentsSeq
  <2>3. /\ Append(Contents(r), e) \in Seq(Events)
        /\ Len(Append(Contents(r), e)) = n + 1
        /\ \A i \in 1 .. n : Append(Contents(r), e)[i] = Contents(r)[i]
        /\ Append(Contents(r), e)[n + 1] = e
    BY <2>2
  <2> HIDE DEF q, n
  <2>4. \A i \in 1 .. n + 1 : Contents(q)[i] = Append(Contents(r), e)[i]
    BY <2>1, <2>2, <2>3, <1>7, <1>2
  <2>5. QED
    BY <2>1, <2>3, <2>4, SeqEqual
<1>10. QED
  BY <1>8, <1>9

(* A ring that is not empty gives up its first item: front moves on, or    *)
(* both indices return to -1 after the last.                               *)
LEMMA DequeueTakesFirst ==
    ASSUME NEW r, WellFormed(r), ~IsEmpty(r)
    PROVE  /\ WellFormed(Dequeue(r))
           /\ First(r) = Head(Contents(r)) /\ First(r) \in Events
           /\ Contents(Dequeue(r)) = Tail(Contents(r))
<1> DEFINE q == Dequeue(r)
           n == Count(r)
<1>1. /\ r.front \in 0 .. Size - 1 /\ r.rear \in 0 .. Size - 1 /\ n \in 1 .. Size
      /\ n = IF r.front <= r.rear THEN r.rear - r.front + 1
                                  ELSE r.rear - r.front + 1 + Size
  BY Indices DEF IsEmpty, Count
<1>2. PICK next \in Slots : /\ next = (r.front + 1) % Size
                            /\ next = IF r.front + 1 < Size THEN r.front + 1 ELSE 0
  BY NextIndex, Indices, <1>1 DEF Slots
<1>3. /\ q.queue = r.queue
      /\ q.front = IF r.front = r.rear THEN -1 ELSE next
      /\ q.rear = IF r.front = r.rear THEN -1 ELSE r.rear
      /\ q \in RingType(Events) /\ Consistent(q)
  <2>1. /\ r = [queue |-> r.queue, front |-> r.front, rear |-> r.rear]
        /\ r.queue \in [Slots -> Events \union {NoItem}]
    BY DEF WellFormed, RingType
  <2>2. next # -1 /\ r.rear \in Slots /\ r.rear # -1
    BY <1>1, <1>2 DEF Slots
  <2>3. CASE r.front = r.rear
    <3>1. q = [r EXCEPT !.front = -1, !.rear = -1]
      BY <2>3 DEF Dequeue
    <3> HIDE DEF q
    <3>2. q = [queue |-> r.queue, front |-> -1, rear |-> -1]
      BY <3>1, <2>1
    <3>3. QED
      BY <3>2, <2>1, <2>3 DEF RingType, Consistent
  <2>4. CASE r.front # r.rear
    <3>1. q = [r EXCEPT !.front = next]
      BY <2>4, <1>2 DEF Dequeue
    <3> HIDE DEF q
    <3>2. q = [queue |-> r.queue, front |-> next, rear |-> r.rear]
      BY <3>1, <2>1
    <3>3. QED
      BY <3>2, <2>1, <2>2, <2>4 DEF RingType, Consistent
  <2>5. QED
    BY <2>3, <2>4
<1>4. Count(q) = n - 1
  <2> HIDE DEF q, n
  <2>1. CASE r.front = r.rear
    <3>1. q.front = -1 /\ n = 1
      BY <2>1, <1>1, <1>3
    <3>2. QED
      BY <3>1 DEF Count, IsEmpty
  <2>2. CASE r.front # r.rear
    <3>1. /\ q.front = IF r.front + 1 < Size THEN r.front + 1 ELSE 0
          /\ q.rear = r.rear
      BY <2>2, <1>2, <1>3
    <3>2. q.front # -1
      BY <3>1, <1>1
    <3>3. Count(q) = IF q.front <= q.rear THEN q.rear - q.front + 1
                                         ELSE q.rear - q.front + 1 + Size
      BY <3>2 DEF Count, IsEmpty
    <3>4. QED
      BY <3>1, <3>3, <2>2, <1>1, Indices
  <2>3. QED
    BY <2>1, <2>2
<1>5. \A i \in 1 .. n - 1 : SlotOf(q, i) = SlotOf(r, i + 1)
  <2> HIDE DEF q, n
  <2>1. TAKE i \in 1 .. n - 1
  <2>2. r.front # r.rear
    BY <1>1
  <2>3. q.front = IF r.front + 1 < Size THEN r.front + 1 ELSE 0
    BY <2>2, <1>2, <1>3
  <2>4. i \in Nat /\ i + 1 <= Size /\ Size \in Nat
    BY <1>1, SizeAssumption
  <2>5. QED
    BY <2>3, <2>4, <1>1 DEF SlotOf
<1>6. WellFormed(q)
  <2>1. \A i \in 1 .. n - 1 : q.queue[SlotOf(q, i)] \in Events
    <3>1. \A i \in 1 .. n : r.queue[SlotOf(r, i)] \in Events
      BY DEF WellFormed
    <3> HIDE DEF q, n
    <3>2. QED
      BY <3>1, <1>1, <1>3, <1>5
  <2>2. QED
    BY <2>1, <1>3, <1>4 DEF WellFormed
<1>7. /\ Contents(r) \in Seq(Events) /\ Len(Contents(r)) = n
      /\ \A i \in 1 .. n : Contents(r)[i] = r.queue[SlotOf(r, i)]
  BY ContentsSeq
<1>8. First(r) = Head(Contents(r)) /\ First(r) \in Events
  <2>1. First(r) = r.queue[r.front] /\ SlotOf(r, 1) = r.front
    BY <1>1, Indices DEF First, IsEmpty, SlotOf
  <2>2. Head(Contents(r)) = Contents(r)[1] /\ 1 \in 1 .. n
    BY <1>1, <1>7
  <2>3. QED
    BY <2>1, <2>2, <1>7 DEF WellFormed
<1>9. Contents(q) = Tail(Contents(r))
  <2>1. /\ Contents(q) \in Seq(Events) /\ Len(Contents(q)) = n - 1
        /\ \A i \in 1 .. n - 1 : Contents(q)[i] = q.queue[SlotOf(q, i)]
    BY <1>6, <1>4, ContentsSeq
  <2>2. /\ Tail(Contents(r)) \in Seq(Events) /\ Len(Tail(Contents(r))) = n - 1
        /\ \A i \in 1 .. n - 1 : Tail(Contents(r))[i] = Contents(r)[i + 1]
    <3>1. Contents(r) # <<>>
      BY <1>1, <1>7
    <3>2. QED
      BY <3>1, <1>7, HeadTailProperties
  <2> HIDE DEF q, n
  <2>3. \A i \in 1 .. n - 1 : Contents(q)[i] = Tail(Contents(r))[i]
    <3>1. TAKE i \in 1 .. n - 1
    <3>2. i + 1 \in 1 .. n
      BY <1>1
    <3>3. Contents(q)[i] = r.queue[SlotOf(r, i + 1)]
      BY <2>1, <1>3, <1>5
    <3>4. QED
      BY <2>2, <3>2, <3>3, <1>7
  <2>4. QED
    BY <2>1, <2>2, <2>3, SeqEqual
<1>10. QED
  BY <1>6, <1>8, <1>9

-----------------------------------------------------------------------------

(* The inductive invariant of the collector. *)
Inv ==
    /\ WellFormed(ring) /\ consuming \in BOOLEAN /\ ret \in Seq(Events)
    /\ last \in Events \union {NoItem}

LEMMA InitInv == Init => Inv /\ Contents(ring) = <<>>
<1> SUFFICES ASSUME Init PROVE Inv /\ Contents(ring) = <<>>
  OBVIOUS
<1>1. ring = EmptyRing /\ consuming = FALSE /\ ret = <<>> /\ last = NoItem
  BY DEF Init
<1>2. ring.front = -1 /\ ring.rear = -1
  BY <1>1 DEF EmptyRing
<1>3. Count(ring) = 0
  BY <1>2 DEF Count, IsEmpty
<1>4. ring \in RingType(Events) /\ Consistent(ring)
  BY <1>1, <1>2 DEF EmptyRing, RingType, Consistent
<1>5. WellFormed(ring)
  BY <1>3, <1>4 DEF WellFormed
<1>6. Contents(ring) = <<>>
  BY <1>3, <1>5, ContentsSeq
<1>7. consuming \in BOOLEAN /\ ret \in Seq(Events) /\ last \in Events \union {NoItem}
  BY <1>1, EmptySeq
<1>8. QED
  BY <1>5, <1>6, <1>7 DEF Inv

(* put: room is made by giving up the oldest event, and only in a full ring. *)
LEMMA PutRing ==
    ASSUME NEW r, WellFormed(r), NEW e \in Events
    PROVE  /\ WellFormed(Enqueue(MakeRoom(r), e))
           /\ Contents(Enqueue(MakeRoom(r), e)) =
                Append(IF Len(Contents(r)) = Size THEN Tail(Contents(r))
                                                  ELSE Contents(r), e)
<1>1. Len(Contents(r)) = Size <=> IsFull(r)
  BY ContentsSeq, FullCount
<1>2. CASE IsFull(r)
  <2>1. ~IsEmpty(r)
    BY <1>2, FullCount, Indices DEF IsEmpty
  <2>2. /\ WellFormed(Dequeue(r)) /\ Contents(Dequeue(r)) = Tail(Contents(r))
    BY <2>1, DequeueTakesFirst
  <2>3. Len(Contents(r)) = Size /\ Contents(r) \in Seq(Events) /\ Size >= 1
    BY <1>1, <1>2, ContentsSeq, Indices
  <2>4. Len(Contents(Dequeue(r))) = Size - 1
    BY <2>2, <2>3, HeadTailProperties
  <2>5. ~IsFull(Dequeue(r))
    BY <2>2, <2>3, <2>4, ContentsSeq, FullCount, SizeAssumption
  <2>6. QED
    BY <1>1, <1>2, <2>2, <2>5, EnqueueAppends DEF MakeRoom
<1>3. CASE ~IsFull(r)
  BY <1>1, <1>3, EnqueueAppends DEF MakeRoom
<1>4. QED
  BY <1>2, <1>3

(* The None of dequeue stands for an empty ring and for nothing else. *)
LEMMA NoneMeansEmpty ==
    ASSUME NEW r, WellFormed(r)
    PROVE  First(r) = NoItem <=> Contents(r) = <<>>
<1>1. CASE IsEmpty(r)
  <2>1. Count(r) = 0
    BY <1>1 DEF Count
  <2>2. QED
    BY <1>1, <2>1, ContentsSeq DEF First
<1>2. CASE ~IsEmpty(r)
  <2>1. First(r) \in Events
    BY <1>2, DequeueTakesFirst
  <2>2. Len(Contents(r)) # 0
    BY <1>2, ContentsSeq, Indices DEF IsEmpty
  <2>3. QED
    BY <2>1, <2>2, EventAssumption
<1>3. QED
  BY <1>1, <1>2

(* Every step keeps the invariant and is a step of the abstract queue. *)
LEMMA StepInv == Inv /\ [Next]_vars => Inv' /\ [Queue!Next]_(Queue!vars)
<1> SUFFICES ASSUME Inv, [Next]_vars PROVE Inv' /\ [Queue!Next]_(Queue!vars)
  OBVIOUS
<1>0. /\ WellFormed(ring) /\ consuming \in BOOLEAN /\ ret \in Seq(Events)
      /\ last \in Events \union {NoItem}
  BY DEF Inv
<1>1. ASSUME NEW e \in Events, Put(e) PROVE Inv' /\ [Queue!Next]_(Queue!vars)
  <2>1. /\ ~consuming /\ ring' = Enqueue(MakeRoom(ring), e)
        /\ consuming' = consuming /\ ret' = ret /\ last' = e
    BY <1>1 DEF Put
  <2>2. /\ WellFormed(ring')
        /\ Contents(ring') = Append(IF Len(Contents(ring)) = Size
                                     THEN Tail(Contents(ring)) ELSE Contents(ring), e)
    BY <1>0, <2>1, PutRing
  <2>3. Inv'
    BY <1>0, <2>1, <2>2 DEF Inv
  <2>4. Queue!Put(e)
    BY <2>1, <2>2 DEF Queue!Put
  <2>5. QED
    BY <2>3, <2>4 DEF Queue!Next
<1>2. ASSUME ConsumeBegin PROVE Inv' /\ [Queue!Next]_(Queue!vars)
  <2>1. ~consuming /\ consuming' = TRUE /\ ret' = <<>> /\ ring' = ring /\ last' = last
    BY <1>2 DEF ConsumeBegin
  <2>2. Inv'
    BY <1>0, <2>1 DEF Inv
  <2>3. Queue!Begin
    BY <2>1 DEF Queue!Begin
  <2>4. QED
    BY <2>2, <2>3 DEF Queue!Next
<1>3. ASSUME ConsumeOne PROVE Inv' /\ [Queue!Next]_(Queue!vars)
  <2>1. /\ consuming /\ Len(ret) < Limit /\ First(ring) # NoItem
        /\ ret' = Append(ret, First(ring)) /\ ring' = Dequeue(ring)
        /\ consuming' = consuming /\ last' = last
    BY <1>3 DEF ConsumeOne
  <2>2. Contents(ring) # <<>> /\ ~IsEmpty(ring)
    BY <1>0, <2>1, NoneMeansEmpty DEF First
  <2>3. /\ WellFormed(ring') /\ Contents(ring') = Tail(Contents(ring))
        /\ First(ring) = Head(Contents(ring)) /\ First(ring) \in Events
    BY <1>0, <2>1, <2>2, DequeueTakesFirst
  <2>4. Inv'
    BY <1>0, <2>1, <2>3 DEF Inv
  <2>5. Queue!Take
    BY <2>1, <2>2, <2>3 DEF Queue!Take
  <2>6. QED
    BY <2>4, <2>5 DEF Queue!Next
<1>4. ASSUME ConsumeEnd PROVE Inv' /\ [Queue!Next]_(Queue!vars)
  <2>1. /\ consuming /\ (Len(ret) = Limit \/ First(ring) = NoItem)
        /\ consuming' = FALSE /\ ring' = ring /\ ret' = ret /\ last' = last
    BY <1>4 DEF ConsumeEnd
  <2>2. Inv'
    BY <1>0, <2>1 DEF Inv
  <2>3. Contents(ring) = <<>> \/ Len(ret) = Limit
    BY <1>0, <2>1, NoneMeansEmpty
  <2>4. Queue!End
    BY <2>1, <2>3 DEF Queue!End
  <2>5. QED
    BY <2>2, <2>4 DEF Queue!Next
<1>5. CASE UNCHANGED vars
  BY <1>0, <1>5 DEF Inv, vars, Queue!vars
<1>6. QED
  BY <1>1, <1>2, <1>3, <1>4, <1>5 DEF Next

LEMMA Invariance == Spec => []Inv
  BY InitInv, StepInv, PTL DEF Spec

(* Types and the consistency of front, rear and slots hold in every state, *)
(* for every size of the ring and every limit of a batch.                  *)
THEOREM CollectorTypeCorrect == Spec => []TypeOK
<1>1. Inv => TypeOK
  BY ContentsSeq DEF Inv, TypeOK, WellFormed
<1>2. QED
  BY <1>1, Invariance, PTL

(* The collector implements the bounded queue for every size, 1 included:  *)
(* events leave in the order they came, and one is lost only to make room  *)
(* in a full ring.                                                         *)
THEOREM CollectorImplementsQueue == Spec => ImplementsQueue
<1>1. Init => Queue!Init
  BY InitInv DEF Init, Queue!Init
<1>2. QED
  BY <1>1, InitInv, StepInv, PTL DEF Spec, ImplementsQueue, Queue!Spec
=============================================================================
