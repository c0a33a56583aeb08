---------------------------- MODULE CircularQueue ----------------------------
(***************************************************************************)
(* The ring of infrastructure/circular_queue.py as operators on a record   *)
(* with the object's three mutable fields.  The media stream keeps its     *)
(* cache in one, an event collector its events.                            *)
(***************************************************************************)
EXTENDS Integers, Sequences

CONSTANTS Size,     \* number of slots
          NoItem    \* the None a slot holds before its first use

ASSUME SizeAssumption == Size \in Nat \ {0}

Slots == 0 .. Size - 1

EmptyRing == [queue |-> [i \in Slots |-> NoItem], front |-> -1, rear |-> -1]

IsFull(r) == (r.rear + 1) % Size = r.front

IsEmpty(r) == r.front = -1

(* A full ring refuses the item; the caller tests IsFull for the result. *)
Enqueue(r, item) ==
    LET rear == IF IsEmpty(r) THEN 0 ELSE (r.rear + 1) % Size
    IN  IF IsFull(r) THEN r
        ELSE [queue |-> [r.queue EXCEPT ![rear] = item],
              front |-> IF IsEmpty(r) THEN 0 ELSE r.front,
              rear  |-> rear]

(* What dequeue returns, and the ring it leaves.  The slot keeps its item. *)
First(r) == IF IsEmpty(r) THEN NoItem ELSE r.queue[r.front]

Dequeue_KeepsIndices(r) ==
    IF IsEmpty(r) THEN r ELSE [r EXCEPT !.front = (@ + 1) % Size]

Dequeue(r) ==
    IF IsEmpty(r) THEN r
    ELSE IF r.front = r.rear THEN [r EXCEPT !.front = -1, !.rear = -1]
    ELSE [r EXCEPT !.front = (@ + 1) % Size]

-----------------------------------------------------------------------------

(* Abstraction: the items the ring holds, oldest first. *)
Count(r) ==
    IF IsEmpty(r) THEN 0
    ELSE IF r.front <= r.rear THEN r.rear - r.front + 1
    ELSE r.rear - r.front + 1 + Size

SlotOf(r, i) ==
    IF r.front + i - 1 < Size THEN r.front + i - 1 ELSE r.front + i - 1 - Size

Contents(r) == [i \in 1 .. Count(r) |-> r.queue[SlotOf(r, i)]]

RingType(Items) ==
    [queue: [Slots -> Items \union {NoItem}],
     front: Slots \union {-1}, rear: Slots \union {-1}]

(* front and rear are -1 together, and together only. *)
Consistent(r) == r.front = -1 <=> r.rear = -1
=============================================================================
