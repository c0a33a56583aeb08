--------------------------- MODULE EventCollector ---------------------------
(***************************************************************************)
(* EventCollector of interfaces/events/event_factory.py: a ring behind a   *)
(* lock.  Module threads put, any thread may consume; consume_some_events  *)
(* keeps the lock over all of its dequeues, put over its three calls.      *)
(***************************************************************************)
EXTENDS CircularQueue, FiniteSets

CONSTANTS Events,   \* what can be put; none of them is NoItem
          Limit     \* of one consume_some_events

ASSUME EventAssumption == NoItem \notin Events /\ Limit \in Nat \ {0}

VARIABLES ring,       \* cache_events
          consuming,  \* a thread holds the lock inside consume_some_events
          ret,        \* that thread's list, or what the last one returned
          last        \* history: the event put last

vars == <<ring, consuming, ret, last>>

Init == ring = EmptyRing /\ consuming = FALSE /\ ret = <<>> /\ last = NoItem

MakeRoom_Forgets(r) == r

(* A full ring gives up its oldest event first. *)
MakeRoom(r) == IF IsFull(r) THEN Dequeue(r) ELSE r

Put(e) ==
    /\ ~consuming /\ last' = e
    /\ ring' = Enqueue(MakeRoom(ring), e)
    /\ UNCHANGED <<consuming, ret>>

ConsumeBegin ==
    /\ ~consuming
    /\ consuming' = TRUE /\ ret' = <<>>
    /\ UNCHANGED <<ring, last>>

(* One turn of the loop; the None of an empty ring ends it. *)
ConsumeOne ==
    /\ consuming /\ Len(ret) < Limit /\ First(ring) # NoItem
    /\ ret' = Append(ret, First(ring))
    /\ ring' = Dequeue(ring)
    /\ UNCHANGED <<consuming, last>>

ConsumeEnd ==
    /\ consuming /\ (Len(ret) = Limit \/ First(ring) = NoItem)
    /\ consuming' = FALSE
    /\ UNCHANGED <<ring, ret, last>>

Next == (\E e \in Events : Put(e)) \/ ConsumeBegin \/ ConsumeOne \/ ConsumeEnd

Spec == Init /\ [][Next]_vars

-----------------------------------------------------------------------------

(* Types, and what the fields of the ring owe each other: front and rear   *)
(* are -1 together, and no slot between them is still unused.              *)
TypeOK ==
    /\ ring \in RingType(Events) /\ Consistent(ring)
    /\ consuming \in BOOLEAN /\ ret \in Seq(Events)
    /\ Contents(ring) \in Seq(Events) /\ last \in Events \union {NoItem}

(* The collector implements the bounded queue that drops its oldest event  *)
(* when full and only then (put, consume_some_events).                     *)
Queue == INSTANCE EventQueue
    WITH pending <- Contents(ring), batch <- ret, taking <- consuming, Capacity <- Size,
         NoEvent <- NoItem

ImplementsQueue == Queue!Spec
=============================================================================
