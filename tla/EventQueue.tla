----------------------------- MODULE EventQueue -----------------------------
(***************************************************************************)
(* What an event collector promises: a first-in-first-out queue of at most *)
(* Capacity events that forgets its oldest when a new one finds it full,   *)
(* and from which a consumer takes a batch that nothing is put into.       *)
(***************************************************************************)
EXTENDS Integers, Sequences

CONSTANTS Events, Capacity, Limit, NoEvent

VARIABLES pending,   \* the events held, oldest first
          batch,     \* what the present consumer has taken, or the last one took
          taking,    \* a consumer is at work
          last       \* the event put last: what tells a put from no step at all

vars == <<pending, batch, taking, last>>

Init == pending = <<>> /\ batch = <<>> /\ taking = FALSE /\ last = NoEvent

Put(e) ==
    /\ ~taking /\ last' = e
    /\ pending' = Append(IF Len(pending) = Capacity THEN Tail(pending) ELSE pending, e)
    /\ UNCHANGED <<batch, taking>>

Begin ==
    /\ ~taking
    /\ taking' = TRUE /\ batch' = <<>>
    /\ UNCHANGED <<pending, last>>

Take ==
    /\ taking /\ pending # <<>> /\ Len(batch) < Limit
    /\ batch' = Append(batch, Head(pending)) /\ pending' = Tail(pending)
    /\ UNCHANGED <<taking, last>>

(* A consumer stops at the limit or when nothing is left, not before. *)
End ==
    /\ taking /\ (pending = <<>> \/ Len(batch) = Limit)
    /\ taking' = FALSE
    /\ UNCHANGED <<pending, batch, last>>

Next == (\E e \in Events : Put(e)) \/ Begin \/ Take \/ End

Spec == Init /\ [][Next]_vars
=============================================================================
