----------------------------- MODULE MCTracking -----------------------------
(* A small instance of Tracking: three faces and none, three places. *)
EXTENDS Tracking

CONSTANTS ann, bob, cleo, none, left, middle, right

Seen(face, place, body) == [face |-> face, place |-> place, body |-> body]

MCHumans == {Seen(ann, left, left), Seen(bob, middle, Nowhere), Seen(none, Nowhere, left),
             Seen(cleo, right, Nowhere), Seen(ann, middle, Nowhere)}
=============================================================================
