------------------------------- MODULE Selection -------------------------------
(***************************************************************************)
(* What a loop over a list keeps of it.                                    *)
(***************************************************************************)
EXTENDS Integers, Sequences

(* The members of s that are in S, in their order. *)
Select(s, S) ==
    LET kept[n \in 0 .. Len(s)] ==
            IF n = 0 THEN <<>>
            ELSE IF s[n] \in S THEN Append(kept[n - 1], s[n]) ELSE kept[n - 1]
    IN  kept[Len(s)]
=============================================================================
