-------------------------------- MODULE Masks --------------------------------
(***************************************************************************)
(* Which characters of a text have been recognised: masks, as the tracker  *)
(* of subtitle_matching/module.py computes with them.  A mask is a         *)
(* sequence of BOOLEAN; a share of a text is a number of Units.            *)
(***************************************************************************)
EXTENDS Integers, Sequences, SequencesExt, FiniteSets

CONSTANTS
    Unit,      \* a multiple of the lengths that occur, so that shares are exact
    CharGap,   \* 4: more characters than this between two end a match
    Ttl        \* 3: characters _find_longest_text bears with

ASSUME MasksAssumption == Unit \in Nat \ {0} /\ CharGap \in Nat /\ Ttl \in Nat

Ones(mask) == {i \in DOMAIN mask : mask[i]}

Share(n, of) == (n * Unit) \div of

Greater(a, b) == IF a > b THEN a ELSE b

NoMask(n) == [i \in 1 .. n |-> FALSE]

Or(m, n) == [i \in DOMAIN m |-> m[i] \/ n[i]]

(* text[clip:] + text[:clip]: a text that scrolls is seen cut in the middle. *)
Rotated(text, clip) == [i \in DOMAIN text |-> IF i + clip <= Len(text) THEN text[i + clip]
                                              ELSE text[i + clip - Len(text)]]

clip_index(text) == Len(text) \div 2

recover_index(text) == IF Len(text) % 2 = 0 THEN clip_index(text) ELSE clip_index(text) + 1

(* Two recognised characters with at most CharGap others between any two   *)
(* neighbours on the way.                                                  *)
Linked(mask, lo, hi) ==
    /\ {lo, hi} \subseteq Ones(mask) /\ lo < hi
    /\ \A k \in lo .. hi - 1 : \E m \in k + 1 .. k + CharGap + 1 : m <= hi /\ mask[m]

(* The longest such stretch, <<>> when there is none. *)
LongestMatch(mask) ==
    LET pairs == {p \in Ones(mask) \X Ones(mask) : Linked(mask, p[1], p[2])}
    IN  IF pairs = {} THEN <<>>
        ELSE CHOOSE p \in pairs : \A q \in pairs :
               q[2] - q[1] < p[2] - p[1] \/ (q[2] - q[1] = p[2] - p[1] /\ p[2] <= q[2])

(* What is recognised outside of it does not count. *)
Trimmed(mask) ==
    LET match == LongestMatch(mask)
    IN  IF match = <<>> THEN mask
        ELSE [i \in DOMAIN mask |-> mask[i] /\ match[1] <= i /\ i <= match[2]]

(* _find_longest_text: mask[from:to] in Python's terms, so that the last    *)
(* character of the stretch is not in it.                                   *)
find_longest_text(mask) ==
    LET longer(a) == a.end - a.start > a.to - a.from
        kept(a)   == IF longer(a) THEN [a EXCEPT !.from = a.start, !.to = a.end, !.left = a.ttl] ELSE a
        step(a, i) ==
            IF ~a.found
            THEN IF mask[i] THEN [a EXCEPT !.found = TRUE, !.ttl = Ttl, !.start = i - 1, !.end = i - 1]
                 ELSE a
            ELSE IF mask[i] THEN [a EXCEPT !.ttl = Ttl, !.end = @ + 1]
            ELSE IF a.ttl > 0 THEN [a EXCEPT !.ttl = @ - 1, !.end = @ + 1]
            ELSE [kept(a) EXCEPT !.found = FALSE]
        start == [found |-> FALSE, ttl |-> Ttl, start |-> 0, end |-> 0, from |-> 0, to |-> 0, left |-> Ttl]
        end == kept(FoldLeft(step, start, [i \in DOMAIN mask |-> i]))
    IN  [from |-> end.from, to |-> end.to - (Ttl - end.left)]

Confidence(c, n) == [share |-> c, length |-> n]

Measured(mask, r) ==
    [ones |-> Cardinality({i \in Ones(mask) : r.from < i /\ i <= r.to}), size |-> r.to - r.from]

(* The text may also be seen cut in its middle; that share is of all of it. *)
Surer(whole, cut, n) ==
    IF whole.size <= 0 \/ cut.size <= 0 THEN Confidence(0, 0)
    ELSE IF Share(cut.ones, n) > Share(whole.ones, whole.size)
    THEN Confidence(Share(cut.ones, n), cut.size + 1)
    ELSE Confidence(Share(whole.ones, whole.size), whole.size + 1)

calc_confidence(mask) ==
    LET turned == Rotated(mask, clip_index(mask))
    IN  Surer(Measured(mask, find_longest_text(mask)),
              Measured(turned, find_longest_text(turned)), Len(mask))

LongEnough(c, min) == IF c.length < min THEN 0 ELSE c.share

(* How much more of a text is covered with the new mask than without. *)
calc_cover_ratio_diff(origin, recog, full, min) ==
    LET union == Or(origin, recog)
        added == Share(Cardinality(Ones(union)) - Cardinality(Ones(origin)), Len(origin))
    IN  IF full THEN added
        ELSE Greater(LongEnough(calc_confidence(union), min) - LongEnough(calc_confidence(origin), min),
                     added)
=============================================================================
