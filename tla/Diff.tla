-------------------------------- MODULE Diff --------------------------------
(***************************************************************************)
(* applications/modules/subtitle_matching/diff.py as subtitle matching     *)
(* uses it: diff_main and what it calls for texts of one line.  A text is  *)
(* a sequence of characters; a diff a sequence of edits.  The deadline is  *)
(* a number of rounds: the search for a middle looks at the clock once a   *)
(* round, and a clock that has run out stays so.  Operators that may look  *)
(* at it return the rounds left.                                           *)
(***************************************************************************)
EXTENDS Integers, Sequences, SequencesExt

CONSTANT LongText     \* 100: longer texts are first compared line by line

ASSUME DiffAssumption == LongText \in Nat

Edit(op, text) == [op |-> op, text |-> text]
DELETE(text) == Edit("delete", text)
INSERT(text) == Edit("insert", text)
EQUAL(text)  == Edit("equal", text)

LOCAL First(s, n) == SubSeq(s, 1, n)
LOCAL From(s, n)  == SubSeq(s, n + 1, Len(s))     \* without the first n

TextOf(diffs, kept) ==
    FoldLeft(LAMBDA text, d : IF d.op \in kept THEN text \o d.text ELSE text, <<>>, diffs)

diff_text1(diffs) == TextOf(diffs, {"equal", "delete"})
diff_text2(diffs) == TextOf(diffs, {"equal", "insert"})

Longest(S) == CHOOSE n \in S : \A m \in S : m <= n

diff_commonPrefix(a, b) ==
    Longest({n \in 0 .. Len(a) : n <= Len(b) /\ First(a, n) = First(b, n)})

diff_commonSuffix(a, b) == diff_commonPrefix(Reverse(a), Reverse(b))

(* How many characters of text stand before each place where it shows s. *)
Places(text, s) == {i \in 0 .. Len(text) - Len(s) : SubSeq(text, i + 1, i + Len(s)) = s}

-----------------------------------------------------------------------------
(* diff_cleanupMerge: edits between two equalities become one deletion and *)
(* one insertion, what these have in common at their ends goes to the      *)
(* equalities; then an edit next to an equality it ends or begins with is  *)
(* shifted over it.                                                        *)

Gathering(out, n, del, ins) == [out |-> out, edits |-> n, del |-> del, ins |-> ins]

NonEmpty(edits) == SelectSeq(edits, LAMBDA d : d.text # <<>>)

AtEquality(acc, text) ==
    LET both  == acc.del # <<>> /\ acc.ins # <<>>
        pre   == IF both THEN diff_commonPrefix(acc.ins, acc.del) ELSE 0
        del1  == From(acc.del, pre)
        ins1  == From(acc.ins, pre)
        suf   == IF both THEN diff_commonSuffix(ins1, del1) ELSE 0
        before == IF pre = 0 THEN acc.out
                  ELSE IF acc.out # <<>> /\ Last(acc.out).op = "equal"
                  THEN [acc.out EXCEPT ![Len(acc.out)].text = @ \o First(acc.ins, pre)]
                  ELSE <<EQUAL(First(acc.ins, pre))>> \o acc.out
        edits  == NonEmpty(<<DELETE(First(del1, Len(del1) - suf)), INSERT(First(ins1, Len(ins1) - suf))>>)
        after  == EQUAL(From(ins1, Len(ins1) - suf) \o text)
    IN  IF acc.edits > 1 THEN before \o edits \o <<after>>
        ELSE IF acc.edits = 1
        THEN acc.out \o (IF acc.del # <<>> THEN <<DELETE(acc.del)>> ELSE <<INSERT(acc.ins)>>)
                     \o <<EQUAL(text)>>
        ELSE IF acc.out # <<>> /\ Last(acc.out).op = "equal"
        THEN [acc.out EXCEPT ![Len(acc.out)].text = @ \o text]
        ELSE Append(acc.out, EQUAL(text))

Merged(diffs) ==
    LET step(acc, d) ==
            CASE d.op = "insert" -> Gathering(acc.out, acc.edits + 1, acc.del, acc.ins \o d.text)
              [] d.op = "delete" -> Gathering(acc.out, acc.edits + 1, acc.del \o d.text, acc.ins)
              [] d.op = "equal"  -> Gathering(AtEquality(acc, d.text), 0, <<>>, <<>>)
        out == FoldLeft(step, Gathering(<<>>, 0, <<>>, <<>>), Append(diffs, EQUAL(<<>>))).out
    IN  IF Last(out).text = <<>> THEN Front(out) ELSE out

Shifted(diffs, changed) == [diffs |-> diffs, changed |-> changed]

(* The edit at i moved over the equality before it, or after it. *)
ShiftLeft(diffs, i) ==
    LET eq == diffs[i - 1].text
        cut == Len(diffs[i].text) - Len(eq)
    IN  First(diffs, i - 2)
          \o <<Edit(diffs[i].op, eq \o First(diffs[i].text, cut)),
               Edit(diffs[i + 1].op, eq \o diffs[i + 1].text)>>
          \o From(diffs, i + 1)

ShiftRight(diffs, i) ==
    LET eq == diffs[i + 1].text
    IN  First(diffs, i - 2)
          \o <<Edit(diffs[i - 1].op, diffs[i - 1].text \o eq),
               Edit(diffs[i].op, From(diffs[i].text, Len(eq)) \o eq)>>
          \o From(diffs, i + 1)

RECURSIVE Shifts(_, _, _)
Shifts(diffs, i, changed) ==
    IF i >= Len(diffs) THEN Shifted(diffs, changed)
    ELSE IF diffs[i - 1].op # "equal" \/ diffs[i + 1].op # "equal" THEN Shifts(diffs, i + 1, changed)
    ELSE IF IsSuffix(diffs[i - 1].text, diffs[i].text) THEN Shifts(ShiftLeft(diffs, i), i + 1, TRUE)
    ELSE IF IsPrefix(diffs[i + 1].text, diffs[i].text) THEN Shifts(ShiftRight(diffs, i), i + 1, TRUE)
    ELSE Shifts(diffs, i + 1, changed)

RECURSIVE diff_cleanupMerge(_)
diff_cleanupMerge(diffs) ==
    LET shifted == Shifts(Merged(diffs), 2, FALSE)
    IN  IF shifted.changed THEN diff_cleanupMerge(shifted.diffs) ELSE shifted.diffs

-----------------------------------------------------------------------------
(* diff_halfMatch: a common text of at least half the longer one's length, *)
(* grown from its second or third quarter.                                 *)

NoHalf == [mid |-> <<>>]

(* What stands before place i of the one and place j of the other, and     *)
(* after, agrees so far.                                                   *)
GrownFrom(long, short, i, j) ==
    [i |-> i, j |-> j,
     before |-> diff_commonSuffix(First(long, i), First(short, j)),
     after  |-> diff_commonPrefix(From(long, i), From(short, j))]

Half(long, short, g) ==
    IF 2 * (g.before + g.after) < Len(long) THEN NoHalf
    ELSE [long_a  |-> First(long, g.i - g.before),  long_b  |-> From(long, g.i + g.after),
          short_a |-> First(short, g.j - g.before), short_b |-> From(short, g.j + g.after),
          mid |-> SubSeq(short, g.j - g.before + 1, g.j + g.after)]

(* The longest; the first of those as long. *)
LongestGrown(G) ==
    CHOOSE g \in G : \A h \in G :
        \/ h.before + h.after < g.before + g.after
        \/ h.before + h.after = g.before + g.after /\ g.j <= h.j

halfMatchI(long, short, i) ==
    LET seed == SubSeq(long, i + 1, i + Len(long) \div 4)
    IN  IF Places(short, seed) = {} THEN NoHalf
        ELSE Half(long, short, LongestGrown({GrownFrom(long, short, i, j) : j \in Places(short, seed)}))

LongerHalf(hm1, hm2) == IF Len(hm1.mid) > Len(hm2.mid) THEN hm1 ELSE hm2

diff_halfMatch(long, short) ==
    IF Len(long) < 4 \/ 2 * Len(short) < Len(long) THEN NoHalf
    ELSE LongerHalf(halfMatchI(long, short, (Len(long) + 3) \div 4),
                    halfMatchI(long, short, (Len(long) + 1) \div 2))

-----------------------------------------------------------------------------
(* diff_bisect: from both ends, one more edit a round, until the two       *)
(* frontiers meet; v1[k] and v2[k] are how far each has come on diagonal k.*)

NoSplit == <<>>

Frontiers(a, b) ==
    LET v == [k \in -Len(a) - Len(b) - 1 .. Len(a) + Len(b) + 1 |-> IF k = 1 THEN 0 ELSE -1]
        side == [v |-> v, start |-> 0, end |-> 0]
    IN  [front |-> side, back |-> side, split |-> NoSplit]

Diagonals(side, d) ==
    LET low == -d + side.start
        n   == (d - side.end - low) \div 2 + 1
    IN  [i \in 1 .. (IF n > 0 THEN n ELSE 0) |-> low + 2 * (i - 1)]

(* As far along k as the texts agree. *)
Reach(v, a, b, d, k) ==
    LET x == IF k = -d \/ (k # d /\ v[k - 1] < v[k + 1]) THEN v[k + 1] ELSE v[k - 1] + 1
    IN  IF x <= Len(a) /\ x - k \in 0 .. Len(b)
        THEN x + diff_commonPrefix(From(a, x), From(b, x - k)) ELSE x

(* One diagonal of one side.  Within the array of the code there are       *)
(* 2 * max_d diagonals.                                                    *)
Walk(f, mine, other, a, b, d, k, meets) ==
    LET x     == Reach(f[mine].v, a, b, d, k)
        y     == x - k
        max_d == (Len(a) + Len(b) + 1) \div 2
        k2    == Len(a) - Len(b) - k
        met   == k2 \in -max_d .. max_d - 1 /\ f[other].v[k2] # -1 /\ x >= Len(a) - f[other].v[k2]
        x1    == IF mine = "front" THEN x ELSE f.front.v[k2]
        y1    == IF mine = "front" THEN y ELSE x1 - k2
        moved == [f EXCEPT ![mine].v[k] = x]
    IN  IF f.split # NoSplit THEN f
        ELSE IF x > Len(a) THEN [moved EXCEPT ![mine].end = @ + 2]
        ELSE IF y > Len(b) THEN [moved EXCEPT ![mine].start = @ + 2]
        ELSE IF meets /\ met THEN [moved EXCEPT !.split = <<x1, y1>>]
        ELSE moved

(* One round: every diagonal of the front, then of the back. *)
Round(f, a, b, d) ==
    LET odd   == (Len(a) - Len(b)) % 2 # 0
        front == FoldLeft(LAMBDA g, k : Walk(g, "front", "back", a, b, d, k, odd), f, Diagonals(f.front, d))
    IN  FoldLeft(LAMBDA g, k : Walk(g, "back", "front", Reverse(a), Reverse(b), d, k, ~odd),
                 front, Diagonals(front.back, d))

RECURSIVE Rounds(_, _, _, _, _)
Rounds(f, a, b, d, left) ==
    IF f.split # NoSplit \/ d >= (Len(a) + Len(b) + 1) \div 2 \/ left = 0
    THEN [split |-> f.split, left |-> left]
    ELSE Rounds(Round(f, a, b, d), a, b, d + 1, left - 1)

-----------------------------------------------------------------------------
Result(diffs, left) == [diffs |-> diffs, left |-> left]

RECURSIVE diff_main(_, _, _, _)

Cleaned(r) == Result(diff_cleanupMerge(r.diffs), r.left)

Around(before, r, after) == Result(before \o r.diffs \o after, r.left)

ThenDiff(one, mid, a2, b2, check) ==
    Around(one.diffs \o mid, diff_main(a2, b2, check, one.left), <<>>)

(* Two parts, one after the other, by one deadline. *)
Pair(a1, b1, mid, a2, b2, check, left) ==
    ThenDiff(diff_main(a1, b1, check, left), mid, a2, b2, check)

diff_bisect(a, b, left) ==
    LET r == Rounds(Frontiers(a, b), a, b, 0, left)
    IN  IF r.split = NoSplit THEN Result(<<DELETE(a), INSERT(b)>>, r.left)
        ELSE Pair(First(a, r.split[1]), First(b, r.split[2]), <<>>,
                  From(a, r.split[1]), From(b, r.split[2]), FALSE, r.left)

diff_commonOverlap(a, b) ==
    Longest({n \in 0 .. Len(a) : n <= Len(b) /\ From(a, Len(a) - n) = First(b, n)})

NoOverlap == <<>>

(* A deletion and the insertion after it, when an end of the one is a      *)
(* beginning of the other and half of either long.                         *)
Overlapping(deletion, insertion) ==
    LET over1 == diff_commonOverlap(deletion, insertion)
        over2 == diff_commonOverlap(insertion, deletion)
        half(n) == 2 * n >= Len(deletion) \/ 2 * n >= Len(insertion)
    IN  IF over1 >= over2 /\ half(over1)
        THEN <<DELETE(First(deletion, Len(deletion) - over1)),
               EQUAL(First(insertion, over1)), INSERT(From(insertion, over1))>>
        ELSE IF over1 < over2 /\ half(over2)
        THEN <<INSERT(First(insertion, Len(insertion) - over2)),
               EQUAL(First(deletion, over2)), DELETE(From(deletion, over2))>>
        ELSE NoOverlap

(* diff_lineMode for two single lines: one is replaced by the other; what  *)
(* diff_cleanupSemantic finds them to share is kept, and nothing is        *)
(* compared any more.                                                      *)
diff_lineMode(a, b, left) ==
    IF Overlapping(a, b) # NoOverlap THEN Result(Overlapping(a, b), left)
    ELSE diff_main(a, b, FALSE, left)

(* swap: the longer text is the first one. *)
Halved(hm, swap, check, left) ==
    LET a == IF swap THEN <<hm.long_a, hm.long_b>> ELSE <<hm.short_a, hm.short_b>>
        b == IF swap THEN <<hm.short_a, hm.short_b>> ELSE <<hm.long_a, hm.long_b>>
    IN  Pair(a[1], b[1], <<EQUAL(hm.mid)>>, a[2], b[2], check, left)

(* Texts without a common end. *)
diff_compute(a, b, check, left) ==
    LET swap   == Len(a) > Len(b)
        long   == IF swap THEN a ELSE b
        short  == IF swap THEN b ELSE a
        places == Places(long, short)
        i      == CHOOSE p \in places : \A q \in places : p <= q
        more(text) == IF swap THEN DELETE(text) ELSE INSERT(text)
        hm     == diff_halfMatch(long, short)
    IN  IF a = <<>> THEN Result(<<INSERT(b)>>, left)
        ELSE IF b = <<>> THEN Result(<<DELETE(a)>>, left)
        ELSE IF places # {}
        THEN Result(<<more(First(long, i)), EQUAL(short), more(From(long, i + Len(short)))>>, left)
        ELSE IF Len(short) = 1 THEN Result(<<DELETE(a), INSERT(b)>>, left)
        ELSE IF hm # NoHalf THEN Halved(hm, swap, check, left)
        ELSE IF check /\ Len(short) > LongText THEN diff_lineMode(a, b, left)
        ELSE diff_bisect(a, b, left)

diff_main(text1, text2, check, left) ==
    LET pre == diff_commonPrefix(text1, text2)
        a1  == From(text1, pre)
        b1  == From(text2, pre)
        suf == diff_commonSuffix(a1, b1)
        middle == diff_compute(First(a1, Len(a1) - suf), First(b1, Len(b1) - suf), check, left)
    IN  IF text1 = text2 THEN Result(NonEmpty(<<EQUAL(text1)>>), left)
        ELSE Cleaned(Around(NonEmpty(<<EQUAL(First(text1, pre))>>), middle,
                            NonEmpty(<<EQUAL(From(a1, Len(a1) - suf))>>)))
=============================================================================
