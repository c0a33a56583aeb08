-------------------------- MODULE SubtitleMatching --------------------------
(***************************************************************************)
(* Subtitles that must be shown: one job of                                *)
(* applications/modules/subtitle_matching/module.py.  This module compares *)
(* a text with what was read (Diff, Masks); SubtitleTracking follows the   *)
(* texts through the frames with what it finds.                            *)
(***************************************************************************)
EXTENDS Diff, SubtitleTracking

MaskOf_FromSecond(text, diffs) ==
    FoldLeft(LAMBDA m, d : IF d.op = "equal" THEN m \o [i \in 1 .. Len(d.text) |-> TRUE]
                           ELSE m \o NoMask(Len(d.text)), <<>>, diffs)

(* True where the text is what was read. *)
MaskOf(text, diffs) ==
    FoldLeft(LAMBDA m, d : IF d.op = "equal" THEN m \o [i \in 1 .. Len(d.text) |-> TRUE]
                           ELSE IF d.op = "delete" THEN m \o NoMask(Len(d.text))
                           ELSE m, <<>>, diffs)

MatchMask(text, read, left) == Trimmed(MaskOf(text, diff_main(text, read, TRUE, left).diffs))

Span(mask) ==
    IF Ones(mask) = {} THEN -1
    ELSE IF LongestMatch(mask) = <<>> THEN 1
    ELSE LongestMatch(mask)[2] - LongestMatch(mask)[1] + 1

Match(mask, similarity) == [mask |-> mask, similarity |-> similarity]

Rated(mask, read) == Match(mask, Share(Cardinality(Ones(mask)), Greater(Span(mask), Len(read))))

get_match_mask(text, read, left) ==
    IF Len(read) > Len(text) \/ Len(read) <= 2 THEN Match(NoMask(Len(text)), 0)
    ELSE Rated(MatchMask(text, read, left), read)

(* A text that scrolls is also tried cut in its middle. *)
DirectOr(c, direct, turned) ==
    IF AtLeast(direct.similarity, Threshold) \/ ~c.part THEN direct
    ELSE Match(Rotated(turned.mask, recover_index(c.text)), turned.similarity)

compare(c, read, left) ==
    DirectOr(c, get_match_mask(c.text, read, left),
             get_match_mask(Rotated(c.text, clip_index(c.text)), read, left))

-----------------------------------------------------------------------------
(* The other algorithm: all that was read, one block after the other.      *)
NewMatches(texts, blocks, due, left) ==
    LET all == FlattenSeq(blocks)
        mask2(text, read) == IF text = <<>> THEN <<>> ELSE MatchMask(text, read, left)
        part(text, mask) == IF LongestMatch(mask) = <<>> THEN <<>>
                            ELSE SubSeq(text, LongestMatch(mask)[1], LongestMatch(mask)[2])
        cur(i) == IF Len(texts[i].text) < Len(all) THEN part(all, mask2(all, texts[i].text)) ELSE all
        share(text, i) == Share(Cardinality(Ones(mask2(text, cur(i)))), Len(text))
        forms(i) == {texts[i].text} \union
                    (IF texts[i].part THEN {Rotated(texts[i].text, clip_index(texts[i].text))} ELSE {})
        weight(i) == IF texts[i].part THEN 2 ELSE 1
    IN  {i \in due : \E form \in forms(i) : AtLeast(weight(i) * share(form, i), texts[i].threshold)}

-----------------------------------------------------------------------------
(* Properties.                                                             *)

IsCommon(text, mask, read) ==
    LET marked == SelectSeq([c \in DOMAIN text |-> c], LAMBDA c : mask[c])
    IN  \E f \in [DOMAIN marked -> DOMAIN read] :
          /\ \A n \in 2 .. Len(marked) : f[n - 1] < f[n]
          /\ \A n \in DOMAIN marked : read[f[n]] = text[marked[n]]

Says(diffs, text, read) == diff_text1(diffs) = text /\ diff_text2(diffs) = read

(* Whatever was read and whenever the deadline comes, a difference says    *)
(* both texts, and the characters marked as recognised stand in this order *)
(* in what was read, cut in the middle or not (diff_main, _get_match_mask, *)
(* the turning of masks).                                                  *)
MasksTruthful ==
    \A i \in Ids : \A n \in DOMAIN last.blocks :
      LET text == Cfg(i).text
          read == last.blocks[n]
          m    == Compared(i, read, last.left).mask
          clip == clip_index(text)
      IN  /\ Says(diff_main(text, read, TRUE, last.left).diffs, text, read)
          /\ \/ IsCommon(text, m, read)
             \/ Cfg(i).part /\ IsCommon(Rotated(text, clip), Rotated(m, clip), read)
=============================================================================
