-------------------------- MODULE SubtitleTracking --------------------------
(***************************************************************************)
(* Subtitles that must be shown: the tracker and run_one of                *)
(* applications/modules/subtitle_matching/module.py.  Each frame's text    *)
(* blocks are compared with the texts that are due, and at the end the     *)
(* frames that missed one and the stretches that showed one are listed.    *)
(* How a text is compared with a block is a parameter, which               *)
(* SubtitleMatching defines.                                               *)
(***************************************************************************)
EXTENDS Masks, TimePatches

CONSTANTS
    Jobs,       \* the configurations: [texts, fps, height, new]
    Texts,      \* what a text block may read
    Blocks,     \* blocks of one frame, at most
    RoundLimits,    \* how many rounds a comparison may take before its deadline
    MaxFrames,
    Compare(_, _, _),  \* a text with a block, by a deadline: [mask, similarity]
    Matches(_, _, _, _)    \* what the other algorithm finds of the texts in a frame

Threshold == 80    \* percent of a text block that must be a subtitle's

ASSUME SubtitleAssumption ==
    /\ MaxFrames \in Nat /\ Blocks \in Nat /\ RoundLimits \subseteq Nat
    /\ \A j \in Jobs : /\ j.texts \in Seq(Range(j.texts)) /\ j.fps \in Nat
                       /\ \A i \in DOMAIN j.texts : j.texts[i].seconds \in Nat

VARIABLES
    job,               \* the configuration
    compared,          \* what comparing a text with a block gives, made once for all frames
    pc,                \* running, done or raised
    now,               \* timestamp of the last frame
    subtitles,         \* the tracker's, in the order of registration
    all_miss_results,  \* <<timestamp, missed>> of each frame that was looked at
    result,            \* missed frames and stretches, at the end
    last               \* history: the blocks and the rounds of the last frame

vars == <<job, compared, pc, now, subtitles, all_miss_results, result, last>>

-----------------------------------------------------------------------------
AtLeast(share, percent) == 100 * share >= percent * Unit

(* register: nothing has been seen. *)
Registered(c) ==
    [text |-> c.text, mask |-> NoMask(Len(c.text)), total |-> 0,
     misses |-> <<>>, mapper |-> {}]

Init ==
    /\ job \in Jobs
    /\ compared = [i \in DOMAIN job.texts, read \in Texts, left \in RoundLimits |->
                     Compare(job.texts[i], read, left)]
    /\ subtitles = [i \in DOMAIN job.texts |-> Registered(job.texts[i])]
    /\ pc = "running" /\ now = 0 /\ all_miss_results = <<>>
    /\ result = [missed |-> <<>>, appear |-> <<>>]
    /\ last = [blocks |-> <<>>, left |-> 0]

Ids == DOMAIN job.texts
Cfg(i) == job.texts[i]

Compared(i, read, left) == compared[i, read, left]

Recognised(i, read, left) == AtLeast(Compared(i, read, left).similarity, Threshold)

-----------------------------------------------------------------------------
(* The masks of a frame.                                                   *)

(* _build_match_map: the texts a block is most like; the shorter ones first *)
(* among texts it is as much like, but then it is a conflict anyway.        *)
Best(read, due, left) ==
    LET like == {i \in due : Recognised(i, read, left)}
    IN  {i \in like : \A k \in like :
           Compared(k, read, left).similarity <= Compared(i, read, left).similarity}

(* Masks of the texts due by the blocks that are like just one of them. *)
Matched(blocks, due, left) ==
    LET certain == {n \in DOMAIN blocks : Cardinality(Best(blocks[n], due, left)) = 1}
    IN  [i \in due |->
          [c \in DOMAIN Cfg(i).text |->
             \E n \in certain : /\ i \in Best(blocks[n], due, left)
                                /\ Compared(i, blocks[n], left).mask[c]]]

(* The texts' turn decides the order of the blocks. *)
FirstLike(read, due, left) ==
    CHOOSE i \in due : /\ Recognised(i, read, left)
                       /\ \A k \in due : Recognised(k, read, left) => i <= k

(* A block like several texts goes to the one it adds most to, if it adds   *)
(* to one it says nothing of yet.                                           *)
Awarded(masks, gain, read, left) ==
    LET open == {i \in DOMAIN gain :
                   /\ Ones(masks[i]) \intersect Ones(Compared(i, read, left).mask) = {}
                   /\ gain[i] > 0}
        most == {i \in open : \A k \in open : gain[k] <= gain[i]}
        first == CHOOSE i \in most : \A k \in most :
                   Len(Cfg(i).text) < Len(Cfg(k).text) \/ (Len(Cfg(i).text) = Len(Cfg(k).text) /\ i <= k)
    IN  IF open = {} THEN masks ELSE [masks EXCEPT ![first] = Or(@, Compared(first, read, left).mask)]

Resolved(masks, read, due, left) ==
    Awarded(masks,
            [i \in Best(read, due, left) |->
               calc_cover_ratio_diff(masks[i], Compared(i, read, left).mask,
                                     ~Cfg(i).part, IF Cfg(i).part THEN Cfg(i).min ELSE 0)],
            read, left)

FrameMasks(blocks, due, left) ==
    LET conflicts == Select(blocks, {b \in Range(blocks) : Cardinality(Best(b, due, left)) > 1})
        inTurn    == SortedBy(conflicts, LAMBDA b, c : FirstLike(b, due, left) < FirstLike(c, due, left))
        masks[n \in 0 .. Len(inTurn)] == IF n = 0 THEN Matched(blocks, due, left)
                                         ELSE Resolved(masks[n - 1], inTurn[n], due, left)
    IN  masks[Len(inTurn)]

(* The share of a static text that is shown; of a scrolling one the share  *)
(* of its longest stretch, unless that is too short.                       *)
OfStretch(i, c) == IF c.length < Cfg(i).min THEN -1 ELSE c.share

total_similarity(i, mask) ==
    IF Cfg(i).part THEN OfStretch(i, calc_confidence(mask))
    ELSE Share(Cardinality(Ones(mask)), Len(mask))

-----------------------------------------------------------------------------
(* The tracker.                                                            *)

Tracked(i) == AtLeast(Share(Cardinality(Ones(subtitles[i].mask)), Len(Cfg(i).text)), Cfg(i).threshold)

(* _get_valid_subtitles: not those that need be seen once and have been,   *)
(* and not outside of their time.                                          *)
Due(t) ==
    {i \in Ids :
       /\ ~(Cfg(i).once /\ Tracked(i))
       /\ Cfg(i).patches = {} \/ \E p \in Cfg(i).patches : is_in(p, t)}

Seen_KeepsMissedMask(s, i, t, mask) ==
    LET total == total_similarity(i, mask)
        hit   == AtLeast(total, Cfg(i).threshold)
    IN  [s EXCEPT !.total = IF hit THEN @ + 1 ELSE @,
                  !.mapper = @ \union {<<t, total>>},
                  !.misses = IF hit THEN @ ELSE Append(@, t),
                  !.mask = Or(@, mask)]

Seen(s, i, t, mask) ==
    LET total == total_similarity(i, mask)
        hit   == AtLeast(total, Cfg(i).threshold)
    IN  [s EXCEPT !.total = @ + 1,
                  !.mapper = @ \union {<<t, total>>},
                  !.misses = IF hit THEN @ ELSE Append(@, t),
                  !.mask = IF hit THEN Or(@, mask) ELSE @]

(* The frame has been counted for what is due in it. *)
Raise(t, due) ==
    /\ pc' = "raised" /\ now' = t
    /\ subtitles' = [i \in Ids |-> IF i \in due THEN [subtitles[i] EXCEPT !.total = @ + 1] ELSE subtitles[i]]
    /\ UNCHANGED all_miss_results

Looked(t, masks) ==
    LET missed == {i \in DOMAIN masks : ~AtLeast(total_similarity(i, masks[i]), Cfg(i).threshold)}
    IN  /\ subtitles' = [i \in Ids |-> IF i \in DOMAIN masks THEN Seen(subtitles[i], i, t, masks[i])
                                       ELSE subtitles[i]]
        /\ all_miss_results' = Append(all_miss_results, <<t, missed>>)

(* A frame nothing is due in is not looked at; a block cannot be placed in *)
(* a frame of unknown height.  The other algorithm keys its matches by     *)
(* strings and looks them up among numbers: with a match it raises, and    *)
(* without one nothing has been recognised.                                *)
run(blocks, left) ==
    LET t    == now + 1
        due  == Due(t)
        placed == blocks = <<>> \/ job.height > 0
        clash  == job.new /\ Matches(job.texts, blocks, due, left) # {}
    IN  /\ pc = "running" /\ now < MaxFrames
        /\ last' = [blocks |-> blocks, left |-> left]
        /\ UNCHANGED <<job, compared, result>>
        /\ \/ /\ due = {}
              /\ now' = t /\ UNCHANGED <<pc, subtitles, all_miss_results>>
           \/ /\ due # {} /\ ~placed
              /\ Raise(t, due)
           \/ /\ due # {} /\ placed /\ clash
              /\ Raise(t, due)
           \/ /\ due # {} /\ placed /\ ~clash
              /\ now' = t /\ pc' = pc
              /\ Looked(t, FrameMasks(IF job.new THEN <<>> ELSE blocks, due, left))

-----------------------------------------------------------------------------
(* The end of run_one.                                                     *)

Frames == all_miss_results

is_tracked(i) == Len(subtitles[i].misses) # subtitles[i].total

Continuous(i) == ~Cfg(i).part /\ Cfg(i).seconds > 0

continuous_image_nums(i) == (Cfg(i).seconds * job.fps) \div 2    \* fps in halves

(* Runs of frames that did not miss text i, up to a frame that did or the  *)
(* last one.                                                               *)
Stretches(i) ==
    LET miss(n) == i \in Frames[n][2]
    IN  {r \in (DOMAIN Frames) \X (DOMAIN Frames) :
           /\ r[1] <= r[2] /\ \A n \in r[1] .. r[2] : ~miss(n)
           /\ r[1] = 1 \/ miss(r[1] - 1)
           /\ r[2] = Len(Frames) \/ miss(r[2] + 1)}

Appearances_AnyLength(i) == {<<i, Frames[r[1]][1], Frames[r[2]][1]>> : r \in Stretches(i)}

Appearances(i) ==
    {<<i, Frames[r[1]][1], Frames[r[2]][1]>> :
       r \in {s \in Stretches(i) : s[2] - s[1] + 1 >= continuous_image_nums(i)}}

(* With nothing to ask for, the first of no frames is taken. *)
EmptyStretch(i) ==
    /\ continuous_image_nums(i) = 0
    /\ \E n \in DOMAIN Frames : i \in Frames[n][2] /\ (n = 1 \/ i \in Frames[n - 1][2])

(* The texts that need be seen once and were are taken out of every frame; *)
(* a frame is listed when something was missing as it was looked through   *)
(* for one of the texts.                                                   *)
Forgiven(k) == {i \in 1 .. k : ~Continuous(i) /\ Cfg(i).once /\ is_tracked(i)}

Missed_ForgivesAll(n) == Frames[n][2] \ {i \in Ids : ~Continuous(i) /\ Cfg(i).once}

Missed(n) == Frames[n][2] \ Forgiven(Len(job.texts))

Listed(n) == \E k \in Ids : ~Continuous(k) /\ Frames[n][2] \ Forgiven(k) # {}

finish ==
    LET shown == Select([n \in DOMAIN Frames |-> n], {n \in DOMAIN Frames : Listed(n)})
    IN  /\ pc = "running"
        /\ pc' = IF \E i \in Ids : Continuous(i) /\ EmptyStretch(i) THEN "raised" ELSE "done"
        /\ result' = IF pc' = "raised" THEN result ELSE
                     [missed |-> [m \in DOMAIN shown |-> <<Frames[shown[m]][1], Missed(shown[m])>>],
                      appear |-> UNION {Appearances(i) : i \in {k \in Ids : Continuous(k)}}]
        /\ UNCHANGED <<job, compared, now, subtitles, all_miss_results, last>>

Next ==
    \/ \E n \in 0 .. Blocks : \E blocks \in [1 .. n -> Texts], left \in RoundLimits : run(blocks, left)
    \/ finish

Spec == Init /\ [][Next]_vars

-----------------------------------------------------------------------------
(* Properties.                                                             *)

(* What a subtitle counts agrees, unless the job raised: the frames it was *)
(* looked for in are those of its similarities, its misses are the ones    *)
(* below the threshold, in order, and every one lies in its time           *)
(* (_get_match_result, _get_best_track_result).                            *)
CountsAgree ==
    \A i \in Ids : pc # "raised" =>
      LET s == subtitles[i]
      IN  /\ s.total = Cardinality(s.mapper)
          /\ Range(s.misses) = {e[1] : e \in {f \in s.mapper : ~AtLeast(f[2], Cfg(i).threshold)}}
          /\ \A n \in 2 .. Len(s.misses) : s.misses[n - 1] < s.misses[n]
          /\ (Ones(s.mask) # {} => is_tracked(i))
          /\ \A e \in s.mapper : Cfg(i).patches = {} \/ \E p \in Cfg(i).patches : is_in(p, e[1])

(* At the end a text is missing in a listed frame just when it was below   *)
(* its threshold there and is not one that was to be seen once and was;    *)
(* with a single text every such frame is listed and no other.             *)
MissedExact ==
    pc = "done" =>
      LET below(i, t) == \E s \in subtitles[i].mapper : s[1] = t /\ ~AtLeast(s[2], Cfg(i).threshold)
          open(i, t)  == /\ below(i, t)
                         /\ ~(Cfg(i).once /\ is_tracked(i) /\ ~Continuous(i))
      IN  /\ \A m \in DOMAIN result.missed :
               result.missed[m][2] = {i \in Ids : open(i, result.missed[m][1])}
          /\ Ids = {1} /\ ~Continuous(1) =>
               {result.missed[m][1] : m \in DOMAIN result.missed} = {t \in 1 .. now : open(1, t)}

(* A text looked for in every frame is listed as shown from one frame to   *)
(* another just when it was above its threshold in all between, in none    *)
(* next to them, and for as long as asked.                                 *)
AppearancesExact ==
    pc = "done" =>
      \A i \in Ids :
        Continuous(i) /\ Cfg(i).patches = {} /\ ~Cfg(i).once =>
          LET shown(t) == \E s \in subtitles[i].mapper : s[1] = t /\ AtLeast(s[2], Cfg(i).threshold)
          IN  \A from, to \in 1 .. now :
                <<i, from, to>> \in result.appear <=>
                  /\ from <= to /\ \A t \in from .. to : shown(t)
                  /\ ~shown(from - 1) /\ ~shown(to + 1)
                  /\ 2 * (to - from + 1) >= Cfg(i).seconds * job.fps - 1
=============================================================================
