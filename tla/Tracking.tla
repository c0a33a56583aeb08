------------------------------- MODULE Tracking -------------------------------
(***************************************************************************)
(* The tracker of persons: services/ai/track.  The humans detected in one  *)
(* frame after the other are matched with a queue of sequences; at the end *)
(* sequences of one face are merged and short appearances dropped.         *)
(*                                                                         *)
(* A human is [face, place, body]: whose face it is and where its face and *)
(* its body are.  Two boxes match when they are at one place, two faces    *)
(* when they are one person's.                                             *)
(***************************************************************************)
EXTENDS TimePatches

CONSTANTS
    Humans,      \* the humans a frame may show
    NoFace,      \* the face of somebody who turns his back
    Nowhere,     \* the place of a box that is not there
    FaceWeight, BodyWeight, MatchedThreshold,   \* of the matching score
    Tolerance,   \* tolerance_misecond: how long a sequence lives unmatched
    Gap,         \* silence that does not end a patch
    MinTime,     \* min_time_interval
    FrameTimes,  \* times from one frame to the next
    MaxFrames    \* frames of a video

ASSUME TrackingAssumption ==
    /\ {FaceWeight, BodyWeight, MatchedThreshold, Tolerance, Gap, MinTime, MaxFrames} \subseteq Nat
    /\ FrameTimes \subseteq Nat \ {0} /\ MatchedThreshold > 0
    /\ \A h \in Humans : h = [face |-> h.face, place |-> h.place, body |-> h.body]
    /\ \A h \in Humans : (h.face = NoFace) <=> (h.place = Nowhere)

VARIABLES
    pc,         \* tracking, merged, done, or raised
    now,        \* timestamp of the last frame
    frames,     \* how many there were
    queue,      \* the sequences
    id_number,  \* the last id given
    seen        \* history: <<face, time>> of the faces pushed

vars == <<pc, now, frames, queue, id_number, seen>>

Init ==
    /\ pc = "tracking" /\ now = 0 /\ frames = 0
    /\ queue = <<>> /\ id_number = -1 /\ seen = {}

-----------------------------------------------------------------------------
(* TrackingSequence.                                                       *)

NewSequence(id, h, t) ==
    [tracking_id |-> id, node |-> h, stored |-> h.face, ttl |-> Tolerance, length |-> 1,
     has_match |-> TRUE, time_patchs |-> <<Patch(t, t)>>]

is_alive(ts) == ts.ttl >= 0

(* Human.update: what is not seen now is kept from before. *)
UpdatedNode(node, h) ==
    [face  |-> IF h.face = NoFace THEN node.face ELSE h.face,
     place |-> IF h.face = NoFace THEN node.place ELSE h.place,
     body  |-> IF h.body = Nowhere THEN node.body ELSE h.body]

Score(a, b, weight) == IF a = b /\ a # Nowhere THEN weight ELSE 0

(* With face and body the two are weighed, with one of them it decides. *)
calc_matched_score(ts, h) ==
    LET face == Score(h.place, ts.node.place, FaceWeight + BodyWeight)
        body == Score(h.body, ts.node.body, FaceWeight + BodyWeight)
    IN  IF h.body = Nowhere THEN face
        ELSE IF h.face = NoFace THEN body
        ELSE Score(h.place, ts.node.place, FaceWeight) + Score(h.body, ts.node.body, BodyWeight)

is_match(ts, h) == calc_matched_score(ts, h) >= MatchedThreshold

(* update: whether the new face is the better one is up to the picture. *)
Updated(ts, h, t, better) ==
    [ts EXCEPT !.node = UpdatedNode(@, h), !.length = @ + 1, !.has_match = TRUE,
               !.time_patchs[Len(ts.time_patchs)] = update_end_time(@, t),
               !.stored = IF h.face # NoFace /\ better THEN h.face ELSE @]

check_state(ts, elapsed) ==
    [ts EXCEPT !.ttl = IF ts.has_match THEN @ ELSE @ - elapsed, !.has_match = FALSE]

-----------------------------------------------------------------------------
(* SequenceManager.                                                        *)

State(q, id, ok) == [queue |-> q, id |-> id, ok |-> ok]

(* The first sequence that has, or has had as its best, the same face,     *)
(* dead ones included.                                                     *)
FaceMatches(q, h) ==
    {i \in DOMAIN q : h.face # NoFace /\ h.face \in {q[i].stored, q[i].node.face}}

Least(S) == CHOOSE i \in S : \A j \in S : i <= j

(* A face that was away for longer than the gap starts a new patch. *)
Revived(ts, t) ==
    [ts EXCEPT !.ttl = Tolerance,
               !.time_patchs = IF t - ts.time_patchs[Len(ts.time_patchs)].end_time > Gap
                               THEN Append(@, Patch(t, t)) ELSE @]

insert(s, h, t, better) ==
    LET known == FaceMatches(s.queue, h)
        i     == Least(known)
    IN  IF known # {}
        THEN State([s.queue EXCEPT ![i] = Updated(Revived(@, t), h, t, better)], s.id, s.ok)
        ELSE IF h.face = NoFace THEN s
        ELSE State(Append(s.queue, NewSequence(s.id + 1, h, t)), s.id + 1, s.ok)

(* The sequence at i is moved before those from target on; an i before the *)
(* target raises.                                                          *)
rerank(q, target, i) ==
    SubSeq(q, 1, target - 1) \o <<q[i]>> \o SubSeq(q, target, i - 1) \o SubSeq(q, i + 1, Len(q))

ShortestFirst(q) ==
    Least({i \in DOMAIN q : \A j \in DOMAIN q : q[i].length <= q[j].length})

push(s, h, t, better) ==
    LET q       == s.queue
        matched == {i \in DOMAIN q : is_alive(q[i]) /\ is_match(q[i], h)}
        i       == Least(matched)
        head    == ShortestFirst(q)
        updated == [q EXCEPT ![i] = Updated(@, h, t, better)]
    IN  IF ~s.ok THEN s
        ELSE IF matched = {} THEN insert(s, h, t, better)
        ELSE IF head > i THEN State(updated, s.id, FALSE)
        ELSE State(rerank(updated, head, i), s.id, TRUE)

(* The humans of one frame, one after the other. *)
Pushed(hs, t, better) ==
    LET after[n \in 0 .. Len(hs)] ==
            IF n = 0 THEN State(queue, id_number, TRUE) ELSE push(after[n - 1], hs[n], t, better)
    IN  after[Len(hs)]

(* One frame: its humans are pushed, then the sequences without a match    *)
(* grow older.                                                             *)
predict(hs, elapsed, better) ==
    LET t == now + elapsed
        s == Pushed(hs, t, better)
    IN  /\ pc = "tracking" /\ frames < MaxFrames
        /\ frames' = frames + 1 /\ now' = t /\ id_number' = s.id
        /\ queue' = IF s.ok THEN [i \in DOMAIN s.queue |-> check_state(s.queue[i], elapsed)]
                    ELSE s.queue
        /\ pc' = IF s.ok THEN "tracking" ELSE "raised"
        /\ seen' = seen \union {<<h.face, t>> : h \in {g \in Range(hs) : g.face # NoFace}}

Absorb_NoTimes(ts, other, better) ==
    [ts EXCEPT !.stored = IF better THEN @ ELSE other.stored,
               !.time_patchs = merge_time_patch(@, Gap)]

(* Each face is the best of its sequence or of the other's. *)
Absorb(ts, other, better) ==
    [ts EXCEPT !.stored = IF better THEN @ ELSE other.stored,
               !.time_patchs = merge_time_patch(@ \o other.time_patchs, Gap)]

MergedInto_NextOnly(done, ts, better) ==
    IF done # <<>> /\ done[Len(done)].stored = ts.stored
    THEN [done EXCEPT ![Len(done)] = Absorb(@, ts, better)]
    ELSE Append(done, ts)

(* merge: a sequence goes into the first one of the same face. *)
MergedInto(done, ts, better) ==
    LET same == {k \in DOMAIN done : done[k].stored = ts.stored}
    IN  IF same = {} THEN Append(done, ts)
        ELSE [done EXCEPT ![Least(same)] = Absorb(@, ts, better)]

Merged(q, better) ==
    LET done[n \in 0 .. Len(q)] == IF n = 0 THEN <<>> ELSE MergedInto(done[n - 1], q[n], better)
    IN  done[Len(q)]

merge ==
    /\ pc = "tracking" /\ pc' = "merged"
    /\ \E better \in BOOLEAN : queue' = Merged(queue, better)
    /\ UNCHANGED <<now, frames, id_number, seen>>

(* filter_burr, and the sequences with a face: all have one. *)
filter ==
    LET filtered == [i \in DOMAIN queue |->
                       [queue[i] EXCEPT !.time_patchs = filter_time_path(@, MinTime)]]
    IN  /\ pc = "merged" /\ pc' = "done"
        /\ queue' = Select(filtered, {ts \in Range(filtered) : ts.time_patchs # <<>> /\ ts.stored # NoFace})
        /\ UNCHANGED <<now, frames, id_number, seen>>

(* The detector lists humans with a face before those without. *)
Next ==
    \/ \E elapsed \in FrameTimes, better \in BOOLEAN :
         \/ predict(<<>>, elapsed, better)
         \/ \E h \in Humans : predict(<<h>>, elapsed, better)
         \/ \E h, g \in Humans : (h.face = NoFace => g.face = NoFace) /\ h # g
                                  /\ predict(<<h, g>>, elapsed, better)
    \/ merge \/ filter

Spec == Init /\ [][Next]_vars

-----------------------------------------------------------------------------
(* Properties.                                                             *)

(* The patches of a sequence follow each other and end by now; after merge *)
(* more than the gap lies between them, so that none is counted twice or   *)
(* split in two (_insert, update, _merge_time_patch).                      *)
PatchesApart ==
    pc \in {"tracking", "merged", "done"} =>
        \A i \in DOMAIN queue :
            LET ps == queue[i].time_patchs
            IN  /\ \A n \in DOMAIN ps : ps[n].start_time <= ps[n].end_time /\ ps[n].end_time <= now
                /\ \A n \in 2 .. Len(ps) : ps[n].start_time - ps[n - 1].end_time > Gap

(* After merge no two sequences have the same face (merge deletes from the *)
(* list it walks).                                                         *)
MergedDistinct ==
    pc \in {"merged", "done"} =>
        \A i, j \in DOMAIN queue : queue[i].stored = queue[j].stored => i = j

Covered(q, t) == \E i \in DOMAIN q : \E n \in DOMAIN q[i].time_patchs : is_in(q[i].time_patchs[n], t)

(* Every time a face was seen is in a sequence, from the frame it was in   *)
(* through reordering, revival and merge, until short patches are dropped. *)
NoFaceLost ==
    pc \in {"tracking", "merged"} => \A s \in seen : Covered(queue, s[2])
=============================================================================
