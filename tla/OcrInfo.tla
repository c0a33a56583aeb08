------------------------------- MODULE OcrInfo -------------------------------
(***************************************************************************)
(* Following documents, cards and signatures through a video:              *)
(* modules/common/ocr.  An id is a type and a number, 0 for "seen, but not *)
(* one that was asked for".  A text is a sequence of characters, a share a *)
(* number of hundredths.                                                   *)
(***************************************************************************)
EXTENDS Integers, Sequences, SequencesExt, FiniteSets, Selection

CONSTANT IdLimit     \* 99: a greater number does not fit into an id

ASSUME OcrAssumption == IdLimit \in Nat

Id(type, n) == [type |-> type, n |-> n]
get_detection_ocr_id(type) == Id(type, 0)

is_ocr_type_match(id, type) == id.type = type /\ id.n <= IdLimit

(* The texts of one id run into one another: that is what it is known by.  *)
get_ocr_id(known, type, texts) ==
    LET key  == <<type, FlattenSeq(texts)>>
        next == Cardinality({k \in DOMAIN known : k[1] = type}) + 1
    IN  IF key \in DOMAIN known THEN [known |-> known, id |-> known[key], repeated |-> TRUE]
        ELSE [known |-> [k \in DOMAIN known \union {key} |-> IF k = key THEN Id(type, next) ELSE known[k]],
              id |-> Id(type, next), repeated |-> FALSE]

-----------------------------------------------------------------------------
(* distance.nlevenshtein, and calc_text_similarity by it. *)

Least(S) == CHOOSE n \in S : \A m \in S : n <= m
Most(S)  == CHOOSE n \in S : \A m \in S : m <= n

(* The distances of a text to all that b begins with, and from them those  *)
(* of the text with x behind it.                                           *)
FirstRow(b) == [j \in 0 .. Len(b) |-> j]

Entry(row, x, b, j, left) ==
    Least({row[j] + 1, left + 1, row[j - 1] + (IF x = b[j] THEN 0 ELSE 1)})

NextRow(row, x, b) ==
    LET next[j \in 0 .. Len(b)] == IF j = 0 THEN row[0] + 1 ELSE Entry(row, x, b, j, next[j - 1])
    IN  next

levenshtein(a, b) ==
    LET row[i \in 0 .. Len(a)] == IF i = 0 THEN FirstRow(b) ELSE NextRow(row[i - 1], a[i], b)
    IN  row[Len(a)][Len(b)]

calc_text_similarity(a, b) ==
    IF a = b THEN 100 ELSE 100 - (100 * levenshtein(a, b)) \div Most({Len(a), Len(b)})

-----------------------------------------------------------------------------
(* The manager.  None stands for Python's.                                 *)

None == [none |-> TRUE]
Raises == [raises |-> TRUE]

NothingRead == [similarity |-> 0, frame |-> 0, whole |-> TRUE]

Unseen_StillFollowed(m) ==
    [m EXCEPT !.frame = 0, !.ttl = m.tolerance, !.start = 0, !.area = 0,
              !.confidence = 0, !.stored = None, !.stored_frame = 0]

Unseen(m) ==
    [m EXCEPT !.frame = 0, !.frames_count = 0, !.ttl = m.tolerance, !.start = 0, !.area = 0,
              !.confidence = 0, !.stored = None, !.stored_frame = 0]

(* Nothing has been read of the fields of what was asked for. *)
Unread(expected) == [e \in DOMAIN expected |-> [f \in DOMAIN expected[e].contents |-> NothingRead]]

_reinit_KeepsTexts(m) == Unseen(m)

_reinit(m) == [Unseen(m) EXCEPT !.read = Unread(m.expected)]

NewManager(kind, type, tolerance) ==
    [kind |-> kind, type |-> type, tolerance |-> tolerance, recognise |-> FALSE,
     expected |-> <<>>, read |-> <<>>, frame |-> 0, frames_count |-> 0, ttl |-> tolerance,
     start |-> 0, area |-> 0, confidence |-> 0, stored |-> None, stored_frame |-> 0]

(* contents: the [text, threshold] of each field; keys: those that decide. *)
append_contents(expected, type, id, contents, keys) ==
    IF ~is_ocr_type_match(id, type) \/ contents = <<>> \/ \E e \in DOMAIN expected : expected[e].id = id
    THEN expected
    ELSE Append(expected, [id |-> id, contents |-> contents, keys |-> keys])

_check_ocr_type(m, info) ==
    \/ info.type = m.type
    \/ \E e \in DOMAIN m.expected : is_ocr_type_match(m.expected[e].id, info.type)

(* The box if there is one, else the largest of the texts' and at least a  *)
(* tenth; areas are in tenths.                                             *)
BoxIllegal(info) == info.box < 0
bbox_area(info) == IF info.box > 0 THEN info.box ELSE Most({1, info.text_area})

Better(m, info) ==
    IF m.kind = "id_card"
    THEN (IF info.confidence = 0 THEN info.detection ELSE info.confidence) > m.confidence
    ELSE bbox_area(info) > m.area

Store(m, info, frame) ==
    IF ~Better(m, info) THEN m
    ELSE [m EXCEPT !.area = bbox_area(info), !.stored = info, !.stored_frame = frame,
                   !.confidence = IF m.kind = "id_card" /\ info.confidence = 0
                                  THEN info.detection ELSE info.confidence]

do_detection(m, infos, frame) ==
    LET after[n \in 0 .. Len(infos)] == IF n = 0 THEN m ELSE Store(after[n - 1], infos[n], frame)
    IN  after[Len(infos)]

(* Of a document's title only the end is compared. *)
Shown(m, expected, text) ==
    IF m.kind = "doc" /\ Len(text) > Len(expected)
    THEN SubSeq(text, Len(text) - Len(expected) + 1, Len(text)) ELSE text

Closer(m, expected, best, text, whole, frame) ==
    LET similarity == calc_text_similarity(expected, Shown(m, expected, text))
    IN  IF similarity > best.similarity
        THEN [similarity |-> similarity, frame |-> frame, whole |-> whole] ELSE best

_recogition_text(m, expected, before, info, frame) ==
    LET best[n \in 0 .. Len(info.texts)] ==
            IF n = 0 THEN before ELSE Closer(m, expected, best[n - 1], info.texts[n], info.whole, frame)
    IN  best[Len(info.texts)]

BestReading(m, expected, before, infos, frame) ==
    LET best[n \in 0 .. Len(infos)] ==
            IF n = 0 THEN before ELSE _recogition_text(m, expected, best[n - 1], infos[n], frame)
    IN  best[Len(infos)]

do_recognition(m, infos, frame) ==
    IF ~m.recognise THEN m
    ELSE [m EXCEPT !.read =
            [e \in DOMAIN m.read |->
              [f \in DOMAIN m.read[e] |->
                BestReading(m, m.expected[e].contents[f].text, m.read[e][f], infos, frame)]]]

(* The deciding fields that were read better than they must be. *)
Passing(m) ==
    {p \in (DOMAIN m.expected) \X (UNION {DOMAIN m.expected[e].contents : e \in DOMAIN m.expected}) :
       /\ p[2] \in Range(m.expected[p[1]].keys) \intersect DOMAIN m.expected[p[1]].contents
       /\ m.read[p[1]][p[2]].similarity > m.expected[p[1]].contents[p[2]].threshold
       /\ m.read[p[1]][p[2]].similarity > 0}

(* A box with a fraction is refused where a result is built. *)
Tracked(m, id, to, frame, confidence, recognised, whole) ==
    IF ~whole THEN Raises
    ELSE [id |-> id, from |-> m.start, to |-> to, frame |-> frame, confidence |-> confidence,
          recognised |-> recognised]

(* The best reading; on a tie the text, then the field, asked for first. *)
_gen_recog_tracking_result(m, to) ==
    LET read(p) == m.read[p[1]][p[2]]
        before(p, q) == p[1] < q[1] \/ (p[1] = q[1] /\ p[2] <= q[2])
        best == CHOOSE p \in Passing(m) : \A q \in Passing(m) :
                  \/ read(q).similarity < read(p).similarity
                  \/ read(q).similarity = read(p).similarity /\ before(p, q)
    IN  Tracked(m, m.expected[best[1]].id, to, read(best).frame, read(best).similarity, TRUE,
                read(best).whole)

_gen_detect_tracking_result(m, to) ==
    IF m.stored = None THEN Raises
    ELSE Tracked(m, get_detection_ocr_id(m.type), to, m.stored_frame, m.confidence, FALSE, m.stored.whole)

_gen_tracking_result(m, to) ==
    IF m.recognise /\ Passing(m) # {} THEN _gen_recog_tracking_result(m, to)
    ELSE _gen_detect_tracking_result(m, to)

Out(m, result) == [m |-> m, result |-> result]

_generate(m, matched, frame) ==
    IF m.frames_count = 0
    THEN Out(IF matched THEN [m EXCEPT !.start = frame, !.frames_count = 1] ELSE m, None)
    ELSE IF matched
    THEN Out([m EXCEPT !.frames_count = @ + 1, !.ttl = m.tolerance], None)
    ELSE IF m.ttl > 1
    THEN Out([m EXCEPT !.ttl = @ - 1], None)
    ELSE Out(_reinit(m), _gen_tracking_result(m, frame))

Matching(m, infos) == Select(infos, {info \in Range(infos) : _check_ocr_type(m, info)})

process(m, infos, frame) ==
    LET filtered == Matching(m, infos)
        seen     == do_detection([m EXCEPT !.frame = frame], filtered, frame)
    IN  IF \E n \in DOMAIN filtered : BoxIllegal(filtered[n]) THEN Out(m, Raises)
        ELSE _generate(do_recognition(seen, filtered, frame), filtered # <<>>, frame)

over_OnlyWhenFresh(m) ==
    IF m.frames_count > 0 /\ m.frame # 0 /\ m.ttl = m.tolerance THEN _gen_tracking_result(m, m.frame) ELSE None

(* When the video ends: what is still followed. *)
over(m) == IF m.frames_count > 0 /\ m.frame # 0 THEN _gen_tracking_result(m, m.frame) ELSE None
=============================================================================
