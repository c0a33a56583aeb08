------------------------------ MODULE OcrModule ------------------------------
(***************************************************************************)
(* One job of card_recognition, signature_recognition or                   *)
(* document_recognition, from its rule points to what the reporters say:   *)
(* the services of services/ai/ocr see the frames, the managers of OcrInfo *)
(* follow what they see.                                                   *)
(***************************************************************************)
EXTENDS OcrInfo

CONSTANTS
    Jobs,         \* [kind, tolerance, step, points, participants]
    Answers(_),   \* what the services of a kind of job may answer to a frame: [ok, pages]
    Keywords,     \* texts that tell a card's type, with the type
    DocThreshold, \* the document service's, in hundredths
    Characters,   \* of texts
    MaxImages

Kinds == {"card", "sign", "doc"}

Services(kind) == IF kind = "card" THEN {"id_card", "multi_card"} ELSE {kind}

Texts == Seq(Characters)

Pages == [box: Int, whole: BOOLEAN, prob: Int, area: Int,
          texts: Seq([text: Texts, confidence: Int, key: BOOLEAN])]

(* What is compared are texts, what is measured are whole numbers.         *)
ASSUME ModuleAssumption ==
    /\ MaxImages \in Nat /\ DocThreshold \in 0 .. 100
    /\ \A j \in Jobs :
         /\ j.kind \in Kinds
         /\ j.points \in Seq(Range(j.points)) /\ j.participants \in Seq(Range(j.participants))
         /\ \A p \in Range(j.participants) : p.name \in Texts /\ p.cards \in Seq(Range(p.cards))
         /\ \A point \in Range(j.points) :
              /\ point.cfgs \in Seq(Range(point.cfgs))
              /\ \A cfg \in Range(point.cfgs) : /\ j.kind # "card" => cfg.threshold \in Int
                                                /\ j.kind = "doc" => cfg.title \in Texts
    /\ \A kind \in Kinds : \A answer \in Answers(kind) : \A s \in Services(kind) :
         answer[s].pages \in Seq(Pages)

VARIABLES
    job,        \* the configuration
    pc,         \* new, running, done or raised; left_out when no module is made
    cfgs,       \* [id, contents, recognise] parsed from the rule points
    mapper,     \* <<id, rule point>>
    trackers,   \* by type: a manager
    images,     \* images read
    tracked,    \* by type: what its manager gave out
    seen        \* history, by type: <<frame, infos>> it was shown something in

vars == <<job, pc, cfgs, mapper, trackers, images, tracked, seen>>

Init ==
    /\ job \in Jobs
    /\ pc = "new" /\ images = 0
    /\ cfgs = <<>> /\ mapper = {} /\ trackers = <<>> /\ tracked = <<>> /\ seen = <<>>

-----------------------------------------------------------------------------
(* parse_task: an id for every text that is asked for.                     *)

CardTypes == {"id_card", "employee_card", "practicing_certificate"}

Parsed(known, pairs, list) ==
    [known |-> known, mapper |-> pairs, cfgs |-> list, over |-> FALSE, raised |-> FALSE]

Config(id, contents, recognise) == [id |-> id, contents |-> contents, recognise |-> recognise]

(* A text asked for before is left to who asked first. *)
Ask(acc, point, type, contents) ==
    LET g == get_ocr_id(acc.known, type, [f \in DOMAIN contents |-> contents[f].text])
    IN  IF acc.raised \/ contents = <<>> THEN [acc EXCEPT !.raised = TRUE]
        ELSE IF g.repeated THEN acc
        ELSE [acc EXCEPT !.known = g.known, !.mapper = @ \union {<<g.id, point.id>>},
                         !.cfgs = Append(@, Config(g.id, contents, TRUE))]

Detect(acc, type) == [acc EXCEPT !.cfgs = Append(@, Config(get_detection_ocr_id(type), <<>>, FALSE))]

(* A field the card has not, or has empty, is passed over. *)
CardContents(cfg, card) ==
    LET has(f) == f.key \in DOMAIN card /\ card[f.key] # <<>>
        kept == SelectSeq(cfg.fields, has)
    IN  [n \in DOMAIN kept |-> [text |-> card[kept[n].key], threshold |-> kept[n].threshold]]

CardsOf(participants) ==
    LET cards[n \in 0 .. Len(participants)] ==
            IF n = 0 THEN <<>> ELSE cards[n - 1] \o participants[n].cards
    IN  cards[Len(participants)]

AskCards(acc, point, cfg, cards) ==
    LET asked[n \in 0 .. Len(cards)] ==
            IF n = 0 THEN acc ELSE Ask(asked[n - 1], point, cfg.type, CardContents(cfg, cards[n]))
    IN  asked[Len(cards)]

_get_card_recog_cfg(acc, point, cfg) ==
    LET cards  == IF cfg.content THEN CardsOf(job.participants) ELSE <<>>
        asked  == AskCards(acc, point, cfg, cards)
    IN  IF cfg.type \notin CardTypes THEN acc
        ELSE IF ~cfg.content \/ asked.cfgs = <<>> THEN Detect(asked, cfg.type)
        ELSE asked

AskNames(acc, point, sign, signers) ==
    LET asked[n \in 0 .. Len(signers)] ==
            IF n = 0 THEN acc
            ELSE Ask(asked[n - 1], point, "sign", <<[text |-> signers[n].name, threshold |-> sign.threshold]>>)
    IN  asked[Len(signers)]

(* The first that needs no detection ends the rule point. *)
_get_sign_recog_cfg(acc, point, sign) ==
    LET asked == AskNames(acc, point, sign, Select(job.participants,
                   {p \in Range(job.participants) : sign.flag /\ sign.role \in {p.role, "*"}}))
    IN  IF acc.over \/ ~sign.detect THEN [acc EXCEPT !.over = TRUE]
        ELSE IF ~sign.flag \/ asked.cfgs = <<>> THEN Detect(asked, "sign")
        ELSE asked

_get_doc_recog_cfg(acc, point, doc) ==
    IF doc.title = <<>> THEN Detect(acc, "doc")
    ELSE Ask(acc, point, "doc", <<[text |-> doc.title, threshold |-> doc.threshold]>>)

_get_recog_cfg(acc, point, cfg) ==
    CASE job.kind = "card" -> _get_card_recog_cfg(acc, point, cfg)
      [] job.kind = "sign" -> _get_sign_recog_cfg(acc, point, cfg)
      [] job.kind = "doc"  -> _get_doc_recog_cfg(acc, point, cfg)

parse_point(acc, point) ==
    LET here[n \in 0 .. Len(point.cfgs)] ==
            IF n = 0 THEN [acc EXCEPT !.cfgs = <<>>, !.over = FALSE]
            ELSE _get_recog_cfg(here[n - 1], point, point.cfgs[n])
    IN  [here[Len(point.cfgs)] EXCEPT !.cfgs = acc.cfgs \o @]

parse_task(known, pairs) ==
    LET parsed[n \in 0 .. Len(job.points)] ==
            IF n = 0 THEN Parsed(known, pairs, <<>>) ELSE parse_point(parsed[n - 1], job.points[n])
    IN  parsed[Len(job.points)]

(* Who makes a module for cards or signatures does so only where something *)
(* is asked for, and parses the task again, with the ids and rule points   *)
(* it has: every text was asked for before.  Nobody makes the module for   *)
(* documents, which by itself parses once.                                 *)
LeftOut(first) == job.kind # "doc" /\ ~first.raised /\ first.cfgs = <<>>

Refreshed(first) ==
    IF job.kind = "doc" \/ first.raised THEN first ELSE parse_task(first.known, first.mapper)

(* _register.  The cards' configuration never says which fields decide.    *)
Keys(contents) == IF job.kind = "card" THEN <<>> ELSE [f \in DOMAIN contents |-> f]

Expected(mine, type) ==
    LET expected[n \in 0 .. Len(mine)] ==
            IF n = 0 THEN <<>>
            ELSE append_contents(expected[n - 1], type, mine[n].id, mine[n].contents, Keys(mine[n].contents))
    IN  expected[Len(mine)]

_register(list, type) ==
    LET mine     == Select(list, {c \in Range(list) : c.id.type = type})
        expected == Expected(mine, type)
        kind     == IF type \in {"employee_card", "practicing_certificate"} THEN "multi_card" ELSE type
    IN  [NewManager(kind, type, job.tolerance) EXCEPT
           !.recognise = \E c \in Range(mine) : c.recognise,
           !.expected = expected, !.read = Unread(expected)]

(* There is no manager for a card of a number too great. *)
start ==
    LET first == parse_task(<<>>, {})
        p     == Refreshed(first)
        types == IF job.kind = "card" THEN CardTypes \intersect {p.cfgs[n].id.type : n \in DOMAIN p.cfgs}
                 ELSE {job.kind}
        known(id) == job.kind = "card" => is_ocr_type_match(id, id.type)
        wrong == p.raised \/ \E n \in DOMAIN p.cfgs : ~known(p.cfgs[n].id)
    IN  /\ pc = "new"
        /\ \/ /\ LeftOut(first)
              /\ pc' = "left_out" /\ UNCHANGED <<cfgs, mapper, trackers, tracked, seen>>
           \/ /\ ~LeftOut(first) /\ wrong
              /\ pc' = "raised" /\ UNCHANGED <<cfgs, mapper, trackers, tracked, seen>>
           \/ /\ ~LeftOut(first) /\ ~wrong
              /\ pc' = "running" /\ cfgs' = p.cfgs /\ mapper' = p.mapper
              /\ trackers' = [t \in types |-> _register(p.cfgs, t)]
              /\ tracked' = [t \in types |-> <<>>] /\ seen' = [t \in types |-> <<>>]
        /\ UNCHANGED <<job, images>>

-----------------------------------------------------------------------------
(* The services.                                                           *)

Info(type, page, confidence, detection, texts) ==
    [type |-> type, box |-> page.box, whole |-> page.whole, text_area |-> page.area,
     confidence |-> confidence, detection |-> detection, texts |-> texts]

Words(page) == [n \in DOMAIN page.texts |-> page.texts[n].text]

Sum(texts) ==
    LET sum[n \in 0 .. Len(texts)] == IF n = 0 THEN 0 ELSE sum[n - 1] + texts[n].confidence
    IN  sum[Len(texts)]

(* The mean over the fields that count; a service that read none of them   *)
(* says 0.  Nobody sets the confidence of the detection: it is 1.          *)
_parse_extract_info(texts) ==
    LET key == Select(texts, {t \in Range(texts) : t.key})
    IN  IF key = <<>> THEN 0 ELSE Sum(key) \div Len(key)

IdCard(page) == Info("id_card", page, _parse_extract_info(page.texts), 100, Words(page))

(* The first text that tells a type decides. *)
MultiCard(page) ==
    LET telling == SelectSeq(Words(page), LAMBDA w : w \in DOMAIN Keywords)
    IN  Info(IF telling = <<>> THEN "general" ELSE Keywords[Head(telling)], page, 100, 100, Words(page))

Handwriting(page) == Info("sign", page, 100, 100, Words(page))

Page(page) == Info("doc", page, page.prob, 100, Words(page))

Read(pages) == Select(pages, {p \in Range(pages) : p.texts # <<>>})

Likely(pages) == Select(pages, {p \in Range(pages) : p.prob >= DocThreshold})

(* A page of a document on which no text is found raises. *)
Readable(service, pages) == service = "doc" => Likely(pages) = Read(Likely(pages))

predict(service, pages) ==
    CASE service = "id_card"    -> [n \in DOMAIN pages |-> IdCard(pages[n])]
      [] service = "multi_card" -> [n \in DOMAIN Read(pages) |-> MultiCard(Read(pages)[n])]
      [] service = "sign"       -> [n \in DOMAIN Read(pages) |-> Handwriting(Read(pages)[n])]
      [] service = "doc"        -> [n \in DOMAIN Likely(pages) |-> Page(Likely(pages)[n])]

ServiceOf(type) == trackers[type].kind

-----------------------------------------------------------------------------
(* A frame: every manager sees what its service saw.  Only each step-th    *)
(* image is looked at; with no step the remainder cannot be taken.  A call *)
(* that fails raises, but the general service is asked until it answers.   *)
image(answer) ==
    LET frame  == images + 1
        said(t)  == answer[ServiceOf(t)]
        infos(t) == predict(ServiceOf(t), said(t).pages)
        failed == \E t \in DOMAIN trackers : ~said(t).ok \/ ~Readable(ServiceOf(t), said(t).pages)
        out(t) == process(trackers[t], infos(t), frame)
    IN  /\ pc = "running" /\ cfgs # <<>> /\ images < MaxImages
        /\ images' = frame
        /\ \/ /\ job.step = 0
              /\ pc' = "raised" /\ UNCHANGED <<trackers, tracked, seen>>
           \/ /\ job.step > 0 /\ images % job.step # 0
              /\ UNCHANGED <<pc, trackers, tracked, seen>>
           \/ /\ job.step > 0 /\ images % job.step = 0 /\ failed
              /\ pc' = "raised" /\ UNCHANGED <<trackers, tracked, seen>>
           \/ /\ job.step > 0 /\ images % job.step = 0 /\ ~failed
              /\ IF \E t \in DOMAIN trackers : out(t).result = Raises
                 THEN pc' = "raised" /\ UNCHANGED <<trackers, tracked, seen>>
                 ELSE /\ pc' = pc
                      /\ trackers' = [t \in DOMAIN trackers |-> out(t).m]
                      /\ tracked' = [t \in DOMAIN trackers |->
                                       IF out(t).result = None THEN tracked[t]
                                       ELSE Append(tracked[t], out(t).result)]
                      /\ seen' = [t \in DOMAIN trackers |->
                                    IF Matching(trackers[t], infos(t)) = <<>> THEN seen[t]
                                    ELSE Append(seen[t], <<frame, Matching(trackers[t], infos(t))>>)]
        /\ UNCHANGED <<job, cfgs, mapper>>

RuleOf(id) == {pair[2] : pair \in {q \in mapper : q[1] = id}}

(* The results name rule points by number; the job's result wants a text   *)
(* there and takes only the ids of what was not asked for.                 *)
Refused(results) == \E n \in DOMAIN results : RuleOf(results[n].id) # {}

finish ==
    LET last(t) == over(trackers[t])
        all(t)  == IF last(t) = None THEN tracked[t] ELSE Append(tracked[t], last(t))
    IN  /\ pc = "running"
        /\ IF cfgs # <<>> /\ \E t \in DOMAIN trackers : last(t) = Raises \/ Refused(all(t))
           THEN pc' = "raised" /\ UNCHANGED tracked
           ELSE pc' = "done" /\ tracked' = [t \in DOMAIN trackers |-> all(t)]
        /\ UNCHANGED <<job, cfgs, mapper, trackers, images, seen>>

Next == start \/ (\E answer \in Answers(job.kind) : image(answer)) \/ finish

Spec == Init /\ [][Next]_vars

-----------------------------------------------------------------------------
(* The reporters: any card passes, any signature passes. *)

Results == UNION {Range(tracked[t]) : t \in DOMAIN tracked}

card_passed(point) == (\E n \in DOMAIN point.cfgs : point.cfgs[n].content) => Results # {}

sign_passed(point) == (\E n \in DOMAIN point.cfgs : point.cfgs[n].detect) => Results # {}

-----------------------------------------------------------------------------
(* Properties.                                                             *)

Within(r, frame) == r.from <= frame /\ frame <= r.to

(* No sighting is lost and none is told twice: each frame with something   *)
(* to follow lies in just one result, or in the stretch still followed;    *)
(* every result begins where something was seen (_generate, over).         *)
SightingsCovered ==
    pc \in {"running", "done"} =>
      \A t \in DOMAIN seen :
        LET open(f) == pc = "running" /\ trackers[t].frames_count > 0 /\ trackers[t].start <= f
        IN  /\ \A s \in Range(seen[t]) :
                 Cardinality({n \in DOMAIN tracked[t] : Within(tracked[t][n], s[1])})
                   + (IF open(s[1]) THEN 1 ELSE 0) = 1
            /\ \A r \in Range(tracked[t]) : \E s \in Range(seen[t]) : s[1] = r.from

(* What a result shows is the best of its own stretch and of no other: the *)
(* closest reading of the text it names, above what was asked, or the      *)
(* largest (or surest) sighting (do_detection, do_recognition, _reinit).   *)
BestShown ==
    \A t \in DOMAIN tracked : \A r \in Range(tracked[t]) :
      LET own     == {s \in Range(seen[t]) : Within(r, s[1])}
          infos(s) == Range(s[2])
          readings(c) == {calc_text_similarity(c.text, Shown(trackers[t], c.text, w)) :
                            w \in UNION {Range(i.texts) : i \in UNION {infos(s) : s \in own}}}
          sure(i) == IF i.confidence = 0 THEN i.detection ELSE i.confidence
          worth(i) == IF t = "id_card" THEN sure(i) ELSE bbox_area(i)
          best(s) == Most({worth(i) : i \in infos(s)})
          shown   == CHOOSE s \in own : s[1] = r.frame
      IN  /\ \E s \in own : s[1] = r.frame
          /\ r.recognised =>
               \E c \in Range(cfgs) : /\ c.id = r.id
                                      /\ r.confidence = Most(readings(c.contents[1]))
                                      /\ r.confidence > c.contents[1].threshold
          /\ ~r.recognised => \A s \in own : best(s) <= best(shown)

(* What the reporters say of a job that ended follows from the video: a    *)
(* rule point that asks for a card or a signature passes just when one of  *)
(* the kind was seen at all (_check_cards, _check_signature).              *)
VerdictFollowsVideo ==
    pc = "done" =>
      \A n \in DOMAIN job.points :
        LET point == job.points[n]
            seenAny == \E t \in DOMAIN seen : seen[t] # <<>>
            asks == \E c \in DOMAIN point.cfgs :
                      IF job.kind = "card" THEN point.cfgs[c].content ELSE point.cfgs[c].detect
        IN  /\ job.kind = "card" => (card_passed(point) <=> (asks => seenAny))
            /\ job.kind = "sign" => (sign_passed(point) <=> (asks => seenAny))
=============================================================================
