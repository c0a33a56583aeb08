---------------------------- MODULE SpeechRules ----------------------------
(***************************************************************************)
(* The rules about what is said: SpeechRecognitionModule and AUCService    *)
(* turn the sound into a dialogue, ScriptMatchingModule looks for the      *)
(* sentences of the scripts in it, BannedWordDetectionModule for banned    *)
(* words, their reporters judge.  A text is a sequence of characters.  A   *)
(* script is given as its sentences, as re.split leaves them.  Both        *)
(* modules of the second phase only read the dialogue.                     *)
(***************************************************************************)
EXTENDS Integers, Sequences, FiniteSets, SequencesExt, Selection

CONSTANTS
    Tasks,       \* [said, offset, scripts, banned], see SpeechInit
    Alphabet,    \* the characters of texts
    RuleIds,
    Comma,       \* the character utterances are cut at
    Symbols,     \* characters the banned word detection removes, Comma too
    Lower,       \* capital letter -> small letter
    ShortSize    \* 4: no cut after so few words

Strings == Seq(Alphabet)

WordsSaid == [text: Strings, start: Nat, end: Nat]

Utterances == [text: Strings, words: Seq(WordsSaid), start: Int, end: Int]

(* The words are said before the utterance ends; a rule has one id.        *)
ASSUME SpeechAssumption ==
    /\ ShortSize \in Nat /\ Comma \in Symbols
    /\ \A c \in DOMAIN Lower : Lower[c] \in Alphabet
    /\ Tasks \subseteq [said: Seq(Utterances), offset: Nat,
                       scripts: Seq([id: RuleIds, script: Seq(Strings), threshold: Int]),
                       banned: Seq([id: RuleIds, words: SUBSET Strings])]
    /\ \A t \in Tasks :
         /\ \A i \in DOMAIN t.said : \A w \in Range(t.said[i].words) :
              w.start <= t.said[i].end /\ w.end <= t.said[i].end
         /\ \A m, n \in DOMAIN t.scripts :
              t.scripts[m].threshold <= 10 /\ (t.scripts[m].id = t.scripts[n].id => m = n)

VARIABLES
    task,
    phase,       \* "speech", "rules", "done" or "failed"
    dialogue,    \* AUCServiceResult.dialogue
    matched,     \* rule id -> ScriptMatchingResult, the pieces it hit with it
    detected,    \* for every banned word rule its detected words
    passed       \* the rules reported as passed

speech_vars == <<task, phase, dialogue, matched, detected, passed>>

Characters(text) == {text[i] : i \in DOMAIN text}

TextOf(parts) ==
    LET text[n \in 0 .. Len(parts)] == IF n = 0 THEN <<>> ELSE text[n - 1] \o parts[n].text
    IN  text[Len(parts)]

-----------------------------------------------------------------------------
(* Utterance.__init__: what the words leave out of the text, punctuation   *)
(* above all, becomes words of one character.                              *)

Word(text, start, end) == [text |-> text, start |-> start, end |-> end]

Places(text, from, s) ==
    {i \in from .. Len(text) - Len(s) : SubSeq(text, i + 1, i + Len(s)) = s}

Earliest(S) == CHOOSE i \in S : \A j \in S : i <= j

Filling(words, at) == [words |-> words, at |-> at]

(* Nothing is done for a word the text does not show, see Unreadable.      *)
FillUpTo(text, acc, word) ==
    LET places == Places(text, acc.at, word.text)
        next   == Earliest(places)
        end    == IF acc.words = <<>> THEN 0 ELSE Last(acc.words).end
        gap    == [i \in 1 .. next - acc.at |->
                     Word(<<text[acc.at + i]>>, IF i = 1 THEN end ELSE word.start, word.start)]
    IN  IF places = {} THEN acc
        ELSE Filling(acc.words \o Append(gap, word), next + Len(word.text))

FilledTo(text, words) ==
    LET acc[n \in 0 .. Len(words)] ==
            IF n = 0 THEN Filling(<<>>, 0) ELSE FillUpTo(text, acc[n - 1], words[n])
    IN  acc

(* Behind the last word an end is that word's start, before its own start. *)
Filled(text, words) ==
    LET done == FilledTo(text, words)[Len(words)]
        tail == [i \in 1 .. Len(text) - done.at |->
                    Word(<<text[done.at + i]>>, Last(words).end, Last(words).start)]
    IN  IF words = <<>> THEN <<>> ELSE done.words \o tail

(* A word the text does not show: the search runs off the end.             *)
Unreadable(u) ==
    \E n \in DOMAIN u.words : Places(u.text, FilledTo(u.text, u.words)[n - 1].at, u.words[n].text) = {}

Later(x, offset) == [x EXCEPT !.start = @ + offset, !.end = @ + offset]

Utterance(u, offset) ==
    LET words == Filled(u.text, u.words)
    IN  Later([u EXCEPT !.words = [i \in DOMAIN words |-> Later(words[i], offset)]], offset)

Dialogue(said, offset) ==
    [text |-> TextOf(said), utterances |-> [i \in DOMAIN said |-> Utterance(said[i], offset)]]

Silence == [text |-> <<>>, utterances |-> <<>>]

-----------------------------------------------------------------------------
(* ScriptMatchingModule._short_match.                                      *)

Slice(u, from, to) ==
    [text |-> TextOf(SubSeq(u.words, from, to)), start |-> u.words[from].start, end |-> u.words[to].end]

Cutting(pieces, cursor, last_comma) ==
    [pieces |-> pieces, cursor |-> cursor, last_comma |-> last_comma]

Cut_SkipsShort(u, acc, i) ==
    IF u.words[i].text # <<Comma>> THEN acc
    ELSE IF i - 1 - acc.last_comma <= ShortSize THEN Cutting(acc.pieces, i, i - 1)
    ELSE Cutting(Append(acc.pieces, Slice(u, acc.cursor + 1, i)), i, i - 1)

(* Word i, counted from 1; cursor and last_comma count from 0.             *)
Cut(u, acc, i) ==
    IF u.words[i].text # <<Comma>> THEN acc
    ELSE IF i - 1 - acc.last_comma <= ShortSize THEN Cutting(acc.pieces, acc.cursor, i - 1)
    ELSE Cutting(Append(acc.pieces, Slice(u, acc.cursor + 1, i)), i, i - 1)

CutUpTo(u) ==
    LET acc[n \in 0 .. Len(u.words)] == IF n = 0 THEN Cutting(<<>>, 0, 0) ELSE Cut(u, acc[n - 1], n)
    IN  acc[Len(u.words)]

WithRest(u, acc) ==
    LET rest == Slice(u, acc.cursor + 1, Len(u.words))
    IN  IF acc.cursor < Len(u.words) /\ rest.text # <<>> THEN Append(acc.pieces, rest) ELSE acc.pieces

PiecesOf(u) == WithRest(u, CutUpTo(u))

sub_utterances(d) ==
    LET pieces[n \in 0 .. Len(d.utterances)] ==
            IF n = 0 THEN <<>> ELSE pieces[n - 1] \o PiecesOf(d.utterances[n])
    IN  pieces[Len(d.utterances)]

(* calc_text_similarity by jaccard: what the two share of what they have.  *)
Similarity(a, b) ==
    [shared |-> Cardinality(Characters(a) \cap Characters(b)),
     all    |-> Cardinality(Characters(a) \cup Characters(b))]

Reaches(similarity, tenths) == 10 * similarity.shared >= tenths * similarity.all

(* > 0.3 in floating point, where 1 - (1 - 0.3) is the larger.             *)
Alike(sentence, piece) == Reaches(Similarity(sentence, piece.text), 3)

Hitting(used, hits) == [used |-> used, hits |-> hits]

Hit(pieces, acc, sentence) ==
    LET free == {i \in DOMAIN pieces \ acc.used : Alike(sentence, pieces[i])}
    IN  IF free = {} THEN acc
        ELSE Hitting(acc.used \cup {Earliest(free)}, Append(acc.hits, Earliest(free)))

HitsOf(pieces, used, script) ==
    LET acc[n \in 0 .. Len(script)] ==
            IF n = 0 THEN Hitting(used, <<>>) ELSE Hit(pieces, acc[n - 1], script[n])
    IN  acc[Len(script)]

(* One script after the other. *)
HitsAlong(pieces, scripts) ==
    LET acc[n \in 0 .. Len(scripts)] ==
            IF n = 0 THEN Hitting({}, <<>>) ELSE HitsOf(pieces, acc[n - 1].used, scripts[n].script)
    IN  acc

Result(d, pieces, hits) ==
    [start_time |-> pieces[hits[1]].start,
     end_time   |-> pieces[Last(hits)].end,
     score      |-> Similarity(TextOf([i \in DOMAIN hits |-> pieces[hits[i]]]), d.text),
     hits       |-> hits]

Results(d, pieces, scripts, along) ==
    LET found == {n \in DOMAIN scripts : along[n].hits # <<>>}
    IN  [id \in {scripts[n].id : n \in found} |->
            Result(d, pieces, along[CHOOSE n \in found : scripts[n].id = id].hits)]

MatchesOf(d, pieces, scripts) == Results(d, pieces, scripts, HitsAlong(pieces, scripts))

_short_match(d, scripts) == MatchesOf(d, sub_utterances(d), scripts)

-----------------------------------------------------------------------------
(* BannedWordDetectionModule.run.                                          *)

clean(text) ==
    LET kept == Select(text, Alphabet \ Symbols)
    IN  [i \in DOMAIN kept |-> IF kept[i] \in DOMAIN Lower THEN Lower[kept[i]] ELSE kept[i]]

Shows(text, s) == Places(text, 0, s) # {}

(* Where c stands in text at from .. to - 1, counted from 0; else -1.      *)
At(text, c, from, to) == {i \in from .. to - 1 : text[i + 1] = c}
find(text, c, from) ==
    LET at == At(text, c, from, Len(text)) IN IF at = {} THEN -1 ELSE Earliest(at)
rfind(text, c, to) ==
    LET at == At(text, c, 0, to) IN IF at = {} THEN -1 ELSE CHOOSE i \in at : \A j \in at : j <= i

(* An index of Python: -1 is the last place.                               *)
Index(text, i) == IF i < 0 THEN Len(text) + i ELSE i

Context_FirstOfLast(text, word) ==
    LET left  == rfind(text, Comma, Index(text, find(text, Head(word), 0)))
        right == find(text, Comma, Index(text, find(text, Last(word), 0)))
    IN  SubSeq(text, left + 2, IF right > 0 THEN right ELSE Len(text))

(* From the comma before the first of the word's first character to the    *)
(* comma after the last of its last.                                       *)
Context(text, word) ==
    LET left  == rfind(text, Comma, Index(text, find(text, Head(word), 0)))
        right == find(text, Comma, Index(text, rfind(text, Last(word), Len(text))))
    IN  SubSeq(text, left + 2, IF right > 0 THEN right ELSE Len(text))

Detected(u, word) ==
    [start_time |-> u.start, end_time |-> u.end, word |-> word, text |-> Context(u.text, clean(word))]

Heard(u, words) == {word \in words : Shows(clean(u.text), clean(word))}

DetectedWords(d, words) ==
    UNION {{Detected(d.utterances[i], word) : word \in Heard(d.utterances[i], words)}
              : i \in DOMAIN d.utterances}

(* Nothing is left of the word: it is in every text, and has no first      *)
(* character.                                                              *)
DetectionRaises(d, banned) ==
    d.utterances # <<>> /\ \E n \in DOMAIN banned : \E word \in banned[n].words : clean(word) = <<>>

-----------------------------------------------------------------------------
NoDialogue == Silence
None == <<>>

(* said: the utterances as the service gives them, [text, words, start,    *)
(* end]; offset: video_valid_start_time where times are to be moved, else  *)
(* 0; scripts and banned: the rule points, in order.                       *)
SpeechInit ==
    /\ task \in Tasks
    /\ phase = "speech"
    /\ dialogue = NoDialogue
    /\ matched = None
    /\ detected = None
    /\ passed = [scripts |-> {}, banned |-> {}]

Transcribe ==
    /\ phase = "speech"
    /\ \A i \in DOMAIN task.said : ~Unreadable(task.said[i])
    /\ dialogue' = Dialogue(task.said, task.offset)
    /\ phase' = "rules"
    /\ UNCHANGED <<task, matched, detected, passed>>

(* The service gives an error code while it is polled: nothing was said.   *)
HearNothing ==
    /\ phase = "speech"
    /\ dialogue' = Silence
    /\ phase' = "rules"
    /\ UNCHANGED <<task, matched, detected, passed>>

(* No sound came, the service refused it, or its answer cannot be read:    *)
(* the module has no result and the run of the job fails.                  *)
SpeechFails ==
    /\ phase = "speech"
    /\ phase' = "failed"
    /\ UNCHANGED <<task, dialogue, matched, detected, passed>>

MatchScripts ==
    /\ phase = "rules" /\ matched = None
    /\ matched' = <<_short_match(dialogue, task.scripts)>>
    /\ UNCHANGED <<task, phase, dialogue, detected, passed>>

DetectBannedWords ==
    /\ phase = "rules" /\ detected = None
    /\ ~DetectionRaises(dialogue, task.banned)
    /\ detected' = <<[n \in DOMAIN task.banned |-> DetectedWords(dialogue, task.banned[n].words)]>>
    /\ UNCHANGED <<task, phase, dialogue, matched, passed>>

(* The other module has come to its end or not: its result is dropped.     *)
DetectionFails ==
    /\ phase = "rules" /\ detected = None
    /\ DetectionRaises(dialogue, task.banned)
    /\ phase' = "failed"
    /\ UNCHANGED <<task, dialogue, matched, detected, passed>>

script_passed(rule) ==
    rule.id \in DOMAIN matched[1] /\ Reaches(matched[1][rule.id].score, rule.threshold)

banned_passed(n) == detected[1][n] = {}

Report ==
    /\ phase = "rules" /\ matched # None /\ detected # None
    /\ passed' = [scripts |-> {n \in DOMAIN task.scripts : script_passed(task.scripts[n])},
                  banned  |-> {n \in DOMAIN task.banned : banned_passed(n)}]
    /\ phase' = "done"
    /\ UNCHANGED <<task, dialogue, matched, detected>>

SpeechNext == \/ Transcribe \/ HearNothing \/ SpeechFails
              \/ MatchScripts \/ DetectBannedWords \/ DetectionFails \/ Report

SpeechSpec == SpeechInit /\ [][SpeechNext]_speech_vars

-----------------------------------------------------------------------------
(* The pieces are the whole of what was said: cutting at commas, joining   *)
(* short parts and filling in punctuation lose and double nothing.         *)
WholeTextCut ==
    TextOf(sub_utterances(dialogue)) =
      TextOf(Select(dialogue.utterances, {u \in Range(dialogue.utterances) : u.words # <<>>}))

(* One piece counts for one sentence of one rule.                          *)
CountedOnce ==
    LET used == matched[1]
    IN  \A r \in DOMAIN used, s \in DOMAIN used :
          \A i \in DOMAIN used[r].hits, j \in DOMAIN used[s].hits :
            used[r].hits[i] = used[s].hits[j] => r = s /\ i = j

(* What was said like a sentence of a rule without a result was counted    *)
(* for another rule.                                                       *)
LeftOverUnlike ==
    LET pieces == sub_utterances(dialogue)
        used   == {matched[1][r].hits : r \in DOMAIN matched[1]}
    IN  \A n \in DOMAIN task.scripts : task.scripts[n].id \notin DOMAIN matched[1] =>
          \A s \in DOMAIN task.scripts[n].script, p \in DOMAIN pieces :
            Alike(task.scripts[n].script[s], pieces[p]) =>
              \E hits \in used : \E i \in DOMAIN hits : hits[i] = p

(* A result is placed in the video, not in the sound that was sent: both   *)
(* of its times are moved, once, by the part of the video before it.       *)
TimesMoved ==
    LET ends == {task.said[i].end : i \in DOMAIN task.said}
        in(time) == time >= task.offset /\ \E end \in ends : time <= end + task.offset
    IN  \A r \in DOMAIN matched[1] : in(matched[1][r].start_time) /\ in(matched[1][r].end_time)

(* A rule passes when all that was said counts for it.                     *)
AllOfItPasses ==
    \A n \in DOMAIN task.scripts :
        LET id == task.scripts[n].id
        IN  /\ id \in DOMAIN matched[1]
            /\ Range(matched[1][id].hits) = DOMAIN sub_utterances(dialogue)
            /\ \A i \in DOMAIN dialogue.utterances : dialogue.utterances[i].words # <<>>
            => n \in passed.scripts

(* "No script detected" is said of a rule only when nothing of its script  *)
(* is left in what was said: every word is in a piece, a piece counts for  *)
(* one sentence of one rule, what is like the rule's sentences counts for  *)
(* an earlier one, and what is found is found where it was said; a rule    *)
(* all of it counts for passes (_short_match on what                       *)
(* SpeechRecognitionModule left, ScriptMatchingReporter).                  *)
ScriptsHeard ==
    /\ phase # "failed" /\ matched # None =>
        WholeTextCut /\ CountedOnce /\ LeftOverUnlike /\ TimesMoved
    /\ phase = "done" => AllOfItPasses

(* The text a banned word is reported with shows the word, across commas   *)
(* and however often its first and last character are said before and      *)
(* after it.  Said in capitals it may not: the small letters are looked    *)
(* for in the text as it was said.                                         *)
BannedShown ==
    detected # None =>
      \A n \in DOMAIN task.banned : \A hit \in detected[1][n] :
        (\A i \in DOMAIN dialogue.utterances :
            Characters(dialogue.utterances[i].text) \cap DOMAIN Lower = {})
          => Shows(clean(hit.text), clean(hit.word))
=============================================================================
