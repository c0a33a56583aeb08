--------------------------- MODULE MCSpeechRules ---------------------------
(* Every utterance of up to MaxText characters, alone or after a fixed one, *)
(* against rules that compete for it.                                       *)
EXTENDS SpeechRules, TLC

CONSTANT MaxText

MCAlphabet == {"a", "b", "c", "d", "e", "A", ",", "."}
MCSymbols == {",", "."}
MCLower == "A" :> "a"

MCTexts == UNION {[1 .. n -> {"a", "b", "c", ",", "A"}] : n \in 0 .. MaxText}

Said(text, words) == [text |-> text, words |-> words, start |-> 0, end |-> 10 * Len(text)]

(* Each letter a word, or the letters up to a punctuation mark one.        *)
Letters(text) ==
    LET at == SelectSeq([i \in DOMAIN text |-> i], LAMBDA i : text[i] \notin MCSymbols)
    IN  [n \in DOMAIN at |-> Word(<<text[at[n]]>>, 10 * at[n] - 8, 10 * at[n])]

FirstWord(text) ==
    LET marks == {i \in DOMAIN text : text[i] \in MCSymbols} \cup {Len(text) + 1}
        end   == Earliest(marks) - 1
    IN  IF end < 1 THEN <<>> ELSE <<Word(SubSeq(text, 1, end), 2, 10 * end)>>

Before == Said(<<"b", "c", ",", "c", "a", ",", "b", ".">>,
               Letters(<<"b", "c", ",", "c", "a", ",", "b", ".">>))
Unread == Said(<<"a", "b">>, <<Word(<<"b">>, 2, 10), Word(<<"a">>, 12, 20)>>)

MCSaid ==
    {<<Said(text, Letters(text))>> : text \in MCTexts}
      \cup {<<Before, Said(text, FirstWord(text))>> : text \in MCTexts}
      \cup {<<Unread>>}

Rule(id, script, threshold) == [id |-> id, script |-> script, threshold |-> threshold]

MCScripts == {
    <<Rule(1, << <<"a">>, <<"b">>, <<>> >>, 5), Rule(2, << <<"a", "b">> >>, 5)>>,
    <<Rule(2, << <<"c", "d", "e">>, <<"a">> >>, 10), Rule(1, << <<"a">>, <<"c">> >>, 3)>> }

MCBanned == {
    << [id |-> 1, words |-> {<<"a", "b">>, <<"c">>}], [id |-> 2, words |-> {<<"A", "a">>}] >>,
    << [id |-> 1, words |-> {<<",">>, <<"a">>}] >> }

MCTasks == [said : MCSaid, offset : {0, 7}, scripts : MCScripts, banned : MCBanned]
=============================================================================
