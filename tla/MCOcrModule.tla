---------------------------- MODULE MCOcrModule ----------------------------
(* Small instances of OcrModule: two names, texts of two letters.          *)
EXTENDS OcrModule

Ann == <<1, 2>>
Bob == <<3>>

Person(name, role, cards) == [name |-> name, role |-> role, cards |-> cards]
People == <<Person(Ann, "buyer", <<[name |-> Ann, number |-> <<>>]>>), Person(Bob, "seller", <<>>)>>

Point(id, list) == [id |-> id, cfgs |-> list]
Card(type, content, keys) ==
    [type |-> type, content |-> content, fields |-> [n \in DOMAIN keys |-> [key |-> keys[n], threshold |-> 40]]]
Sign(detect, flag, role) == [detect |-> detect, flag |-> flag, role |-> role, threshold |-> 40]
Doc(title) == [title |-> title, threshold |-> 40]

Job(kind, step, points, people) ==
    [kind |-> kind, tolerance |-> 2, step |-> step, points |-> points, participants |-> people]

Twice == <<Person(Ann, "buyer", <<[name |-> Ann], [name |-> Bob]>>)>>

MCJobs ==
    {Job("card", 1, <<Point(1, <<Card("id_card", TRUE, <<"name", "number", "age">>)>>)>>, People),
     Job("card", 1, <<Point(1, <<Card("employee_card", FALSE, <<>>), Card("passport", TRUE, <<>>)>>)>>, People),
     Job("card", 1, <<Point(1, <<Card("id_card", TRUE, <<"number">>)>>)>>, People),
     Job("card", 1, <<Point(1, <<Card("id_card", TRUE, <<"name">>)>>)>>, Twice),
     Job("sign", 1, <<Point(1, <<Sign(TRUE, TRUE, "buyer")>>), Point(2, <<Sign(TRUE, TRUE, "*")>>)>>, <<People[1]>>),
     Job("sign", 2, <<Point(1, <<Sign(TRUE, FALSE, "buyer"), Sign(FALSE, TRUE, "*")>>)>>, People),
     Job("sign", 1, <<Point(1, <<Sign(FALSE, TRUE, "*")>>)>>, People),
     Job("sign", 0, <<Point(1, <<Sign(TRUE, FALSE, "*")>>)>>, People),
     Job("doc", 1, <<Point(1, <<Doc(Ann), Doc(<<>>)>>), Point(2, <<Doc(Ann)>>)>>, <<>>),
     [Job("doc", 1, <<Point(1, <<Doc(Ann), Doc(Bob)>>), Point(2, <<Doc(<<9>>)>>)>>, <<>>) EXCEPT !.tolerance = 1]}

Word(text, confidence, key) == [text |-> text, confidence |-> confidence, key |-> key]
PageOf(box, prob, area, texts) == [box |-> box, whole |-> TRUE, prob |-> prob, area |-> area, texts |-> texts]

Far   == PageOf(4, 90, 4, <<Word(<<1, 3>>, 60, TRUE)>>)
Near  == PageOf(9, 90, 9, <<Word(<<3, 1, 2>>, 80, TRUE)>>)
Torn  == PageOf(6, 90, 6, <<Word(<<9>>, 70, FALSE)>>)
Blank == PageOf(9, 80, 9, <<>>)
Broken == [Near EXCEPT !.box = -1]
Half   == [Near EXCEPT !.whole = FALSE]

Shot(pages) == [ok |-> TRUE, pages |-> pages]
Failed == [ok |-> FALSE, pages |-> <<>>]
Shots == {Shot(<<>>), Shot(<<Far>>), Shot(<<Near>>), Shot(<<Torn>>)}

MCAnswers(kind) ==
    IF kind = "card"
    THEN [id_card : Shots \union {Failed}, multi_card : {Shot(<<>>), Shot(<<Far>>), Shot(<<Torn>>)}]
    ELSE IF kind = "sign" THEN [sign : Shots \union {Shot(<<Blank>>), Failed}]
    ELSE [doc : Shots \union {Shot(<<Blank>>), Shot(<<Far, Near>>), Shot(<<Broken>>), Shot(<<Half>>)}]

MCKeywords == [w \in {<<9>>} |-> "employee_card"]
=============================================================================
