------------------------- MODULE MCSubtitleMatching -------------------------
(* Small instances of SubtitleMatching: texts of three letters.            *)
EXTENDS SubtitleMatching

Text(text, threshold, patches, once, part, min, seconds) ==
    [text |-> text, threshold |-> threshold, patches |-> patches, once |-> once,
     part |-> part, min |-> min, seconds |-> seconds]

Job(texts, fps, height, new) == [texts |-> texts, fps |-> fps, height |-> height, new |-> new]

Static  == Text(<<1, 2, 3, 1, 2>>, 60, {}, FALSE, FALSE, 0, 1)
Scroll  == Text(<<1, 2, 3, 1, 1>>, 70, {}, FALSE, TRUE, 2, 0)
Once    == Text(<<2, 1, 3, 1>>, 75, {}, TRUE, FALSE, 0, 0)
Other   == Text(<<1, 2, 3, 2>>, 75, {Patch(1, 1), Patch(3, 3)}, FALSE, FALSE, 0, 0)

MCJobs ==
    {Job(<<Static>>, 4, 1, FALSE), Job(<<Scroll>>, 2, 1, FALSE), Job(<<Once>>, 2, 1, FALSE),
     Job(<<Other, Once>>, 2, 1, FALSE), Job(<<Static>>, 1, 1, FALSE),
     Job(<<Scroll>>, 2, 0, FALSE), Job(<<Static>>, 2, 1, TRUE)}

MCTexts == {<<1, 2, 3>>, <<3, 1, 2, 1>>, <<2, 1, 3, 1>>, <<1, 2, 3, 1>>, <<1, 1, 1, 2>>, <<3, 3, 1>>}
=============================================================================
