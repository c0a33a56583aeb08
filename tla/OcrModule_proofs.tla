---------------------------- MODULE OcrModule_proofs ----------------------------
(***************************************************************************)
(* Theorems about OcrInfo and OcrModule, for every job, every video and    *)
(* whatever the services answer: no sighting is lost or told twice, what a *)
(* result shows is the best of its stretch, and the verdicts of a job that *)
(* ended follow from what was seen.                                        *)
(***************************************************************************)
EXTENDS OcrModule, Selection_proofs

-----------------------------------------------------------------------------
(* The loops *)

\* A row of distances is made from left to right (levenshtein).
LEMMA RowType ==
  ASSUME NEW row, NEW x0, NEW b, Len(b) \in Nat, NEW A, row[0] + 1 \in A,
         \A i \in 1 .. Len(b), x \in A : Entry(row, x0, b, i, x) \in A
  PROVE  NextRow(row, x0, b) \in [0 .. Len(b) -> A]
<1> DEFINE n == Len(b)
           a == row[0] + 1
           Eq(f) == f = [i \in 0 .. n |-> IF i = 0 THEN a ELSE Entry(row, x0, b, i, f[i - 1])]
           k == CHOOSE f : Eq(f)
           G == [i \in 1 .. n |-> [x \in A |-> Entry(row, x0, b, i, x)]]
<1>1. NextRow(row, x0, b) = k
  BY DEF NextRow
<1>2. G \in [1 .. n -> [A -> A]] /\ \A i \in 1 .. n, x \in A : G[i][x] = Entry(row, x0, b, i, x)
  OBVIOUS
<1>3. n \in Nat /\ a \in A /\ \A i \in 1 .. n, x \in A : Entry(row, x0, b, i, x) \in A
  OBVIOUS
<1> HIDE DEF G, n, a
<1>4. PICK f \in [0 .. n -> A] : Iterates(f, n, a, G)
  BY <1>2, <1>3, Iteration
<1>5. Eq(f)
  <2>1. f = [i \in 0 .. n |-> IF i = 0 THEN a ELSE G[i][f[i - 1]]]
    BY <1>4 DEF Iterates
  <2>2. \A i \in 0 .. n : i # 0 => i \in 1 .. n /\ f[i - 1] \in A
    BY <1>3
  <2>3. QED BY <1>2, <2>1, <2>2
<1>6. Eq(k)
  BY <1>5
<1> HIDE DEF k
<1>7. /\ k = [i \in 0 .. n |-> k[i]] /\ k[0] = a
      /\ \A i \in 1 .. n : k[i] = Entry(row, x0, b, i, k[i - 1])
  <2>1. /\ k = [i \in 0 .. n |-> k[i]]
        /\ \A i \in 0 .. n : k[i] = IF i = 0 THEN a ELSE Entry(row, x0, b, i, k[i - 1])
    BY <1>6
  <2>2. 0 \in 0 .. n /\ \A i \in 1 .. n : i \in 0 .. n /\ i # 0
    BY <1>3
  <2>3. QED BY <2>1, <2>2
<1>8. \A i \in 1 .. n : k[i - 1] \in A => k[i] \in A
  BY <1>3, <1>7
<1>9. k \in [0 .. n -> A]
  BY <1>3, <1>7, <1>8, StaysIn
<1>10. k[n] \in A
  BY <1>3, <1>9
<1>11. QED BY <1>1, <1>9, <1>10 DEF n, a

\* Distances are made row by row (levenshtein).
LEMMA DistanceLoop ==
  ASSUME NEW a0, NEW b0, Len(a0) \in Nat, NEW A, FirstRow(b0) \in A,
         \A i \in 1 .. Len(a0), x \in A : NextRow(x, a0[i], b0) \in A
  PROVE  \E x \in A : levenshtein(a0, b0) = x[Len(b0)]
<1> DEFINE n == Len(a0)
           a == FirstRow(b0)
           Eq(f) == f = [i \in 0 .. n |-> IF i = 0 THEN a ELSE NextRow(f[i - 1], a0[i], b0)]
           k == CHOOSE f : Eq(f)
           G == [i \in 1 .. n |-> [x \in A |-> NextRow(x, a0[i], b0)]]
<1>1. levenshtein(a0, b0) = k[n][Len(b0)]
  BY DEF levenshtein
<1>2. G \in [1 .. n -> [A -> A]] /\ \A i \in 1 .. n, x \in A : G[i][x] = NextRow(x, a0[i], b0)
  OBVIOUS
<1>3. n \in Nat /\ a \in A /\ \A i \in 1 .. n, x \in A : NextRow(x, a0[i], b0) \in A
  OBVIOUS
<1> HIDE DEF G, n, a
<1>4. PICK f \in [0 .. n -> A] : Iterates(f, n, a, G)
  BY <1>2, <1>3, Iteration
<1>5. Eq(f)
  <2>1. f = [i \in 0 .. n |-> IF i = 0 THEN a ELSE G[i][f[i - 1]]]
    BY <1>4 DEF Iterates
  <2>2. \A i \in 0 .. n : i # 0 => i \in 1 .. n /\ f[i - 1] \in A
    BY <1>3
  <2>3. QED BY <1>2, <2>1, <2>2
<1>6. Eq(k)
  BY <1>5
<1> HIDE DEF k
<1>7. /\ k = [i \in 0 .. n |-> k[i]] /\ k[0] = a
      /\ \A i \in 1 .. n : k[i] = NextRow(k[i - 1], a0[i], b0)
  <2>1. /\ k = [i \in 0 .. n |-> k[i]]
        /\ \A i \in 0 .. n : k[i] = IF i = 0 THEN a ELSE NextRow(k[i - 1], a0[i], b0)
    BY <1>6
  <2>2. 0 \in 0 .. n /\ \A i \in 1 .. n : i \in 0 .. n /\ i # 0
    BY <1>3
  <2>3. QED BY <2>1, <2>2
<1>8. \A i \in 1 .. n : k[i - 1] \in A => k[i] \in A
  BY <1>3, <1>7
<1>9. k \in [0 .. n -> A]
  BY <1>3, <1>7, <1>8, StaysIn
<1>10. k[n] \in A
  BY <1>3, <1>9
<1>11. QED BY <1>1, <1>9, <1>10 DEF n, a

\* The confidences are added up.
LEMMA SumLoop ==
  ASSUME NEW texts, Len(texts) \in Nat, NEW A, 0 \in A,
         \A i \in 1 .. Len(texts), x \in A : x + texts[i].confidence \in A
  PROVE  Sum(texts) \in A
<1> DEFINE n == Len(texts)
           a == 0
           Eq(f) == f = [i \in 0 .. n |-> IF i = 0 THEN a ELSE f[i - 1] + texts[i].confidence]
           k == CHOOSE f : Eq(f)
           G == [i \in 1 .. n |-> [x \in A |-> x + texts[i].confidence]]
<1>1. Sum(texts) = k[n]
  BY DEF Sum
<1>2. G \in [1 .. n -> [A -> A]] /\ \A i \in 1 .. n, x \in A : G[i][x] = x + texts[i].confidence
  OBVIOUS
<1>3. n \in Nat /\ a \in A /\ \A i \in 1 .. n, x \in A : x + texts[i].confidence \in A
  OBVIOUS
<1> HIDE DEF G, n, a
<1>4. PICK f \in [0 .. n -> A] : Iterates(f, n, a, G)
  BY <1>2, <1>3, Iteration
<1>5. Eq(f)
  <2>1. f = [i \in 0 .. n |-> IF i = 0 THEN a ELSE G[i][f[i - 1]]]
    BY <1>4 DEF Iterates
  <2>2. \A i \in 0 .. n : i # 0 => i \in 1 .. n /\ f[i - 1] \in A
    BY <1>3
  <2>3. QED BY <1>2, <2>1, <2>2
<1>6. Eq(k)
  BY <1>5
<1> HIDE DEF k
<1>7. /\ k = [i \in 0 .. n |-> k[i]] /\ k[0] = a
      /\ \A i \in 1 .. n : k[i] = k[i - 1] + texts[i].confidence
  <2>1. /\ k = [i \in 0 .. n |-> k[i]]
        /\ \A i \in 0 .. n : k[i] = IF i = 0 THEN a ELSE k[i - 1] + texts[i].confidence
    BY <1>6
  <2>2. 0 \in 0 .. n /\ \A i \in 1 .. n : i \in 0 .. n /\ i # 0
    BY <1>3
  <2>3. QED BY <2>1, <2>2
<1>8. \A i \in 1 .. n : k[i - 1] \in A => k[i] \in A
  BY <1>3, <1>7
<1>9. k \in [0 .. n -> A]
  BY <1>3, <1>7, <1>8, StaysIn
<1>10. k[n] \in A
  BY <1>3, <1>9
<1>11. QED BY <1>1, <1>9, <1>10 DEF n, a

\* One sighting is stored after the other.
StoresAlong(k, m, infos, frame) ==
    /\ k[0] = m
    /\ \A i \in 1 .. Len(infos) : k[i] = Store(k[i - 1], infos[i], frame)

\* do_detection stores one after the other.
LEMMA DetectSteps ==
  ASSUME NEW m, NEW infos, NEW frame, Len(infos) \in Nat, NEW A, m \in A,
         \A i \in 1 .. Len(infos), x \in A : Store(x, infos[i], frame) \in A
  PROVE  \E k \in [0 .. Len(infos) -> A] :
           /\ do_detection(m, infos, frame) = k[Len(infos)]
           /\ StoresAlong(k, m, infos, frame)
<1> DEFINE n == Len(infos)
           a == m
           Eq(f) == f = [i \in 0 .. n |-> IF i = 0 THEN a ELSE Store(f[i - 1], infos[i], frame)]
           k == CHOOSE f : Eq(f)
           G == [i \in 1 .. n |-> [x \in A |-> Store(x, infos[i], frame)]]
<1>1. do_detection(m, infos, frame) = k[n]
  BY DEF do_detection
<1>2. G \in [1 .. n -> [A -> A]] /\ \A i \in 1 .. n, x \in A : G[i][x] = Store(x, infos[i], frame)
  OBVIOUS
<1>3. n \in Nat /\ a \in A /\ \A i \in 1 .. n, x \in A : Store(x, infos[i], frame) \in A
  OBVIOUS
<1> HIDE DEF G, n, a
<1>4. PICK f \in [0 .. n -> A] : Iterates(f, n, a, G)
  BY <1>2, <1>3, Iteration
<1>5. Eq(f)
  <2>1. f = [i \in 0 .. n |-> IF i = 0 THEN a ELSE G[i][f[i - 1]]]
    BY <1>4 DEF Iterates
  <2>2. \A i \in 0 .. n : i # 0 => i \in 1 .. n /\ f[i - 1] \in A
    BY <1>3
  <2>3. QED BY <1>2, <2>1, <2>2
<1>6. Eq(k)
  BY <1>5
<1> HIDE DEF k
<1>7. /\ k = [i \in 0 .. n |-> k[i]] /\ k[0] = a
      /\ \A i \in 1 .. n : k[i] = Store(k[i - 1], infos[i], frame)
  <2>1. /\ k = [i \in 0 .. n |-> k[i]]
        /\ \A i \in 0 .. n : k[i] = IF i = 0 THEN a ELSE Store(k[i - 1], infos[i], frame)
    BY <1>6
  <2>2. 0 \in 0 .. n /\ \A i \in 1 .. n : i \in 0 .. n /\ i # 0
    BY <1>3
  <2>3. QED BY <2>1, <2>2
<1>8. \A i \in 1 .. n : k[i - 1] \in A => k[i] \in A
  BY <1>3, <1>7
<1>9. k \in [0 .. n -> A]
  BY <1>3, <1>7, <1>8, StaysIn
<1>10. k[n] \in A
  BY <1>3, <1>9
<1>11. StoresAlong(k, m, infos, frame)
  BY <1>7 DEF StoresAlong, n, a
<1>12. QED BY <1>1, <1>9, <1>11 DEF n

\* One text is compared after the other.
ReadsAlong(k, m, expected, before, info, frame) ==
    /\ k[0] = before
    /\ \A i \in 1 .. Len(info.texts) : k[i] = Closer(m, expected, k[i - 1], info.texts[i], info.whole, frame)

\* _recogition_text compares one after the other.
LEMMA ReadSteps ==
  ASSUME NEW m, NEW expected, NEW before, NEW info, NEW frame, Len(info.texts) \in Nat, NEW A, before \in A,
         \A i \in 1 .. Len(info.texts), x \in A : Closer(m, expected, x, info.texts[i], info.whole, frame) \in A
  PROVE  \E k \in [0 .. Len(info.texts) -> A] :
           /\ _recogition_text(m, expected, before, info, frame) = k[Len(info.texts)]
           /\ ReadsAlong(k, m, expected, before, info, frame)
<1> DEFINE n == Len(info.texts)
           a == before
           Eq(f) == f = [i \in 0 .. n |-> IF i = 0 THEN a
                                          ELSE Closer(m, expected, f[i - 1], info.texts[i], info.whole, frame)]
           k == CHOOSE f : Eq(f)
           G == [i \in 1 .. n |-> [x \in A |-> Closer(m, expected, x, info.texts[i], info.whole, frame)]]
<1>1. _recogition_text(m, expected, before, info, frame) = k[n]
  BY DEF _recogition_text
<1>2. G \in [1 .. n -> [A -> A]] /\ \A i \in 1 .. n, x \in A :
            G[i][x] = Closer(m, expected, x, info.texts[i], info.whole, frame)
  OBVIOUS
<1>3. n \in Nat /\ a \in A /\ \A i \in 1 .. n, x \in A :
            Closer(m, expected, x, info.texts[i], info.whole, frame) \in A
  OBVIOUS
<1> HIDE DEF G, n, a
<1>4. PICK f \in [0 .. n -> A] : Iterates(f, n, a, G)
  BY <1>2, <1>3, Iteration
<1>5. Eq(f)
  <2>1. f = [i \in 0 .. n |-> IF i = 0 THEN a ELSE G[i][f[i - 1]]]
    BY <1>4 DEF Iterates
  <2>2. \A i \in 0 .. n : i # 0 => i \in 1 .. n /\ f[i - 1] \in A
    BY <1>3
  <2>3. QED BY <1>2, <2>1, <2>2
<1>6. Eq(k)
  BY <1>5
<1> HIDE DEF k
<1>7. /\ k = [i \in 0 .. n |-> k[i]] /\ k[0] = a
      /\ \A i \in 1 .. n : k[i] = Closer(m, expected, k[i - 1], info.texts[i], info.whole, frame)
  <2>1. /\ k = [i \in 0 .. n |-> k[i]]
        /\ \A i \in 0 .. n : k[i] = IF i = 0 THEN a
                                    ELSE Closer(m, expected, k[i - 1], info.texts[i], info.whole, frame)
    BY <1>6
  <2>2. 0 \in 0 .. n /\ \A i \in 1 .. n : i \in 0 .. n /\ i # 0
    BY <1>3
  <2>3. QED BY <2>1, <2>2
<1>8. \A i \in 1 .. n : k[i - 1] \in A => k[i] \in A
  BY <1>3, <1>7
<1>9. k \in [0 .. n -> A]
  BY <1>3, <1>7, <1>8, StaysIn
<1>10. k[n] \in A
  BY <1>3, <1>9
<1>11. ReadsAlong(k, m, expected, before, info, frame)
  BY <1>7 DEF ReadsAlong, n, a
<1>12. QED BY <1>1, <1>9, <1>11 DEF n

\* One sighting is read after the other.
BestAlong(k, m, expected, before, infos, frame) ==
    /\ k[0] = before
    /\ \A i \in 1 .. Len(infos) : k[i] = _recogition_text(m, expected, k[i - 1], infos[i], frame)

\* do_recognition reads one after the other.
LEMMA BestSteps ==
  ASSUME NEW m, NEW expected, NEW before, NEW infos, NEW frame, Len(infos) \in Nat, NEW A, before \in A,
         \A i \in 1 .. Len(infos), x \in A : _recogition_text(m, expected, x, infos[i], frame) \in A
  PROVE  \E k \in [0 .. Len(infos) -> A] :
           /\ BestReading(m, expected, before, infos, frame) = k[Len(infos)]
           /\ BestAlong(k, m, expected, before, infos, frame)
<1> DEFINE n == Len(infos)
           a == before
           Eq(f) == f = [i \in 0 .. n |-> IF i = 0 THEN a
                                          ELSE _recogition_text(m, expected, f[i - 1], infos[i], frame)]
           k == CHOOSE f : Eq(f)
           G == [i \in 1 .. n |-> [x \in A |-> _recogition_text(m, expected, x, infos[i], frame)]]
<1>1. BestReading(m, expected, before, infos, frame) = k[n]
  BY DEF BestReading
<1>2. G \in [1 .. n -> [A -> A]] /\ \A i \in 1 .. n, x \in A :
            G[i][x] = _recogition_text(m, expected, x, infos[i], frame)
  OBVIOUS
<1>3. n \in Nat /\ a \in A /\ \A i \in 1 .. n, x \in A : _recogition_text(m, expected, x, infos[i], frame) \in A
  OBVIOUS
<1> HIDE DEF G, n, a
<1>4. PICK f \in [0 .. n -> A] : Iterates(f, n, a, G)
  BY <1>2, <1>3, Iteration
<1>5. Eq(f)
  <2>1. f = [i \in 0 .. n |-> IF i = 0 THEN a ELSE G[i][f[i - 1]]]
    BY <1>4 DEF Iterates
  <2>2. \A i \in 0 .. n : i # 0 => i \in 1 .. n /\ f[i - 1] \in A
    BY <1>3
  <2>3. QED BY <1>2, <2>1, <2>2
<1>6. Eq(k)
  BY <1>5
<1> HIDE DEF k
<1>7. /\ k = [i \in 0 .. n |-> k[i]] /\ k[0] = a
      /\ \A i \in 1 .. n : k[i] = _recogition_text(m, expected, k[i - 1], infos[i], frame)
  <2>1. /\ k = [i \in 0 .. n |-> k[i]]
        /\ \A i \in 0 .. n : k[i] = IF i = 0 THEN a
                                    ELSE _recogition_text(m, expected, k[i - 1], infos[i], frame)
    BY <1>6
  <2>2. 0 \in 0 .. n /\ \A i \in 1 .. n : i \in 0 .. n /\ i # 0
    BY <1>3
  <2>3. QED BY <2>1, <2>2
<1>8. \A i \in 1 .. n : k[i - 1] \in A => k[i] \in A
  BY <1>3, <1>7
<1>9. k \in [0 .. n -> A]
  BY <1>3, <1>7, <1>8, StaysIn
<1>10. k[n] \in A
  BY <1>3, <1>9
<1>11. BestAlong(k, m, expected, before, infos, frame)
  BY <1>7 DEF BestAlong, n, a
<1>12. QED BY <1>1, <1>9, <1>11 DEF n

\* The cards of one person after the other.
LEMMA CardsLoop ==
  ASSUME NEW participants, Len(participants) \in Nat, NEW A, <<>> \in A,
         \A i \in 1 .. Len(participants), x \in A : x \o participants[i].cards \in A
  PROVE  CardsOf(participants) \in A
<1> DEFINE n == Len(participants)
           a == <<>>
           Eq(f) == f = [i \in 0 .. n |-> IF i = 0 THEN a ELSE f[i - 1] \o participants[i].cards]
           k == CHOOSE f : Eq(f)
           G == [i \in 1 .. n |-> [x \in A |-> x \o participants[i].cards]]
<1>1. CardsOf(participants) = k[n]
  BY DEF CardsOf
<1>2. G \in [1 .. n -> [A -> A]] /\ \A i \in 1 .. n, x \in A : G[i][x] = x \o participants[i].cards
  OBVIOUS
<1>3. n \in Nat /\ a \in A /\ \A i \in 1 .. n, x \in A : x \o participants[i].cards \in A
  OBVIOUS
<1> HIDE DEF G, n, a
<1>4. PICK f \in [0 .. n -> A] : Iterates(f, n, a, G)
  BY <1>2, <1>3, Iteration
<1>5. Eq(f)
  <2>1. f = [i \in 0 .. n |-> IF i = 0 THEN a ELSE G[i][f[i - 1]]]
    BY <1>4 DEF Iterates
  <2>2. \A i \in 0 .. n : i # 0 => i \in 1 .. n /\ f[i - 1] \in A
    BY <1>3
  <2>3. QED BY <1>2, <2>1, <2>2
<1>6. Eq(k)
  BY <1>5
<1> HIDE DEF k
<1>7. /\ k = [i \in 0 .. n |-> k[i]] /\ k[0] = a
      /\ \A i \in 1 .. n : k[i] = k[i - 1] \o participants[i].cards
  <2>1. /\ k = [i \in 0 .. n |-> k[i]]
        /\ \A i \in 0 .. n : k[i] = IF i = 0 THEN a ELSE k[i - 1] \o participants[i].cards
    BY <1>6
  <2>2. 0 \in 0 .. n /\ \A i \in 1 .. n : i \in 0 .. n /\ i # 0
    BY <1>3
  <2>3. QED BY <2>1, <2>2
<1>8. \A i \in 1 .. n : k[i - 1] \in A => k[i] \in A
  BY <1>3, <1>7
<1>9. k \in [0 .. n -> A]
  BY <1>3, <1>7, <1>8, StaysIn
<1>10. k[n] \in A
  BY <1>3, <1>9
<1>11. QED BY <1>1, <1>9, <1>10 DEF n, a

\* One card is asked for after the other.
LEMMA AskCardsLoop ==
  ASSUME NEW acc, NEW point, NEW cfg, NEW cards, Len(cards) \in Nat, NEW A, acc \in A,
         \A i \in 1 .. Len(cards), x \in A : Ask(x, point, cfg.type, CardContents(cfg, cards[i])) \in A
  PROVE  AskCards(acc, point, cfg, cards) \in A
<1> DEFINE n == Len(cards)
           a == acc
           Eq(f) == f = [i \in 0 .. n |-> IF i = 0 THEN a
                                          ELSE Ask(f[i - 1], point, cfg.type, CardContents(cfg, cards[i]))]
           k == CHOOSE f : Eq(f)
           G == [i \in 1 .. n |-> [x \in A |-> Ask(x, point, cfg.type, CardContents(cfg, cards[i]))]]
<1>1. AskCards(acc, point, cfg, cards) = k[n]
  BY DEF AskCards
<1>2. G \in [1 .. n -> [A -> A]] /\ \A i \in 1 .. n, x \in A :
            G[i][x] = Ask(x, point, cfg.type, CardContents(cfg, cards[i]))
  OBVIOUS
<1>3. n \in Nat /\ a \in A /\ \A i \in 1 .. n, x \in A :
            Ask(x, point, cfg.type, CardContents(cfg, cards[i])) \in A
  OBVIOUS
<1> HIDE DEF G, n, a
<1>4. PICK f \in [0 .. n -> A] : Iterates(f, n, a, G)
  BY <1>2, <1>3, Iteration
<1>5. Eq(f)
  <2>1. f = [i \in 0 .. n |-> IF i = 0 THEN a ELSE G[i][f[i - 1]]]
    BY <1>4 DEF Iterates
  <2>2. \A i \in 0 .. n : i # 0 => i \in 1 .. n /\ f[i - 1] \in A
    BY <1>3
  <2>3. QED BY <1>2, <2>1, <2>2
<1>6. Eq(k)
  BY <1>5
<1> HIDE DEF k
<1>7. /\ k = [i \in 0 .. n |-> k[i]] /\ k[0] = a
      /\ \A i \in 1 .. n : k[i] = Ask(k[i - 1], point, cfg.type, CardContents(cfg, cards[i]))
  <2>1. /\ k = [i \in 0 .. n |-> k[i]]
        /\ \A i \in 0 .. n : k[i] = IF i = 0 THEN a
                                    ELSE Ask(k[i - 1], point, cfg.type, CardContents(cfg, cards[i]))
    BY <1>6
  <2>2. 0 \in 0 .. n /\ \A i \in 1 .. n : i \in 0 .. n /\ i # 0
    BY <1>3
  <2>3. QED BY <2>1, <2>2
<1>8. \A i \in 1 .. n : k[i - 1] \in A => k[i] \in A
  BY <1>3, <1>7
<1>9. k \in [0 .. n -> A]
  BY <1>3, <1>7, <1>8, StaysIn
<1>10. k[n] \in A
  BY <1>3, <1>9
<1>11. QED BY <1>1, <1>9, <1>10 DEF n, a

\* One name is asked for after the other.
LEMMA AskNamesLoop ==
  ASSUME NEW acc, NEW point, NEW sign, NEW signers, Len(signers) \in Nat, NEW A, acc \in A,
         \A i \in 1 .. Len(signers), x \in A :
                  Ask(x, point, "sign", <<[text |-> signers[i].name, threshold |-> sign.threshold]>>) \in A
  PROVE  AskNames(acc, point, sign, signers) \in A
<1> DEFINE n == Len(signers)
           a == acc
           Eq(f) == f = [i \in 0 .. n |-> IF i = 0 THEN a
                                          ELSE Ask(f[i - 1], point, "sign",
                                                 <<[text |-> signers[i].name, threshold |-> sign.threshold]>>)]
           k == CHOOSE f : Eq(f)
           G == [i \in 1 .. n |-> [x \in A |->
                        Ask(x, point, "sign", <<[text |-> signers[i].name, threshold |-> sign.threshold]>>)]]
<1>1. AskNames(acc, point, sign, signers) = k[n]
  BY DEF AskNames
<1>2. G \in [1 .. n -> [A -> A]] /\ \A i \in 1 .. n, x \in A :
            G[i][x] = Ask(x, point, "sign", <<[text |-> signers[i].name, threshold |-> sign.threshold]>>)
  OBVIOUS
<1>3. n \in Nat /\ a \in A /\ \A i \in 1 .. n, x \in A :
            Ask(x, point, "sign", <<[text |-> signers[i].name, threshold |-> sign.threshold]>>) \in A
  OBVIOUS
<1> HIDE DEF G, n, a
<1>4. PICK f \in [0 .. n -> A] : Iterates(f, n, a, G)
  BY <1>2, <1>3, Iteration
<1>5. Eq(f)
  <2>1. f = [i \in 0 .. n |-> IF i = 0 THEN a ELSE G[i][f[i - 1]]]
    BY <1>4 DEF Iterates
  <2>2. \A i \in 0 .. n : i # 0 => i \in 1 .. n /\ f[i - 1] \in A
    BY <1>3
  <2>3. QED BY <1>2, <2>1, <2>2
<1>6. Eq(k)
  BY <1>5
<1> HIDE DEF k
<1>7. /\ k = [i \in 0 .. n |-> k[i]] /\ k[0] = a
      /\ \A i \in 1 .. n :
                  k[i] = Ask(k[i - 1], point, "sign",
                             <<[text |-> signers[i].name, threshold |-> sign.threshold]>>)
  <2>1. /\ k = [i \in 0 .. n |-> k[i]]
        /\ \A i \in 0 .. n : k[i] = IF i = 0 THEN a
                                    ELSE Ask(k[i - 1], point, "sign",
                                           <<[text |-> signers[i].name, threshold |-> sign.threshold]>>)
    BY <1>6
  <2>2. 0 \in 0 .. n /\ \A i \in 1 .. n : i \in 0 .. n /\ i # 0
    BY <1>3
  <2>3. QED BY <2>1, <2>2
<1>8. \A i \in 1 .. n : k[i - 1] \in A => k[i] \in A
  BY <1>3, <1>7
<1>9. k \in [0 .. n -> A]
  BY <1>3, <1>7, <1>8, StaysIn
<1>10. k[n] \in A
  BY <1>3, <1>9
<1>11. QED BY <1>1, <1>9, <1>10 DEF n, a

\* A rule point is parsed one configuration after the other.
LEMMA PointLoop ==
  ASSUME NEW acc, NEW point, Len(point.cfgs) \in Nat, NEW A, [acc EXCEPT !.cfgs = <<>>, !.over = FALSE] \in A,
         \A i \in 1 .. Len(point.cfgs), x \in A : _get_recog_cfg(x, point, point.cfgs[i]) \in A
  PROVE  \E x \in A : parse_point(acc, point) = [x EXCEPT !.cfgs = acc.cfgs \o x.cfgs]
<1> DEFINE n == Len(point.cfgs)
           a == [acc EXCEPT !.cfgs = <<>>, !.over = FALSE]
           Eq(f) == f = [i \in 0 .. n |-> IF i = 0 THEN a ELSE _get_recog_cfg(f[i - 1], point, point.cfgs[i])]
           k == CHOOSE f : Eq(f)
           G == [i \in 1 .. n |-> [x \in A |-> _get_recog_cfg(x, point, point.cfgs[i])]]
<1>1. parse_point(acc, point) = [k[n] EXCEPT !.cfgs = acc.cfgs \o k[n].cfgs]
  BY DEF parse_point
<1>2. G \in [1 .. n -> [A -> A]] /\ \A i \in 1 .. n, x \in A : G[i][x] = _get_recog_cfg(x, point, point.cfgs[i])
  OBVIOUS
<1>3. n \in Nat /\ a \in A /\ \A i \in 1 .. n, x \in A : _get_recog_cfg(x, point, point.cfgs[i]) \in A
  OBVIOUS
<1> HIDE DEF G, n, a
<1>4. PICK f \in [0 .. n -> A] : Iterates(f, n, a, G)
  BY <1>2, <1>3, Iteration
<1>5. Eq(f)
  <2>1. f = [i \in 0 .. n |-> IF i = 0 THEN a ELSE G[i][f[i - 1]]]
    BY <1>4 DEF Iterates
  <2>2. \A i \in 0 .. n : i # 0 => i \in 1 .. n /\ f[i - 1] \in A
    BY <1>3
  <2>3. QED BY <1>2, <2>1, <2>2
<1>6. Eq(k)
  BY <1>5
<1> HIDE DEF k
<1>7. /\ k = [i \in 0 .. n |-> k[i]] /\ k[0] = a
      /\ \A i \in 1 .. n : k[i] = _get_recog_cfg(k[i - 1], point, point.cfgs[i])
  <2>1. /\ k = [i \in 0 .. n |-> k[i]]
        /\ \A i \in 0 .. n : k[i] = IF i = 0 THEN a ELSE _get_recog_cfg(k[i - 1], point, point.cfgs[i])
    BY <1>6
  <2>2. 0 \in 0 .. n /\ \A i \in 1 .. n : i \in 0 .. n /\ i # 0
    BY <1>3
  <2>3. QED BY <2>1, <2>2
<1>8. \A i \in 1 .. n : k[i - 1] \in A => k[i] \in A
  BY <1>3, <1>7
<1>9. k \in [0 .. n -> A]
  BY <1>3, <1>7, <1>8, StaysIn
<1>10. k[n] \in A
  BY <1>3, <1>9
<1>11. QED BY <1>1, <1>9, <1>10 DEF n, a

\* A job is parsed one rule point after the other.
LEMMA TaskLoop ==
  ASSUME NEW known, NEW pairs, NEW points, points = job.points, Len(points) \in Nat, NEW A,
         Parsed(known, pairs, <<>>) \in A,
         \A i \in 1 .. Len(points), x \in A : parse_point(x, points[i]) \in A
  PROVE  parse_task(known, pairs) \in A
<1> DEFINE n == Len(points)
           a == Parsed(known, pairs, <<>>)
           Eq(f) == f = [i \in 0 .. n |-> IF i = 0 THEN a ELSE parse_point(f[i - 1], points[i])]
           k == CHOOSE f : Eq(f)
           G == [i \in 1 .. n |-> [x \in A |-> parse_point(x, points[i])]]
<1>1. parse_task(known, pairs) = k[n]
  BY DEF parse_task
<1>2. G \in [1 .. n -> [A -> A]] /\ \A i \in 1 .. n, x \in A : G[i][x] = parse_point(x, points[i])
  OBVIOUS
<1>3. n \in Nat /\ a \in A /\ \A i \in 1 .. n, x \in A : parse_point(x, points[i]) \in A
  OBVIOUS
<1> HIDE DEF G, n, a
<1>4. PICK f \in [0 .. n -> A] : Iterates(f, n, a, G)
  BY <1>2, <1>3, Iteration
<1>5. Eq(f)
  <2>1. f = [i \in 0 .. n |-> IF i = 0 THEN a ELSE G[i][f[i - 1]]]
    BY <1>4 DEF Iterates
  <2>2. \A i \in 0 .. n : i # 0 => i \in 1 .. n /\ f[i - 1] \in A
    BY <1>3
  <2>3. QED BY <1>2, <2>1, <2>2
<1>6. Eq(k)
  BY <1>5
<1> HIDE DEF k
<1>7. /\ k = [i \in 0 .. n |-> k[i]] /\ k[0] = a
      /\ \A i \in 1 .. n : k[i] = parse_point(k[i - 1], points[i])
  <2>1. /\ k = [i \in 0 .. n |-> k[i]]
        /\ \A i \in 0 .. n : k[i] = IF i = 0 THEN a ELSE parse_point(k[i - 1], points[i])
    BY <1>6
  <2>2. 0 \in 0 .. n /\ \A i \in 1 .. n : i \in 0 .. n /\ i # 0
    BY <1>3
  <2>3. QED BY <2>1, <2>2
<1>8. \A i \in 1 .. n : k[i - 1] \in A => k[i] \in A
  BY <1>3, <1>7
<1>9. k \in [0 .. n -> A]
  BY <1>3, <1>7, <1>8, StaysIn
<1>10. k[n] \in A
  BY <1>3, <1>9
<1>11. QED BY <1>1, <1>9, <1>10 DEF n, a

\* One configuration is registered after the other.
LEMMA ExpectedLoop ==
  ASSUME NEW mine, NEW type, Len(mine) \in Nat, NEW A, <<>> \in A,
         \A i \in 1 .. Len(mine), x \in A :
                  append_contents(x, type, mine[i].id, mine[i].contents, Keys(mine[i].contents)) \in A
  PROVE  Expected(mine, type) \in A
<1> DEFINE n == Len(mine)
           a == <<>>
           Eq(f) == f = [i \in 0 .. n |-> IF i = 0 THEN a
                                          ELSE append_contents(f[i - 1], type,
                                                 mine[i].id, mine[i].contents, Keys(mine[i].contents))]
           k == CHOOSE f : Eq(f)
           G == [i \in 1 .. n |-> [x \in A |->
                        append_contents(x, type, mine[i].id, mine[i].contents, Keys(mine[i].contents))]]
<1>1. Expected(mine, type) = k[n]
  BY DEF Expected
<1>2. G \in [1 .. n -> [A -> A]] /\ \A i \in 1 .. n, x \in A :
            G[i][x] = append_contents(x, type, mine[i].id, mine[i].contents, Keys(mine[i].contents))
  OBVIOUS
<1>3. n \in Nat /\ a \in A /\ \A i \in 1 .. n, x \in A :
            append_contents(x, type, mine[i].id, mine[i].contents, Keys(mine[i].contents)) \in A
  OBVIOUS
<1> HIDE DEF G, n, a
<1>4. PICK f \in [0 .. n -> A] : Iterates(f, n, a, G)
  BY <1>2, <1>3, Iteration
<1>5. Eq(f)
  <2>1. f = [i \in 0 .. n |-> IF i = 0 THEN a ELSE G[i][f[i - 1]]]
    BY <1>4 DEF Iterates
  <2>2. \A i \in 0 .. n : i # 0 => i \in 1 .. n /\ f[i - 1] \in A
    BY <1>3
  <2>3. QED BY <1>2, <2>1, <2>2
<1>6. Eq(k)
  BY <1>5
<1> HIDE DEF k
<1>7. /\ k = [i \in 0 .. n |-> k[i]] /\ k[0] = a
      /\ \A i \in 1 .. n :
                  k[i] = append_contents(k[i - 1], type, mine[i].id, mine[i].contents, Keys(mine[i].contents))
  <2>1. /\ k = [i \in 0 .. n |-> k[i]]
        /\ \A i \in 0 .. n : k[i] = IF i = 0 THEN a
                                    ELSE append_contents(k[i - 1], type,
                                           mine[i].id, mine[i].contents, Keys(mine[i].contents))
    BY <1>6
  <2>2. 0 \in 0 .. n /\ \A i \in 1 .. n : i \in 0 .. n /\ i # 0
    BY <1>3
  <2>3. QED BY <2>1, <2>2
<1>8. \A i \in 1 .. n : k[i - 1] \in A => k[i] \in A
  BY <1>3, <1>7
<1>9. k \in [0 .. n -> A]
  BY <1>3, <1>7, <1>8, StaysIn
<1>10. k[n] \in A
  BY <1>3, <1>9
<1>11. QED BY <1>1, <1>9, <1>10 DEF n, a

-----------------------------------------------------------------------------
(* A manager *)

\* m has the fields of a manager.
Fields(m) ==
    m = [kind |-> m.kind, type |-> m.type, tolerance |-> m.tolerance, recognise |-> m.recognise,
         expected |-> m.expected, read |-> m.read, frame |-> m.frame, frames_count |-> m.frames_count,
         ttl |-> m.ttl, start |-> m.start, area |-> m.area, confidence |-> m.confidence,
         stored |-> m.stored, stored_frame |-> m.stored_frame]

\* n follows what m follows, since when m does.
SameStretch(m, n) ==
    /\ Fields(n) /\ n.kind = m.kind /\ n.frame = m.frame
    /\ n.frames_count = m.frames_count /\ n.start = m.start

\* The best sighting so far does not touch the stretch (do_detection).
LEMMA Detecting ==
  ASSUME NEW m, Fields(m), NEW infos, AList(infos), NEW frame
  PROVE  SameStretch(m, do_detection(m, infos, frame))
<1> DEFINE n == Len(infos)
           A == {m.area} \union {bbox_area(infos[i]) : i \in 1 .. n}
           B == {m.stored} \union {infos[i] : i \in 1 .. n}
           C == {m.confidence} \union {infos[i].confidence : i \in 1 .. n}
                  \union {infos[i].detection : i \in 1 .. n}
           T == [kind: {m.kind}, type: {m.type}, tolerance: {m.tolerance}, recognise: {m.recognise},
                 expected: {m.expected}, read: {m.read}, frame: {m.frame}, frames_count: {m.frames_count},
                 ttl: {m.ttl}, start: {m.start}, area: A, confidence: C, stored: B,
                 stored_frame: {m.stored_frame, frame}]
<1>1. n \in Nat
  <2>1. infos \in Seq(Range(infos))
    BY DEF AList
  <2>2. QED BY <2>1
<1>2. m \in T
  BY DEF Fields
<1>3. \A x \in T, i \in 1 .. n : Store(x, infos[i], frame) \in T
  <2> SUFFICES ASSUME NEW x \in T, NEW i \in 1 .. n PROVE Store(x, infos[i], frame) \in T
    OBVIOUS
  <2> DEFINE area == bbox_area(infos[i])
             confidence == IF x.kind = "id_card" /\ infos[i].confidence = 0
                           THEN infos[i].detection ELSE infos[i].confidence
             stored == infos[i]
             new == [x EXCEPT !.area = area, !.stored = stored, !.stored_frame = frame,
                              !.confidence = confidence]
  <2>1. Store(x, infos[i], frame) \in {x, new}
    BY DEF Store
  <2>2. area \in A /\ confidence \in C /\ stored \in B
    OBVIOUS
  <2> HIDE DEF area, confidence, stored, A, B, C
  <2>3. new \in T
    BY <2>2
  <2> HIDE DEF new, T
  <2>4. QED BY <2>1, <2>3
<1>4. \A x \in T : SameStretch(m, x)
  BY DEF SameStretch, Fields
<1> HIDE DEF T
<1>5. do_detection(m, infos, frame) \in T
  <2>1. \E k \in [0 .. n -> T] :
           do_detection(m, infos, frame) = k[n] /\ StoresAlong(k, m, infos, frame)
    BY <1>1, <1>2, <1>3, DetectSteps
  <2>2. QED BY <1>1, <2>1
<1>6. QED BY <1>4, <1>5

\* Nor does what was read (do_recognition).
LEMMA Recognising ==
  ASSUME NEW m, Fields(m), NEW infos, NEW frame
  PROVE  SameStretch(m, do_recognition(m, infos, frame))
<1> DEFINE read == [e \in DOMAIN m.read |->
              [f \in DOMAIN m.read[e] |->
                BestReading(m, m.expected[e].contents[f].text, m.read[e][f], infos, frame)]]
<1>1. do_recognition(m, infos, frame) \in {m, [m EXCEPT !.read = read]}
  BY DEF do_recognition
<1> HIDE DEF read
<1>2. SameStretch(m, [m EXCEPT !.read = read])
  BY DEF Fields, SameStretch
<1>3. SameStretch(m, m)
  BY DEF SameStretch
<1>4. QED BY <1>1, <1>2, <1>3

\* A result that tells of the stretch from one frame to another.
Tells(r, from, to) ==
    r.from = from /\ r.to = to /\ r # None /\ r # Raises

\* A result that does not raise tells of the stretch from start to the frame given.
LEMMA Telling ==
  ASSUME NEW m, NEW to
  PROVE  _gen_tracking_result(m, to) = Raises \/ Tells(_gen_tracking_result(m, to), m.start, to)
<1>1. ASSUME NEW id, NEW frame, NEW confidence, NEW recognised, NEW whole
      PROVE  LET r == Tracked(m, id, to, frame, confidence, recognised, whole)
             IN  r = Raises \/ Tells(r, m.start, to)
  <2> DEFINE r == [id |-> id, from |-> m.start, to |-> to, frame |-> frame, confidence |-> confidence,
                   recognised |-> recognised]
  <2>1. Tracked(m, id, to, frame, confidence, recognised, whole) \in {Raises, r}
    BY DEF Tracked
  <2>2. DOMAIN r = {"id", "from", "to", "frame", "confidence", "recognised"} /\ DOMAIN None = {"none"}
        /\ DOMAIN Raises = {"raises"}
    BY DEF None, Raises
  <2>3. r # None /\ r # Raises
    <3>1. "id" \in DOMAIN r /\ "id" \notin DOMAIN None /\ "id" \notin DOMAIN Raises
      BY <2>2
    <3> HIDE DEF r
    <3>2. QED BY <3>1
  <2>4. Tells(r, m.start, to)
    BY <2>3 DEF Tells
  <2>5. QED BY <2>1, <2>4
<1>2. _gen_detect_tracking_result(m, to) = Raises
        \/ Tells(_gen_detect_tracking_result(m, to), m.start, to)
  BY <1>1 DEF _gen_detect_tracking_result
<1>3. _gen_recog_tracking_result(m, to) = Raises
        \/ Tells(_gen_recog_tracking_result(m, to), m.start, to)
  BY <1>1 DEF _gen_recog_tracking_result
<1>4. QED BY <1>2, <1>3 DEF _gen_tracking_result

-----------------------------------------------------------------------------
(* What has been seen, what has been told and what is followed still *)

\* Something was seen in frame f.
SeenAt(S, f) == \E k \in 1 .. Len(S) : S[k][1] = f

\* Frame f lies in a result.
In(R, f) == \E n \in 1 .. Len(R) : Within(R[n], f)

\* The results are stretches one after the other that begin with a sighting.
Told(R, S, now) ==
    /\ AList(R) /\ AList(S)
    /\ \A n \in 1 .. Len(R) : /\ R[n].from \in Int /\ R[n].to \in Int
                              /\ 1 <= R[n].from /\ R[n].from <= R[n].to /\ R[n].to <= now
    /\ \A n \in 1 .. Len(R) : SeenAt(S, R[n].from)
    /\ \A a, b \in 1 .. Len(R) : a < b => R[a].to < R[b].from

\* Every sighting is in a result or in the stretch that is followed.
Kept(count, begun, last, R, S, now) ==
    \A k \in 1 .. Len(S) : /\ S[k][1] \in 1 .. now
                           /\ In(R, S[k][1]) \/ (count > 0 /\ begun <= S[k][1] /\ S[k][1] <= last)

\* What is followed began with a sighting, after all results.
Open(begun, last, R, S, now) ==
    /\ 1 <= begun /\ begun <= last /\ last <= now
    /\ SeenAt(S, begun) /\ \A n \in 1 .. Len(R) : R[n].to < begun

\* What a manager has told and follows, of what it has been shown up to now.
Stretch(count, begun, last, R, S, now) ==
    /\ count \in Nat /\ begun \in Int /\ last \in Int /\ now \in Nat
    /\ Told(R, S, now)
    /\ count > 0 => Open(begun, last, R, S, now)
    /\ Kept(count, begun, last, R, S, now)

\* One sighting more.
LEMMA SeenAppend ==
  ASSUME NEW S, AList(S), NEW f, NEW x, NEW g
  PROVE  SeenAt(Append(S, <<f, x>>), g) <=> SeenAt(S, g) \/ g = f
<1> DEFINE T == Append(S, <<f, x>>)
<1>1. /\ Len(S) \in Nat /\ Len(T) = Len(S) + 1 /\ T[Len(S) + 1] = <<f, x>>
      /\ \A i \in 1 .. Len(S) : T[i] = S[i]
  BY ListAppend
<1> HIDE DEF T
<1>2. SeenAt(T, g) <=> SeenAt(S, g) \/ g = f
  BY <1>1 DEF SeenAt
<1>3. QED BY <1>2 DEF T

\* One result more.
LEMMA InAppend ==
  ASSUME NEW R, AList(R), NEW r, NEW f
  PROVE  In(Append(R, r), f) <=> In(R, f) \/ Within(r, f)
<1> DEFINE T == Append(R, r)
<1>1. /\ Len(R) \in Nat /\ Len(T) = Len(R) + 1 /\ T[Len(R) + 1] = r
      /\ \A i \in 1 .. Len(R) : T[i] = R[i]
  BY ListAppend
<1> HIDE DEF T
<1>2. In(T, f) <=> In(R, f) \/ Within(r, f)
  BY <1>1 DEF In
<1>3. QED BY <1>2 DEF T

\* Frames that are passed over change nothing.
LEMMA Later ==
  ASSUME NEW count, NEW begun, NEW last, NEW R, NEW S, NEW now, NEW then \in Nat,
         Stretch(count, begun, last, R, S, now), now <= then
  PROVE  Stretch(count, begun, last, R, S, then)
<1>1. count \in Nat /\ begun \in Int /\ last \in Int /\ now \in Nat
  BY DEF Stretch
<1>2. Told(R, S, then)
  BY <1>1 DEF Told, Stretch
<1>3. count > 0 => Open(begun, last, R, S, then)
  BY <1>1 DEF Open, Stretch
<1>4. Kept(count, begun, last, R, S, then)
  <2>1. 1 .. now \subseteq 1 .. then
    BY <1>1
  <2>2. Kept(count, begun, last, R, S, now)
    BY DEF Stretch
  <2>3. QED BY <2>1, <2>2 DEF Kept
<1>5. QED BY <1>1, <1>2, <1>3, <1>4 DEF Stretch

\* A sighting does not disturb what was told.
LEMMA ToldMore ==
  ASSUME NEW R, NEW S, NEW now \in Nat, Told(R, S, now), NEW x
  PROVE  Told(R, Append(S, <<now, x>>), now)
<1>1. AList(Append(S, <<now, x>>))
  BY ListAppend DEF Told
<1>2. \A n \in 1 .. Len(R) : SeenAt(Append(S, <<now, x>>), R[n].from)
  BY SeenAppend DEF Told
<1>3. QED BY <1>1, <1>2 DEF Told

\* Something is seen, and it is followed since then or before.
LEMMA Sighted ==
  ASSUME NEW count, NEW begun, NEW last, NEW R, NEW S, NEW now, NEW x,
         Stretch(count, begun, last, R, S, now)
  PROVE  Stretch(count + 1, IF count = 0 THEN now + 1 ELSE begun, now + 1, R,
                 Append(S, <<now + 1, x>>), now + 1)
<1> DEFINE f == now + 1
           begin == IF count = 0 THEN f ELSE begun
           T == Append(S, <<f, x>>)
<1>1. count \in Nat /\ begun \in Int /\ last \in Int /\ now \in Nat /\ f \in Nat /\ begin \in Int
  BY DEF Stretch
<1>2. Stretch(count, begun, last, R, S, f)
  BY <1>1, Later
<1>3. Told(R, S, f)
  BY <1>2 DEF Stretch
<1>4. Told(R, T, f)
  BY <1>1, <1>3, ToldMore
<1>5. AList(S)
  BY <1>3 DEF Told
<1>6. /\ Len(S) \in Nat /\ Len(T) = Len(S) + 1 /\ T[Len(S) + 1] = <<f, x>>
      /\ \A i \in 1 .. Len(S) : T[i] = S[i]
  BY <1>5, ListAppend
<1>7. \A g : SeenAt(T, g) <=> SeenAt(S, g) \/ g = f
  BY <1>5, SeenAppend
<1>8. Told(R, S, now) /\ (count > 0 => Open(begun, last, R, S, now))
  BY DEF Stretch
<1>9. Kept(count, begun, last, R, S, now)
  BY DEF Stretch
<1> HIDE DEF T
<1>10. Open(begin, f, R, T, f)
  <2>1. CASE count = 0
    <3>1. \A n \in 1 .. Len(R) : R[n].to < f
      BY <1>1, <1>8 DEF Told
    <3>2. 1 <= begin /\ begin <= f /\ SeenAt(T, begin)
      BY <1>1, <1>7, <2>1
    <3>3. QED BY <1>1, <2>1, <3>1, <3>2 DEF Open
  <2>2. CASE count # 0
    <3>1. Open(begun, last, R, S, now)
      BY <1>1, <1>8, <2>2
    <3>2. SeenAt(T, begun) /\ 1 <= begun /\ begun <= f
      BY <1>1, <1>7, <3>1 DEF Open
    <3>3. QED BY <1>1, <2>2, <3>1, <3>2 DEF Open
  <2>3. QED BY <2>1, <2>2
<1>11. Kept(count + 1, begin, f, R, T, f)
  <2> SUFFICES ASSUME NEW k \in 1 .. Len(T)
               PROVE  T[k][1] \in 1 .. f /\ (In(R, T[k][1]) \/ (begin <= T[k][1] /\ T[k][1] <= f))
    BY <1>1 DEF Kept
  <2>1. CASE k = Len(S) + 1
    <3>1. T[k][1] = f
      BY <1>6, <2>1
    <3>2. begin <= f
      BY <1>10 DEF Open
    <3>3. QED BY <1>1, <3>1, <3>2
  <2>2. CASE k # Len(S) + 1
    <3>1. k \in 1 .. Len(S) /\ T[k] = S[k]
      BY <1>6, <2>2
    <3>2. S[k][1] \in 1 .. now
          /\ (In(R, S[k][1]) \/ (count > 0 /\ begun <= S[k][1] /\ S[k][1] <= last))
      BY <1>9, <3>1 DEF Kept
    <3>3. S[k][1] \in 1 .. f
      BY <1>1, <3>2
    <3>4. count > 0 /\ begun <= S[k][1] => begin <= S[k][1] /\ S[k][1] <= f
      BY <1>1, <3>3
    <3>5. QED BY <3>1, <3>2, <3>3, <3>4
  <2>3. QED BY <2>1, <2>2
<1>12. QED BY <1>1, <1>4, <1>10, <1>11 DEF Stretch, T

\* Nothing is seen while something is followed.
LEMMA Missed ==
  ASSUME NEW count, NEW begun, NEW last, NEW R, NEW S, NEW now,
         Stretch(count, begun, last, R, S, now), count > 0
  PROVE  Stretch(count, begun, now + 1, R, S, now + 1)
<1>1. count \in Nat /\ begun \in Int /\ last \in Int /\ now \in Nat
  BY DEF Stretch
<1>2. Stretch(count, begun, last, R, S, now + 1)
  BY <1>1, Later
<1>3. Told(R, S, now + 1) /\ Open(begun, last, R, S, now + 1) /\ Kept(count, begun, last, R, S, now + 1)
  BY <1>2 DEF Stretch
<1>4. Open(begun, now + 1, R, S, now + 1)
  BY <1>1, <1>3 DEF Open
<1>5. Kept(count, begun, now + 1, R, S, now + 1)
  BY <1>1, <1>3 DEF Kept
<1>6. QED BY <1>1, <1>3, <1>4, <1>5 DEF Stretch

\* A result ends what was followed.
LEMMA Ended ==
  ASSUME NEW count, NEW begun, NEW last, NEW R, NEW S, NEW now, NEW r, NEW begin \in Int, NEW at \in Int,
         Stretch(count, begun, last, R, S, now), count > 0, Tells(r, begun, last)
  PROVE  Stretch(0, begin, at, Append(R, r), S, now)
<1> DEFINE T == Append(R, r)
<1>1. count \in Nat /\ begun \in Int /\ last \in Int /\ now \in Nat
  BY DEF Stretch
<1>2. Told(R, S, now) /\ Open(begun, last, R, S, now) /\ Kept(count, begun, last, R, S, now)
  BY DEF Stretch
<1>3. AList(R) /\ AList(S)
  BY <1>2 DEF Told
<1>4. /\ AList(T) /\ Len(R) \in Nat /\ Len(T) = Len(R) + 1 /\ T[Len(R) + 1] = r
      /\ \A i \in 1 .. Len(R) : T[i] = R[i]
  BY <1>3, ListAppend
<1>5. \A g : In(T, g) <=> In(R, g) \/ Within(r, g)
  BY <1>3, InAppend
<1> HIDE DEF T
<1>6. r.from = begun /\ r.to = last
  BY DEF Tells
<1>7. \A n \in 1 .. Len(T) : n = Len(R) + 1 \/ n \in 1 .. Len(R)
  BY <1>4
<1>8. Told(T, S, now)
  <2>1. \A n \in 1 .. Len(T) : /\ T[n].from \in Int /\ T[n].to \in Int
                              /\ 1 <= T[n].from /\ T[n].from <= T[n].to /\ T[n].to <= now
    BY <1>1, <1>2, <1>4, <1>6, <1>7 DEF Told, Open
  <2>2. \A n \in 1 .. Len(T) : SeenAt(S, T[n].from)
    BY <1>2, <1>4, <1>6, <1>7 DEF Told, Open
  <2>3. \A a, b \in 1 .. Len(T) : a < b => T[a].to < T[b].from
    <3> SUFFICES ASSUME NEW a \in 1 .. Len(T), NEW b \in 1 .. Len(T), a < b PROVE T[a].to < T[b].from
      OBVIOUS
    <3>1. a \in 1 .. Len(R) /\ T[a] = R[a]
      BY <1>4
    <3>2. CASE b = Len(R) + 1
      BY <1>2, <1>4, <1>6, <3>1, <3>2 DEF Open
    <3>3. CASE b \in 1 .. Len(R)
      BY <1>2, <1>4, <3>1, <3>3 DEF Told
    <3>4. QED BY <1>7, <3>2, <3>3
  <2>4. QED BY <1>3, <1>4, <2>1, <2>2, <2>3 DEF Told
<1>9. Kept(0, begin, at, T, S, now)
  <2>1. \A g : begun <= g /\ g <= last => Within(r, g)
    BY <1>6 DEF Within
  <2>2. QED BY <1>2, <1>5, <2>1 DEF Kept
<1>10. QED BY <1>1, <1>8, <1>9 DEF Stretch, T

\* A sighting is in exactly one place.
LEMMA Once ==
  ASSUME NEW count, NEW begun, NEW last, NEW R, NEW S, NEW now,
         Stretch(count, begun, last, R, S, now), NEW f, SeenAt(S, f)
  PROVE  Cardinality({n \in DOMAIN R : Within(R[n], f)}) + (IF count > 0 /\ begun <= f THEN 1 ELSE 0) = 1
<1> DEFINE here == {n \in DOMAIN R : Within(R[n], f)}
<1>1. count \in Nat /\ begun \in Int /\ last \in Int /\ now \in Nat
  BY DEF Stretch
<1>2. Told(R, S, now) /\ (count > 0 => Open(begun, last, R, S, now)) /\ Kept(count, begun, last, R, S, now)
  BY DEF Stretch
<1>3. AList(R) /\ DOMAIN R = 1 .. Len(R) /\ Len(R) \in Nat
  <2>1. R \in Seq(Range(R))
    BY <1>2 DEF Told, AList
  <2>2. QED BY <1>2, <2>1 DEF Told
<1>4. f \in Int /\ (In(R, f) \/ (count > 0 /\ begun <= f))
  BY <1>1, <1>2 DEF Kept, SeenAt
<1>5. \A n \in 1 .. Len(R) : R[n].from \in Int /\ R[n].to \in Int
  BY <1>2 DEF Told
<1>6. CASE count > 0 /\ begun <= f
  <2>1. \A n \in 1 .. Len(R) : R[n].to < begun
    BY <1>2, <1>6 DEF Open
  <2>2. \A n \in 1 .. Len(R) : ~Within(R[n], f)
    BY <1>1, <1>4, <1>5, <1>6, <2>1 DEF Within
  <2>3. here = {}
    BY <1>3, <2>2
  <2>4. QED BY <1>6, <2>3, FS_EmptySet
<1>7. CASE ~(count > 0 /\ begun <= f)
  <2>1. PICK n \in 1 .. Len(R) : Within(R[n], f)
    BY <1>4, <1>7 DEF In
  <2>2. \A i \in 1 .. Len(R) : Within(R[i], f) => i = n
    <3> SUFFICES ASSUME NEW i \in 1 .. Len(R), Within(R[i], f), i # n PROVE FALSE
      OBVIOUS
    <3>1. R[i].to < R[n].from \/ R[n].to < R[i].from
      BY <1>2, <1>3 DEF Told
    <3>2. QED BY <1>4, <1>5, <2>1, <3>1 DEF Within
  <2>3. here = {n}
    BY <1>3, <2>1, <2>2
  <2>4. Cardinality(here) = 1
    BY <2>3, FS_Singleton
  <2>5. QED BY <1>7, <2>4
<1>8. QED BY <1>6, <1>7

-----------------------------------------------------------------------------
(* A manager through a frame *)

\* A manager, the results it gave and the sightings it was shown.
Follow(m, R, S, now) ==
    Fields(m) /\ Stretch(m.frames_count, m.start, m.frame, R, S, now)

\* What matches is a list.
LEMMA MatchingType ==
  ASSUME NEW m, NEW infos, AList(infos)
  PROVE  AList(Matching(m, infos))
<1> DEFINE S == {info \in Range(infos) : _check_ocr_type(m, info)}
<1>1. infos \in Seq(Range(infos))
  BY DEF AList
<1> HIDE DEF S
<1>2. Select(infos, S) \in Seq(Range(infos) \cap S)
  BY <1>1, SelectType
<1>3. AList(Select(infos, S))
  BY <1>2, ListType
<1>4. QED BY <1>3 DEF Matching, S

\* What the manager is after it has looked at a frame.
Looked(m, infos, frame) ==
    do_recognition(do_detection([m EXCEPT !.frame = frame], Matching(m, infos), frame),
                   Matching(m, infos), frame)

\* Looking at a frame moves the frame number and nothing else of the stretch.
LEMMA Looking ==
  ASSUME NEW m, Fields(m), NEW infos, AList(infos), NEW frame
  PROVE  /\ Fields(Looked(m, infos, frame)) /\ Looked(m, infos, frame).kind = m.kind
         /\ Looked(m, infos, frame).frame = frame
         /\ Looked(m, infos, frame).frames_count = m.frames_count
         /\ Looked(m, infos, frame).start = m.start
<1> DEFINE a == [m EXCEPT !.frame = frame]
           list == Matching(m, infos)
           b == do_detection(a, list, frame)
           c == do_recognition(b, list, frame)
<1>1. /\ Fields(a) /\ a.kind = m.kind /\ a.frame = frame
      /\ a.frames_count = m.frames_count /\ a.start = m.start
  BY DEF Fields
<1>2. AList(list)
  BY MatchingType
<1> HIDE DEF a, list
<1>3. SameStretch(a, b)
  BY <1>1, <1>2, Detecting
<1> HIDE DEF b
<1>4. Fields(b)
  BY <1>3 DEF SameStretch
<1>5. SameStretch(b, c)
  BY <1>4, Recognising
<1> HIDE DEF c
<1>6. Fields(c) /\ c.kind = m.kind /\ c.frame = frame /\ c.frames_count = m.frames_count /\ c.start = m.start
  BY <1>1, <1>3, <1>5 DEF SameStretch
<1>7. c = Looked(m, infos, frame)
  BY DEF a, list, b, c, Looked
<1>8. QED BY <1>6, <1>7

\* What may become of a manager, with what it was before.
Becomes(m, n, frame, count, begun) ==
    Fields(n) /\ n.kind = m.kind /\ n.frame = frame /\ n.frames_count = count /\ n.start = begun

\* Nothing to follow, and nothing seen.
Idle(m, x, matched, frame) ==
    m.frames_count = 0 /\ ~matched /\ x.result = None /\ Becomes(m, x.m, frame, 0, m.start)

\* Something to follow is seen.
Sees(m, x, matched, frame) ==
    /\ matched /\ x.result = None
    /\ Becomes(m, x.m, frame, m.frames_count + 1, IF m.frames_count = 0 THEN frame ELSE m.start)

\* What is followed is not seen.
Waits(m, x, matched, frame) ==
    /\ m.frames_count # 0 /\ ~matched /\ x.result = None
    /\ Becomes(m, x.m, frame, m.frames_count, m.start)

\* What is followed has not been seen for too long.
Ends(m, x, matched, frame) ==
    /\ m.frames_count # 0 /\ ~matched /\ Tells(x.result, m.start, frame)
    /\ Becomes(m, x.m, 0, 0, 0)

\* Managers by what is told of them, the rest from A.
Managers(kind, frame, count, begun, A) ==
    [kind: {kind}, type: A, tolerance: A, recognise: A, expected: A, read: A, frame: {frame},
     frames_count: {count}, ttl: A, start: {begun}, area: A, confidence: A, stored: A, stored_frame: A]

\* A manager is among them.
LEMMA ManagerListed ==
  ASSUME NEW n, Fields(n), NEW B
  PROVE  \E A : /\ B \subseteq A /\ n.tolerance \in A
                /\ n \in Managers(n.kind, n.frame, n.frames_count, n.start, A)
<1> DEFINE A == B \union {n.type, n.tolerance, n.recognise, n.expected, n.read, n.ttl, n.area,
                          n.confidence, n.stored, n.stored_frame}
<1>1. /\ n.type \in A /\ n.tolerance \in A /\ n.recognise \in A /\ n.expected \in A /\ n.read \in A
      /\ n.ttl \in A /\ n.area \in A /\ n.confidence \in A /\ n.stored \in A /\ n.stored_frame \in A
      /\ B \subseteq A
  OBVIOUS
<1> HIDE DEF A
<1>2. n \in Managers(n.kind, n.frame, n.frames_count, n.start, A)
  BY <1>1 DEF Managers, Fields
<1>3. QED BY <1>1, <1>2

\* They are managers.
LEMMA ManagerFields ==
  ASSUME NEW kind, NEW frame, NEW count, NEW begun, NEW A, NEW n \in Managers(kind, frame, count, begun, A)
  PROVE  Fields(n) /\ n.kind = kind /\ n.frame = frame /\ n.frames_count = count /\ n.start = begun
BY DEF Managers, Fields

\* _generate does one of the four.
LEMMA Generating ==
  ASSUME NEW m, Fields(m), m.frames_count \in Nat, NEW n, NEW frame, NEW matched,
         Becomes(m, n, frame, m.frames_count, m.start), _generate(n, matched, frame).result # Raises
  PROVE  LET x == _generate(n, matched, frame)
         IN  Idle(m, x, matched, frame) \/ Sees(m, x, matched, frame)
               \/ Waits(m, x, matched, frame) \/ Ends(m, x, matched, frame)
<1> DEFINE x == _generate(n, matched, frame)
<1>1. Fields(n) /\ n.kind = m.kind /\ n.frame = frame /\ n.frames_count = m.frames_count /\ n.start = m.start
  BY DEF Becomes
<1>2. PICK A : {0, None, frame, n.ttl - 1, Unread(n.expected)} \subseteq A /\ n.tolerance \in A
                 /\ n \in Managers(n.kind, n.frame, n.frames_count, n.start, A)
  BY <1>1, ManagerListed
<1>3. CASE n.frames_count = 0 /\ matched
  <2> DEFINE new == [n EXCEPT !.start = frame, !.frames_count = 1]
  <2>1. x = Out(new, None)
    BY <1>3 DEF _generate
  <2>2. x.m = new /\ x.result = None
    BY <2>1 DEF Out
  <2>3. new \in Managers(n.kind, n.frame, 1, frame, A)
    BY <1>2 DEF Managers
  <2> HIDE DEF new, x
  <2>4. Becomes(m, new, frame, 1, frame)
    <3>1. Fields(new) /\ new.kind = n.kind /\ new.frame = n.frame /\ new.frames_count = 1 /\ new.start = frame
      BY <2>3, ManagerFields
    <3>2. QED BY <1>1, <3>1 DEF Becomes
  <2>5. Sees(m, x, matched, frame)
    BY <1>1, <1>3, <2>2, <2>4 DEF Sees
  <2>6. QED BY <2>5 DEF x
<1>4. CASE n.frames_count = 0 /\ ~matched
  <2>1. x.m = n /\ x.result = None
    BY <1>4 DEF _generate, Out
  <2>2. Idle(m, x, matched, frame)
    BY <1>1, <1>4, <2>1 DEF Idle, Becomes
  <2>3. QED BY <2>2
<1>5. CASE n.frames_count # 0 /\ matched
  <2> DEFINE new == [n EXCEPT !.frames_count = n.frames_count + 1, !.ttl = n.tolerance]
  <2>1. x.m = new /\ x.result = None
    BY <1>5 DEF _generate, Out
  <2>2. new \in Managers(n.kind, n.frame, n.frames_count + 1, n.start, A)
    BY <1>2 DEF Managers
  <2> HIDE DEF new, x
  <2>3. Becomes(m, new, frame, m.frames_count + 1, m.start)
    <3>1. /\ Fields(new) /\ new.kind = n.kind /\ new.frame = n.frame
          /\ new.frames_count = n.frames_count + 1 /\ new.start = n.start
      BY <2>2, ManagerFields
    <3>2. QED BY <1>1, <3>1 DEF Becomes
  <2>4. Sees(m, x, matched, frame)
    BY <1>1, <1>5, <2>1, <2>3 DEF Sees
  <2>5. QED BY <2>4 DEF x
<1>6. CASE n.frames_count # 0 /\ ~matched /\ n.ttl > 1
  <2>1. x.m = [n EXCEPT !.ttl = n.ttl - 1] /\ x.result = None
    BY <1>6 DEF _generate, Out
  <2>2. [n EXCEPT !.ttl = n.ttl - 1] \in Managers(n.kind, n.frame, n.frames_count, n.start, A)
    BY <1>2 DEF Managers
  <2>3. Waits(m, x, matched, frame)
    BY <1>1, <1>6, <2>1, <2>2, ManagerFields DEF Waits, Becomes
  <2>4. QED BY <2>3
<1>7. CASE n.frames_count # 0 /\ ~matched /\ ~(n.ttl > 1)
  <2>1. x.m = _reinit(n) /\ x.result = _gen_tracking_result(n, frame)
    BY <1>7 DEF _generate, Out
  <2>2. Tells(x.result, m.start, frame)
    BY <1>1, <2>1, Telling
  <2>3. Becomes(m, _reinit(n), 0, 0, 0)
    <3> DEFINE new == [n EXCEPT !.frame = 0, !.frames_count = 0, !.ttl = n.tolerance, !.start = 0, !.area = 0,
                          !.confidence = 0, !.stored = None, !.stored_frame = 0]
               read == Unread(n.expected)
    <3>1. _reinit(n) = [new EXCEPT !.read = read]
      BY DEF _reinit, Unseen
    <3>2. read \in A /\ 0 \in A /\ None \in A
      BY <1>2
    <3> HIDE DEF read
    <3>3. new \in Managers(n.kind, 0, 0, 0, A)
      BY <1>2, <3>2 DEF Managers
    <3> HIDE DEF new
    <3>4. [new EXCEPT !.read = read] \in Managers(n.kind, 0, 0, 0, A)
      BY <3>2, <3>3 DEF Managers
    <3>5. _reinit(n) \in Managers(n.kind, 0, 0, 0, A)
      BY <3>1, <3>4
    <3>6. \A y \in Managers(n.kind, 0, 0, 0, A) :
            Fields(y) /\ y.kind = n.kind /\ y.frame = 0 /\ y.frames_count = 0 /\ y.start = 0
      BY ManagerFields
    <3>7. \A y \in Managers(n.kind, 0, 0, 0, A) : Becomes(m, y, 0, 0, 0)
      BY <1>1, <3>6 DEF Becomes
    <3>8. QED BY <3>5, <3>7
  <2>4. Ends(m, x, matched, frame)
    BY <1>1, <1>7, <2>1, <2>2, <2>3 DEF Ends
  <2>5. QED BY <2>4
<1>8. QED BY <1>3, <1>4, <1>5, <1>6, <1>7

\* What is told and seen after the frame.
ToldThen(R, x) == IF x.result = None THEN R ELSE Append(R, x.result)
\* What has been seen with the frame.
SeenThen(S, list, frame) == IF list = <<>> THEN S ELSE Append(S, <<frame, list>>)

\* process: what is told, seen and followed stays in order.
LEMMA FollowStep ==
  ASSUME NEW m, NEW R, NEW S, NEW now, Follow(m, R, S, now), NEW infos, AList(infos),
         process(m, infos, now + 1).result # Raises
  PROVE  LET x == process(m, infos, now + 1)
         IN  /\ Follow(x.m, ToldThen(R, x), SeenThen(S, Matching(m, infos), now + 1), now + 1)
             /\ x.m.kind = m.kind
<1> DEFINE frame == now + 1
           list == Matching(m, infos)
           matched == list # <<>>
           x == process(m, infos, frame)
           n == Looked(m, infos, frame)
<1>1. Fields(m) /\ Stretch(m.frames_count, m.start, m.frame, R, S, now)
  BY DEF Follow
<1>2. x = _generate(n, matched, frame)
  <2>1. x \in {Out(m, Raises), _generate(n, matched, frame)}
    BY DEF process, Looked
  <2>2. x # Out(m, Raises)
    BY DEF Out
  <2>3. QED BY <2>1, <2>2
<1>3. Becomes(m, n, frame, m.frames_count, m.start)
  BY <1>1, Looking DEF Becomes
<1>4. m.frames_count \in Nat /\ m.start \in Int /\ m.frame \in Int /\ now \in Nat
  BY <1>1 DEF Stretch
<1> HIDE DEF x, n, matched
<1>5. Idle(m, x, matched, frame) \/ Sees(m, x, matched, frame)
        \/ Waits(m, x, matched, frame) \/ Ends(m, x, matched, frame)
  BY <1>1, <1>2, <1>3, <1>4, Generating DEF x
<1>6. Follow(x.m, ToldThen(R, x), SeenThen(S, list, frame), frame) /\ x.m.kind = m.kind
  <2>1. CASE Idle(m, x, matched, frame)
    <3>1. Fields(x.m) /\ x.m.kind = m.kind /\ x.m.frame = frame /\ x.m.frames_count = 0 /\ x.m.start = m.start
      BY <2>1 DEF Idle, Becomes
    <3>2. ToldThen(R, x) = R /\ SeenThen(S, list, frame) = S /\ m.frames_count = 0
      BY <2>1 DEF Idle, ToldThen, SeenThen, matched
    <3>3. Stretch(0, m.start, m.frame, R, S, frame)
      BY <1>1, <1>4, <3>2, Later
    <3>4. Stretch(0, m.start, frame, R, S, frame)
      BY <1>4, <3>3 DEF Stretch, Kept
    <3>5. QED BY <3>1, <3>2, <3>4 DEF Follow
  <2>2. CASE Sees(m, x, matched, frame)
    <3> DEFINE begun == IF m.frames_count = 0 THEN frame ELSE m.start
    <3>1. /\ Fields(x.m) /\ x.m.kind = m.kind /\ x.m.frame = frame
          /\ x.m.frames_count = m.frames_count + 1 /\ x.m.start = begun
      BY <2>2 DEF Sees, Becomes
    <3>2. ToldThen(R, x) = R /\ SeenThen(S, list, frame) = Append(S, <<frame, list>>)
      BY <2>2 DEF Sees, ToldThen, SeenThen, matched
    <3>3. Stretch(m.frames_count + 1, begun, frame, R, Append(S, <<frame, list>>), frame)
      BY <1>1, Sighted
    <3>4. QED BY <3>1, <3>2, <3>3 DEF Follow
  <2>3. CASE Waits(m, x, matched, frame)
    <3>1. /\ Fields(x.m) /\ x.m.kind = m.kind /\ x.m.frame = frame
          /\ x.m.frames_count = m.frames_count /\ x.m.start = m.start
      BY <2>3 DEF Waits, Becomes
    <3>2. ToldThen(R, x) = R /\ SeenThen(S, list, frame) = S /\ m.frames_count > 0
      BY <1>4, <2>3 DEF Waits, ToldThen, SeenThen, matched
    <3>3. Stretch(m.frames_count, m.start, frame, R, S, frame)
      BY <1>1, <3>2, Missed
    <3>4. QED BY <3>1, <3>2, <3>3 DEF Follow
  <2>4. CASE Ends(m, x, matched, frame)
    <3>1. Fields(x.m) /\ x.m.kind = m.kind /\ x.m.frame = 0 /\ x.m.frames_count = 0 /\ x.m.start = 0
      BY <2>4 DEF Ends, Becomes
    <3>2. /\ ToldThen(R, x) = Append(R, x.result) /\ SeenThen(S, list, frame) = S
          /\ m.frames_count > 0 /\ Tells(x.result, m.start, frame)
      BY <1>4, <2>4 DEF Ends, ToldThen, SeenThen, matched, Tells
    <3>3. Stretch(m.frames_count, m.start, frame, R, S, frame)
      BY <1>1, <3>2, Missed
    <3>4. Stretch(0, 0, 0, Append(R, x.result), S, frame)
      BY <3>2, <3>3, Ended
    <3>5. QED BY <3>1, <3>2, <3>4 DEF Follow
  <2>5. QED BY <1>5, <2>1, <2>2, <2>3, <2>4
<1>7. QED BY <1>6 DEF x

\* over: what is still followed is told, and then everything seen is in a result.
LEMMA FollowOver ==
  ASSUME NEW m, NEW R, NEW S, NEW now, Follow(m, R, S, now), over(m) # Raises
  PROVE  Stretch(0, 0, 0, IF over(m) = None THEN R ELSE Append(R, over(m)), S, now)
<1>1. Stretch(m.frames_count, m.start, m.frame, R, S, now)
  BY DEF Follow
<1>2. /\ m.frames_count \in Nat /\ m.start \in Int /\ m.frame \in Int /\ now \in Nat
      /\ (m.frames_count > 0 => Open(m.start, m.frame, R, S, now))
  BY <1>1 DEF Stretch
<1>3. CASE m.frames_count > 0
  <2>1. m.frame # 0
    BY <1>2, <1>3 DEF Open
  <2>2. over(m) = _gen_tracking_result(m, m.frame)
    BY <1>3, <2>1 DEF over
  <2>3. Tells(over(m), m.start, m.frame)
    BY <2>2, Telling
  <2>4. Stretch(0, 0, 0, Append(R, over(m)), S, now)
    BY <1>1, <1>3, <2>3, Ended
  <2>5. over(m) # None
    BY <2>3 DEF Tells
  <2>6. QED BY <2>4, <2>5
<1>4. CASE m.frames_count = 0
  <2>1. over(m) = None
    BY <1>4 DEF over
  <2>2. Stretch(0, 0, 0, R, S, now)
    BY <1>1, <1>4 DEF Stretch, Kept
  <2>3. QED BY <2>1, <2>2
<1>5. QED BY <1>2, <1>3, <1>4

-----------------------------------------------------------------------------
(* What the services make of a frame *)

\* Every service answers with a list.
LEMMA Predicted ==
  ASSUME NEW kind \in Kinds, NEW service \in Services(kind), NEW pages, AList(pages)
  PROVE  AList(predict(service, pages))
<1>1. service \in {"id_card", "multi_card", "sign", "doc"}
  BY DEF Services, Kinds
<1>2. AList(Read(pages)) /\ AList(Likely(pages))
  BY SelectList DEF Read, Likely
<1>3. CASE service = "id_card"
  <2> DEFINE f == [n \in DOMAIN pages |-> IdCard(pages[n])]
  <2>1. f = [i \in 1 .. Len(pages) |-> f[i]] /\ Len(pages) \in Nat
    BY ListDomain
  <2>2. predict(service, pages) = f
    BY <1>3 DEF predict
  <2> HIDE DEF f
  <2>3. QED BY <2>1, <2>2, FunctionList
<1>4. CASE service = "multi_card"
  <2> DEFINE f == [n \in DOMAIN Read(pages) |-> MultiCard(Read(pages)[n])]
  <2>1. f = [i \in 1 .. Len(Read(pages)) |-> f[i]] /\ Len(Read(pages)) \in Nat
    BY <1>2, ListDomain
  <2>2. predict(service, pages) = f
    BY <1>4 DEF predict
  <2> HIDE DEF f
  <2>3. QED BY <2>1, <2>2, FunctionList
<1>5. CASE service = "sign"
  <2> DEFINE f == [n \in DOMAIN Read(pages) |-> Handwriting(Read(pages)[n])]
  <2>1. f = [i \in 1 .. Len(Read(pages)) |-> f[i]] /\ Len(Read(pages)) \in Nat
    BY <1>2, ListDomain
  <2>2. predict(service, pages) = f
    BY <1>5 DEF predict
  <2> HIDE DEF f
  <2>3. QED BY <2>1, <2>2, FunctionList
<1>6. CASE service = "doc"
  <2> DEFINE f == [n \in DOMAIN Likely(pages) |-> Page(Likely(pages)[n])]
  <2>1. f = [i \in 1 .. Len(Likely(pages)) |-> f[i]] /\ Len(Likely(pages)) \in Nat
    BY <1>2, ListDomain
  <2>2. predict(service, pages) = f
    BY <1>6 DEF predict
  <2> HIDE DEF f
  <2>3. QED BY <2>1, <2>2, FunctionList
<1>7. QED BY <1>1, <1>3, <1>4, <1>5, <1>6

-----------------------------------------------------------------------------
(* The job *)

\* The manager of a type goes by what it was shown; without a configuration it is shown nothing.
Mine(t) ==
    /\ Follow(trackers[t], tracked[t], seen[t], images)
    /\ trackers[t].kind \in Services(job.kind)
    /\ cfgs = <<>> => trackers[t].frames_count = 0 /\ tracked[t] = <<>> /\ seen[t] = <<>>

\* While the job runs, every manager does.
Following ==
    /\ DOMAIN tracked = DOMAIN trackers /\ DOMAIN seen = DOMAIN trackers
    /\ \A t \in DOMAIN trackers : Mine(t)

\* When it ended, everything seen is told.
Finished ==
    /\ DOMAIN tracked = DOMAIN seen
    /\ \A t \in DOMAIN seen : Stretch(0, 0, 0, tracked[t], seen[t], images)

\* The invariant.
FollowInv ==
    /\ job \in Jobs /\ images \in Nat
    /\ pc = "running" => Following
    /\ pc = "done" => Finished

\* A new manager has nothing to follow.
LEMMA NewFollows ==
  ASSUME NEW list, NEW type, NEW now \in Nat
  PROVE  /\ Follow(_register(list, type), <<>>, <<>>, now)
         /\ _register(list, type).frames_count = 0
         /\ _register(list, type).kind = IF type \in {"employee_card", "practicing_certificate"}
                                         THEN "multi_card" ELSE type
<1> DEFINE kind == IF type \in {"employee_card", "practicing_certificate"} THEN "multi_card" ELSE type
           n == NewManager(kind, type, job.tolerance)
           m == _register(list, type)
<1>1. PICK recognise, expected, read :
        m = [n EXCEPT !.recognise = recognise, !.expected = expected, !.read = read]
  BY DEF _register
<1>2. n \in Managers(kind, 0, 0, 0, {type, job.tolerance, FALSE, <<>>, 0, None, recognise, expected, read})
  BY DEF NewManager, Managers
<1> HIDE DEF n, m, kind
<1>3. m \in Managers(kind, 0, 0, 0, {type, job.tolerance, FALSE, <<>>, 0, None, recognise, expected, read})
  <2> DEFINE A == {type, job.tolerance, FALSE, <<>>, 0, None, recognise, expected, read}
  <2>1. recognise \in A /\ expected \in A /\ read \in A
    OBVIOUS
  <2>2. n \in Managers(kind, 0, 0, 0, A)
    BY <1>2
  <2> HIDE DEF A
  <2>3. m \in Managers(kind, 0, 0, 0, A)
    BY <1>1, <2>1, <2>2 DEF Managers
  <2>4. QED BY <2>3 DEF A
<1>4. Fields(m) /\ m.kind = kind /\ m.frame = 0 /\ m.frames_count = 0 /\ m.start = 0
  BY <1>3, ManagerFields
<1>5. AList(<<>>)
  BY DEF AList
<1>6. Stretch(0, 0, 0, <<>>, <<>>, now)
  BY <1>5 DEF Stretch, Told, Kept
<1>7. Follow(m, <<>>, <<>>, now)
  BY <1>4, <1>6 DEF Follow
<1>8. QED BY <1>4, <1>7 DEF m, kind

\* It holds after start.
LEMMA Starting ==
  ASSUME FollowInv, start
  PROVE  FollowInv'
<1> USE ModuleAssumption
<1>1. job \in Jobs /\ images \in Nat /\ job' = job /\ images' = images
  BY DEF FollowInv, start
<1>2. CASE pc' \in {"raised", "left_out"}
  BY <1>1, <1>2 DEF FollowInv
<1>3. CASE pc' \notin {"raised", "left_out"}
  <2> DEFINE p == Refreshed(parse_task(<<>>, {}))
             types == IF job.kind = "card" THEN CardTypes \intersect {p.cfgs[n].id.type : n \in DOMAIN p.cfgs}
                      ELSE {job.kind}
  <2>1. /\ pc' = "running" /\ trackers' = [t \in types |-> _register(p.cfgs, t)]
        /\ tracked' = [t \in types |-> <<>>] /\ seen' = [t \in types |-> <<>>]
    BY <1>3 DEF start
  <2>2. job.kind \in Kinds
    BY <1>1
  <2>3. \A t \in types : (IF t \in {"employee_card", "practicing_certificate"} THEN "multi_card" ELSE t)
                           \in Services(job.kind)
    BY <2>2 DEF CardTypes, Services, Kinds
  <2> HIDE DEF types, p
  <2>4. ASSUME NEW t \in types PROVE Mine(t)'
    <3>1. trackers'[t] = _register(p.cfgs, t) /\ tracked'[t] = <<>> /\ seen'[t] = <<>>
      BY <2>1
    <3>2. /\ Follow(_register(p.cfgs, t), <<>>, <<>>, images)
          /\ _register(p.cfgs, t).frames_count = 0
          /\ _register(p.cfgs, t).kind = IF t \in {"employee_card", "practicing_certificate"}
                                         THEN "multi_card" ELSE t
      BY <1>1, NewFollows
    <3>3. _register(p.cfgs, t).kind \in Services(job.kind)
      BY <2>3, <3>2
    <3>4. QED BY <1>1, <3>1, <3>2, <3>3 DEF Mine
  <2>5. DOMAIN trackers' = types /\ DOMAIN tracked' = types /\ DOMAIN seen' = types
    BY <2>1
  <2>6. Following'
    BY <2>4, <2>5 DEF Following
  <2>7. QED BY <1>1, <2>1, <2>6 DEF FollowInv
<1>4. QED BY <1>2, <1>3

\* It holds after an image, looked at or passed over.
LEMMA Imaging ==
  ASSUME FollowInv, NEW answer \in Answers(job.kind), image(answer)
  PROVE  FollowInv'
<1> USE ModuleAssumption
<1> DEFINE frame == images + 1
<1>1. job \in Jobs /\ images \in Nat /\ job' = job /\ images' = frame /\ cfgs' = cfgs /\ cfgs # <<>>
      /\ pc = "running"
  BY DEF FollowInv, image
<1>2. Following
  BY <1>1 DEF FollowInv
<1>3. CASE pc' = "raised"
  BY <1>1, <1>3 DEF FollowInv
<1>4. CASE pc' # "raised" /\ UNCHANGED <<pc, trackers, tracked, seen>>
  <2>1. ASSUME NEW t \in DOMAIN trackers PROVE Mine(t)'
    <3>1. Mine(t)
      BY <1>2 DEF Following
    <3>2. Follow(trackers[t], tracked[t], seen[t], frame)
      BY <1>1, <3>1, Later DEF Mine, Follow
    <3>3. trackers'[t] = trackers[t] /\ tracked'[t] = tracked[t] /\ seen'[t] = seen[t]
      BY <1>4
    <3>4. QED BY <1>1, <3>1, <3>2, <3>3 DEF Mine
  <2>2. Following'
    BY <1>2, <1>4, <2>1 DEF Following
  <2>3. QED BY <1>1, <1>4, <2>2 DEF FollowInv
<1>5. CASE pc' # "raised" /\ ~UNCHANGED <<pc, trackers, tracked, seen>>
  <2> DEFINE said(t)  == answer[ServiceOf(t)]
             infos(t) == predict(ServiceOf(t), said(t).pages)
             out(t)   == process(trackers[t], infos(t), frame)
  <2>1. /\ pc' = pc
        /\ \A t \in DOMAIN trackers : out(t).result # Raises
        /\ trackers' = [t \in DOMAIN trackers |-> out(t).m]
        /\ tracked' = [t \in DOMAIN trackers |->
                         IF out(t).result = None THEN tracked[t] ELSE Append(tracked[t], out(t).result)]
        /\ seen' = [t \in DOMAIN trackers |->
                      IF Matching(trackers[t], infos(t)) = <<>> THEN seen[t]
                      ELSE Append(seen[t], <<frame, Matching(trackers[t], infos(t))>>)]
    BY <1>5 DEF image
  <2>2. ASSUME NEW t \in DOMAIN trackers PROVE Mine(t)'
    <3>1. Mine(t)
      BY <1>2 DEF Following
    <3>2. ServiceOf(t) \in Services(job.kind)
      BY <3>1 DEF Mine, ServiceOf
    <3>3. job.kind \in Kinds
      BY <1>1
    <3>4. AList(said(t).pages)
      <4>1. said(t).pages \in Seq(Pages)
        BY <3>2, <3>3
      <4>2. QED BY <4>1, ListType
    <3>5. AList(infos(t))
      BY <3>2, <3>3, <3>4, Predicted
    <3>6. Follow(trackers[t], tracked[t], seen[t], images)
      BY <3>1 DEF Mine
    <3>7. out(t).result # Raises
      BY <2>1
    <3>8. /\ trackers'[t] = out(t).m
          /\ tracked'[t] = ToldThen(tracked[t], out(t))
          /\ seen'[t] = SeenThen(seen[t], Matching(trackers[t], infos(t)), frame)
      BY <2>1 DEF ToldThen, SeenThen
    <3> DEFINE list == infos(t)
               x == process(trackers[t], list, frame)
    <3>9. out(t) = x
      OBVIOUS
    <3> HIDE DEF list, out, infos
    <3>10. Follow(x.m, ToldThen(tracked[t], x), SeenThen(seen[t], Matching(trackers[t], list), frame), frame)
           /\ x.m.kind = trackers[t].kind
      BY <3>5, <3>6, <3>7, <3>9, FollowStep DEF list
    <3>11. Follow(trackers'[t], tracked'[t], seen'[t], frame)
      BY <3>8, <3>9, <3>10 DEF list
    <3>12. trackers'[t].kind \in Services(job.kind)
      BY <3>1, <3>8, <3>9, <3>10 DEF Mine
    <3>13. QED BY <1>1, <3>11, <3>12 DEF Mine
  <2>3. /\ DOMAIN trackers' = DOMAIN trackers /\ DOMAIN tracked' = DOMAIN trackers
        /\ DOMAIN seen' = DOMAIN trackers
    BY <2>1
  <2>4. Following'
    BY <2>2, <2>3 DEF Following
  <2>5. QED BY <1>1, <2>1, <2>4 DEF FollowInv
<1>6. QED BY <1>3, <1>4, <1>5

\* It holds after finish.
LEMMA Finishing ==
  ASSUME FollowInv, finish
  PROVE  FollowInv'
<1> DEFINE last(t) == over(trackers[t])
           all(t)  == IF last(t) = None THEN tracked[t] ELSE Append(tracked[t], last(t))
<1>1. /\ job \in Jobs /\ images \in Nat /\ pc = "running"
      /\ UNCHANGED <<job, cfgs, mapper, trackers, images, seen>>
  BY DEF FollowInv, finish
<1>2. Following
  BY <1>1 DEF FollowInv
<1>3. CASE pc' = "raised"
  BY <1>1, <1>3 DEF FollowInv
<1>4. CASE pc' # "raised"
  <2>1. /\ pc' = "done" /\ tracked' = [t \in DOMAIN trackers |-> all(t)]
        /\ cfgs # <<>> => \A t \in DOMAIN trackers : last(t) # Raises
    BY <1>4 DEF finish
  <2>2. ASSUME NEW t \in DOMAIN trackers
        PROVE  Stretch(0, 0, 0, all(t), seen[t], images)
    <3>1. Mine(t)
      BY <1>2 DEF Following
    <3>2. cfgs = <<>> => last(t) = None
      BY <3>1 DEF Mine, over
    <3>3. None # Raises
      <4>1. "none" \in DOMAIN None /\ "none" \notin DOMAIN Raises
        BY DEF None, Raises
      <4>2. QED BY <4>1
    <3>4. last(t) # Raises
      BY <2>1, <3>2, <3>3
    <3>5. Stretch(0, 0, 0, all(t), seen[t], images)
      BY <3>1, <3>4, FollowOver DEF Mine
    <3>6. QED BY <3>5
  <2>3. DOMAIN seen' = DOMAIN trackers /\ DOMAIN tracked' = DOMAIN trackers
    BY <1>1, <1>2, <2>1 DEF Following
  <2>4. \A t \in DOMAIN trackers : tracked'[t] = all(t) /\ seen'[t] = seen[t]
    BY <1>1, <2>1
  <2> HIDE DEF all
  <2>5. Finished'
    BY <1>1, <2>2, <2>3, <2>4 DEF Finished
  <2>6. QED BY <1>1, <2>1, <2>5 DEF FollowInv
<1>5. QED BY <1>3, <1>4

\* It is about nothing else.
LEMMA Unmoved ==
  ASSUME FollowInv, UNCHANGED vars
  PROVE  FollowInv'
<1>1. ASSUME NEW t PROVE Mine(t)' <=> Mine(t)
  BY DEF Mine, vars
<1>2. Following' <=> Following
  BY <1>1 DEF Following, vars
<1>3. Finished' <=> Finished
  BY DEF Finished, vars
<1>4. QED BY <1>2, <1>3 DEF FollowInv, vars

(* Managers, results and sightings of a job belong together in every       *)
(* state: the invariant the theorems below rest on.                        *)
THEOREM FollowsThrough == Spec => []FollowInv
<1>1. Init => FollowInv
  BY DEF Init, FollowInv
<1>2. FollowInv /\ [Next]_vars => FollowInv'
  BY Starting, Imaging, Finishing, Unmoved DEF Next
<1>3. QED BY <1>1, <1>2, PTL DEF Spec

-----------------------------------------------------------------------------

\* SightingsCovered for one type.
LEMMA CoveredHere ==
  ASSUME NEW count, NEW begin, NEW last, NEW R, NEW S, NEW now,
         Stretch(count, begin, last, R, S, now)
  PROVE  /\ \A s \in Range(S) :
              Cardinality({n \in DOMAIN R : Within(R[n], s[1])})
                + (IF count > 0 /\ begin <= s[1] THEN 1 ELSE 0) = 1
         /\ \A r \in Range(R) : \E s \in Range(S) : s[1] = r.from
<1>1. Told(R, S, now) /\ AList(R) /\ AList(S)
  BY DEF Stretch, Told
<1>2. DOMAIN R = 1 .. Len(R) /\ DOMAIN S = 1 .. Len(S)
  BY <1>1, ListDomain
<1>3. \A s \in Range(S) : SeenAt(S, s[1])
  BY <1>2 DEF Range, SeenAt
<1>4. \A r \in Range(R) : \E s \in Range(S) : s[1] = r.from
  <2>1. \A r \in Range(R) : SeenAt(S, r.from)
    BY <1>1, <1>2 DEF Range, Told
  <2>2. \A f : SeenAt(S, f) => \E s \in Range(S) : s[1] = f
    BY <1>2 DEF Range, SeenAt
  <2>3. QED BY <2>1, <2>2
<1>5. QED BY <1>3, <1>4, Once

(* Each frame with something to follow is in exactly one result or in the  *)
(* stretch still followed, and every result begins with a sighting:        *)
(* process, _generate and over for every video, tolerance and step.        *)
THEOREM NoSightingLost == Spec => []SightingsCovered
<1>1. FollowInv => SightingsCovered
  <2> SUFFICES ASSUME FollowInv, pc \in {"running", "done"}, NEW t \in DOMAIN seen
               PROVE  LET open(f) == pc = "running" /\ trackers[t].frames_count > 0 /\ trackers[t].start <= f
                      IN  /\ \A s \in Range(seen[t]) :
                               Cardinality({n \in DOMAIN tracked[t] : Within(tracked[t][n], s[1])})
                                 + (IF open(s[1]) THEN 1 ELSE 0) = 1
                          /\ \A r \in Range(tracked[t]) : \E s \in Range(seen[t]) : s[1] = r.from
    BY DEF SightingsCovered
  <2>1. CASE pc = "running"
    <3>1. Stretch(trackers[t].frames_count, trackers[t].start, trackers[t].frame, tracked[t], seen[t], images)
      BY <2>1 DEF FollowInv, Following, Mine, Follow
    <3>2. QED BY <2>1, <3>1, CoveredHere
  <2>2. CASE pc = "done"
    <3>1. Stretch(0, 0, 0, tracked[t], seen[t], images)
      BY <2>2 DEF FollowInv, Finished
    <3>2. \A s \in Range(seen[t]) :
            Cardinality({n \in DOMAIN tracked[t] : Within(tracked[t][n], s[1])})
              + (IF 0 > 0 /\ 0 <= s[1] THEN 1 ELSE 0) = 1
      BY <3>1, CoveredHere
    <3>3. \A r \in Range(tracked[t]) : \E s \in Range(seen[t]) : s[1] = r.from
      BY <3>1, CoveredHere
    <3>4. QED BY <2>2, <3>2, <3>3
  <2>3. QED BY <2>1, <2>2
<1>2. QED BY <1>1, FollowsThrough, PTL

\* Results are given just for what has been seen.
LEMMA ResultsForSeen ==
  ASSUME Finished
  PROVE  Results # {} <=> \E t \in DOMAIN seen : seen[t] # <<>>
<1>1. ASSUME NEW t \in DOMAIN seen
      PROVE  Range(tracked[t]) # {} <=> seen[t] # <<>>
  <2>1. Stretch(0, 0, 0, tracked[t], seen[t], images)
    BY DEF Finished
  <2>2. /\ Told(tracked[t], seen[t], images) /\ AList(tracked[t]) /\ AList(seen[t])
        /\ Kept(0, 0, 0, tracked[t], seen[t], images)
    BY <2>1 DEF Stretch, Told
  <2>3. /\ DOMAIN tracked[t] = 1 .. Len(tracked[t]) /\ DOMAIN seen[t] = 1 .. Len(seen[t])
        /\ Len(tracked[t]) \in Nat /\ Len(seen[t]) \in Nat /\ seen[t] \in Seq(Range(seen[t]))
    BY <2>2, ListDomain DEF AList
  <2>4. ASSUME seen[t] # <<>> PROVE Range(tracked[t]) # {}
    <3>1. 1 \in 1 .. Len(seen[t])
      BY <2>3, <2>4
    <3>2. In(tracked[t], seen[t][1][1])
      BY <2>2, <3>1 DEF Kept
    <3>3. QED BY <2>3, <3>2 DEF In, Range
  <2>5. ASSUME Range(tracked[t]) # {} PROVE seen[t] # <<>>
    <3>1. PICK n \in 1 .. Len(tracked[t]) : TRUE
      BY <2>3, <2>5 DEF Range
    <3>2. SeenAt(seen[t], tracked[t][n].from)
      BY <2>2, <3>1 DEF Told
    <3>3. QED BY <2>3, <3>2 DEF SeenAt
  <2>6. QED BY <2>4, <2>5
<1>2. DOMAIN tracked = DOMAIN seen
  BY DEF Finished
<1>3. QED BY <1>1, <1>2 DEF Results

(* A card or signature rule point of a job that ended passes just when     *)
(* something of the kind was seen (finish, the reporters).                 *)
THEOREM VerdictFollows == Spec => []VerdictFollowsVideo
<1>1. FollowInv => VerdictFollowsVideo
  <2> SUFFICES ASSUME FollowInv, pc = "done", NEW n \in DOMAIN job.points
               PROVE  LET point == job.points[n]
                          seenAny == \E t \in DOMAIN seen : seen[t] # <<>>
                          asks == \E c \in DOMAIN point.cfgs :
                                    IF job.kind = "card" THEN point.cfgs[c].content ELSE point.cfgs[c].detect
                      IN  /\ job.kind = "card" => (card_passed(point) <=> (asks => seenAny))
                          /\ job.kind = "sign" => (sign_passed(point) <=> (asks => seenAny))
    BY DEF VerdictFollowsVideo
  <2> DEFINE point == job.points[n]
  <2>1. Finished
    BY DEF FollowInv
  <2>2. Results # {} <=> \E t \in DOMAIN seen : seen[t] # <<>>
    BY <2>1, ResultsForSeen
  <2>3. job.kind = "card" => (card_passed(point) <=>
          ((\E c \in DOMAIN point.cfgs : point.cfgs[c].content) => \E t \in DOMAIN seen : seen[t] # <<>>))
    BY <2>2 DEF card_passed
  <2>4. sign_passed(point) <=>
          ((\E c \in DOMAIN point.cfgs : point.cfgs[c].detect) => \E t \in DOMAIN seen : seen[t] # <<>>)
    BY <2>2 DEF sign_passed
  <2>5. QED BY <2>3, <2>4
<1>2. QED BY <1>1, FollowsThrough, PTL

-----------------------------------------------------------------------------
(* The best of what is followed *)

\* What a sighting is worth to a manager.
Worth(kind, info) ==
    IF kind = "id_card" THEN (IF info.confidence = 0 THEN info.detection ELSE info.confidence)
    ELSE bbox_area(info)

\* What the best sighting so far was worth.
Bar(m) == IF m.kind = "id_card" THEN m.confidence ELSE m.area

\* What a service measures.
Measured(info) ==
    /\ info.box \in Int /\ info.text_area \in Int /\ info.confidence \in Int /\ info.detection \in Int
    /\ info.texts \in Seq(Texts)

\* The best of the sightings P, <<frame, info>>.
LargestOf(m, P) ==
    /\ Bar(m) \in Int
    /\ \A p \in P : Worth(m.kind, p[2]) \in Int /\ Worth(m.kind, p[2]) <= Bar(m)
    /\ m.stored # None => <<m.stored_frame, m.stored>> \in P /\ Worth(m.kind, m.stored) = Bar(m)

\* How close a text comes to what is expected.
Closeness(kind, expected, text) == calc_text_similarity(expected, Shown([kind |-> kind], expected, text))

\* The best of the readings Q, <<frame, text>>.
ClosestOf(best, kind, expected, Q) ==
    /\ best.similarity \in Int
    /\ \A q \in Q : /\ Closeness(kind, expected, q[2]) \in Int
                    /\ Closeness(kind, expected, q[2]) <= best.similarity
    /\ best.similarity > 0 =>
         \E q \in Q : q[1] = best.frame /\ Closeness(kind, expected, q[2]) = best.similarity

\* The sightings of some frames.
SightingsOf(own) == UNION {{<<s[1], i>> : i \in Range(s[2])} : s \in own}

\* The readings of some sightings.
ReadingsOf(P) == UNION {{<<p[1], w>> : w \in Range(p[2].texts)} : p \in P}

\* One field decides, or none.
OneField(e) ==
    \/ e.keys = <<>>
    \/ /\ e.keys = <<1>>
       /\ e.contents = <<e.contents[1]>> /\ e.contents[1].text \in Texts /\ e.contents[1].threshold \in Int

\* What is expected is listed, and the deciding fields are read
Expects(m) ==
    /\ m.expected \in Seq(Range(m.expected)) /\ DOMAIN m.read = DOMAIN m.expected
    /\ \A e \in DOMAIN m.expected : OneField(m.expected[e])
    /\ \A e \in DOMAIN m.expected : m.expected[e].keys # <<>> => DOMAIN m.read[e] = {1}

ReadsBest(m, P) ==
    m.recognise => \A e \in DOMAIN m.expected : m.expected[e].keys # <<>> =>
       ClosestOf(m.read[e][1], m.kind, m.expected[e].contents[1].text, ReadingsOf(P))

\* The frames of what is followed.
Own(m, S) == {s \in Range(S) : m.frames_count > 0 /\ m.start <= s[1]}

Ordered(S) ==
    /\ \A k \in 1 .. Len(S) : /\ S[k][1] \in Int /\ S[k][2] \in Seq(Range(S[k][2])) /\ S[k][2] # <<>>
                              /\ \A i \in Range(S[k][2]) : Measured(i)
    /\ \A j, k \in 1 .. Len(S) : j < k => S[j][1] < S[k][1]

Named(m, list) ==
    \A e \in DOMAIN m.expected :
      \E c \in Range(list) : c.id = m.expected[e].id /\ c.contents = m.expected[e].contents

RightOf(r, kind, own, list) ==
    LET best(s) == Most({Worth(kind, i) : i \in Range(s[2])})
        shown == CHOOSE s \in own : s[1] = r.frame
    IN  /\ \E s \in own : s[1] = r.frame
        /\ r.recognised =>
             \E c \in Range(list) :
               /\ c.id = r.id
               /\ r.confidence = Most({Closeness(kind, c.contents[1].text, w) :
                                         w \in UNION {Range(i.texts) : i \in UNION {Range(s[2]) : s \in own}}})
               /\ r.confidence > c.contents[1].threshold
        /\ ~r.recognised => \A s \in own : best(s) <= best(shown)

\* A result shows the best of its stretch.
Right(r, kind, S, list) == RightOf(r, kind, {s \in Range(S) : Within(r, s[1])}, list)

-----------------------------------------------------------------------------
(* How close a text comes *)

\* The least of three numbers is one.
LEMMA LeastType ==
  ASSUME NEW x \in Int, NEW y \in Int, NEW z \in Int
  PROVE  Least({x, y, z}) \in Int
<1> DEFINE S == {x, y, z}
<1>1. \E n \in S : \A m \in S : n <= m
  OBVIOUS
<1>2. S \subseteq Int
  OBVIOUS
<1> HIDE DEF S
<1>3. Least(S) \in S
  BY <1>1 DEF Least
<1>4. QED BY <1>2, <1>3 DEF S

\* The greater of two is one of them and not below the other.
LEMMA MostOfTwo ==
  ASSUME NEW x \in Int, NEW y \in Int
  PROVE  Most({x, y}) \in {x, y} /\ Most({x, y}) >= x /\ Most({x, y}) >= y
<1> DEFINE S == {x, y}
<1>1. \E n \in S : \A m \in S : m <= n
  OBVIOUS
<1>2. x \in S /\ y \in S
  OBVIOUS
<1> HIDE DEF S
<1>3. Most(S) \in S /\ \A m \in S : m <= Most(S)
  BY <1>1 DEF Most
<1>4. x <= Most(S) /\ y <= Most(S) /\ Most(S) \in {x, y}
  BY <1>2, <1>3 DEF S
<1>5. QED BY <1>4 DEF S

\* Distances are numbers.
LEMMA DistanceType ==
  ASSUME NEW a \in Texts, NEW b \in Texts
  PROVE  levenshtein(a, b) \in Int
<1> DEFINE n == Len(b)
           Rows == [0 .. n -> Int]
<1>1. Len(a) \in Nat /\ n \in Nat
  BY DEF Texts
<1>2. ASSUME NEW row \in Rows, NEW x0 PROVE NextRow(row, x0, b) \in Rows
  <2>1. row[0] + 1 \in Int
    BY <1>1
  <2>2. ASSUME NEW i \in 1 .. n, NEW x \in Int
        PROVE  Entry(row, x0, b, i, x) \in Int
    <3>1. row[i] + 1 \in Int /\ x + 1 \in Int /\ row[i - 1] + (IF x0 = b[i] THEN 0 ELSE 1) \in Int
      BY <1>1
    <3>2. QED BY <3>1, LeastType DEF Entry
  <2> HIDE DEF Rows
  <2>3. Len(b) \in Nat /\ \A i \in 1 .. Len(b), x \in Int : Entry(row, x0, b, i, x) \in Int
    BY <1>1, <2>2
  <2>4. NextRow(row, x0, b) \in [0 .. Len(b) -> Int]
    BY <2>1, <2>3, RowType
  <2>5. QED BY <2>4 DEF Rows
<1>3. FirstRow(b) \in Rows
  BY <1>1 DEF FirstRow
<1>4. \A i \in 1 .. Len(a), x \in Rows : NextRow(x, a[i], b) \in Rows
  BY <1>2
<1>5. \E row \in Rows : levenshtein(a, b) = row[n]
  <2> HIDE DEF Rows
  <2>1. QED BY <1>1, <1>3, <1>4, DistanceLoop
<1>6. QED BY <1>1, <1>5

\* So is the closeness.
LEMMA ClosenessType ==
  ASSUME NEW kind, NEW expected \in Texts, NEW text \in Texts
  PROVE  Closeness(kind, expected, text) \in Int
<1> DEFINE s == Shown([kind |-> kind], expected, text)
<1>1. s \in Texts
  <2>1. ASSUME Len(text) > Len(expected)
        PROVE  SubSeq(text, Len(text) - Len(expected) + 1, Len(text)) \in Texts
    <3> DEFINE i == Len(text) - Len(expected) + 1
    <3>1. text \in Seq(Characters) /\ i \in 1 .. Len(text) + 1
      BY <2>1 DEF Texts
    <3> HIDE DEF i
    <3>2. SubSeq(text, i, Len(text)) \in Seq(Characters)
      BY <3>1
    <3>3. QED BY <3>2 DEF Texts, i
  <2>2. QED BY <2>1 DEF Shown
<1> HIDE DEF s
<1>2. CASE expected = s
  BY <1>2 DEF Closeness, calc_text_similarity, s
<1>3. CASE expected # s
  <2>1. Len(expected) \in Nat /\ Len(s) \in Nat /\ (Len(expected) > 0 \/ Len(s) > 0)
    BY <1>1, <1>3 DEF Texts
  <2> DEFINE longer == Most({Len(expected), Len(s)})
             distance == levenshtein(expected, s)
  <2>2. longer \in Nat /\ longer > 0
    <3> DEFINE x == Len(expected)
               y == Len(s)
    <3>1. x \in Int /\ y \in Int /\ x >= 0 /\ y >= 0 /\ (x > 0 \/ y > 0)
      BY <2>1
    <3> HIDE DEF x, y
    <3>2. Most({x, y}) \in {x, y} /\ Most({x, y}) >= x /\ Most({x, y}) >= y
      BY <3>1, MostOfTwo
    <3>3. Most({x, y}) \in Nat /\ Most({x, y}) > 0
      BY <3>1, <3>2
    <3>4. QED BY <3>3 DEF x, y
  <2>3. distance \in Int
    BY <1>1, DistanceType
  <2>4. Closeness(kind, expected, text) = 100 - (100 * distance) \div longer
    BY <1>3 DEF Closeness, calc_text_similarity, s
  <2> HIDE DEF longer, distance
  <2>5. QED BY <2>2, <2>3, <2>4
<1>4. QED BY <1>2, <1>3

\* A text more: the closer reading is kept.
LEMMA CloserClosest ==
  ASSUME NEW m, NEW best, NEW expected \in Texts, NEW Q, ClosestOf(best, m.kind, expected, Q),
         NEW text \in Texts, NEW whole, NEW frame
  PROVE  ClosestOf(Closer(m, expected, best, text, whole, frame), m.kind, expected, Q \union {<<frame, text>>})
<1> DEFINE c == Closeness(m.kind, expected, text)
           new == [similarity |-> c, frame |-> frame, whole |-> whole]
           R == Q \union {<<frame, text>>}
           close(w) == Closeness(m.kind, expected, w)
<1>1. c = calc_text_similarity(expected, Shown(m, expected, text))
  BY DEF Closeness, Shown
<1>2. Closer(m, expected, best, text, whole, frame) = IF c > best.similarity THEN new ELSE best
  BY <1>1 DEF Closer
<1>3. c \in Int
  BY ClosenessType
<1>4. /\ best.similarity \in Int
      /\ \A q \in Q : close(q[2]) \in Int /\ close(q[2]) <= best.similarity
      /\ best.similarity > 0 => \E q \in Q : q[1] = best.frame /\ close(q[2]) = best.similarity
  BY DEF ClosestOf
<1>5. new.similarity = c /\ new.frame = frame
  OBVIOUS
<1>6. c = close(text) /\ \A q \in R : q \in Q \/ (q[1] = frame /\ q[2] = text)
  OBVIOUS
<1>7. <<frame, text>> \in R /\ <<frame, text>>[1] = frame /\ <<frame, text>>[2] = text /\ Q \subseteq R
  OBVIOUS
<1> HIDE DEF c, new, R
<1>8. CASE c > best.similarity
  <2>2. \A q \in Q : close(q[2]) \in Int /\ close(q[2]) <= c
    <3> SUFFICES ASSUME NEW q \in Q PROVE close(q[2]) \in Int /\ close(q[2]) <= c
      OBVIOUS
    <3> DEFINE d == close(q[2])
    <3>1. d \in Int /\ d <= best.similarity
      BY <1>4
    <3> HIDE DEF d
    <3>2. d <= c
      BY <1>3, <1>4, <1>8, <3>1
    <3>3. QED BY <3>1, <3>2 DEF d
  <2>3. ClosestOf(new, m.kind, expected, R)
    BY <1>3, <1>5, <1>6, <1>7, <2>2 DEF ClosestOf
  <2>4. QED BY <1>2, <1>8, <2>3 DEF R
<1>9. CASE ~(c > best.similarity)
  <2>1. c <= best.similarity
    BY <1>3, <1>4, <1>9
  <2>2. ClosestOf(best, m.kind, expected, R)
    BY <1>3, <1>4, <1>6, <1>7, <2>1 DEF ClosestOf
  <2>3. QED BY <1>2, <1>9, <2>2 DEF R
<1>10. QED BY <1>8, <1>9

\* What is in the list, with the frame.
InFrame(frame, list) == {<<frame, x>> : x \in Range(list)}

\* The readings of a frame up to one of them.
SoFar(frame, words, i) == {<<frame, words[j]>> : j \in 1 .. i}

\* At first nothing.
LEMMA SoFarNone ==
  ASSUME NEW frame, NEW words
  PROVE  SoFar(frame, words, 0) = {}
BY DEF SoFar

\* One more.
LEMMA SoFarNext ==
  ASSUME NEW frame, NEW words, NEW i \in Nat, i > 0
  PROVE  SoFar(frame, words, i) = SoFar(frame, words, i - 1) \union {<<frame, words[i]>>}
<1>1. \A j : j \in 1 .. i <=> j \in 1 .. i - 1 \/ j = i
  OBVIOUS
<1>2. QED BY <1>1 DEF SoFar

\* At last all.
LEMMA SoFarAll ==
  ASSUME NEW frame, NEW words, AList(words)
  PROVE  SoFar(frame, words, Len(words)) = InFrame(frame, words)
<1>1. DOMAIN words = 1 .. Len(words)
  BY ListDomain
<1>2. QED BY <1>1 DEF SoFar, InFrame, Range

\* Readings of a frame, or the one before.
Readings(before, frame, W) == {before} \union [similarity: Int, frame: {frame}, whole: W]

\* A reading stays one.
LEMMA CloserType ==
  ASSUME NEW m, NEW before, NEW frame, NEW W, NEW best \in Readings(before, frame, W),
         NEW expected \in Texts, NEW text \in Texts, NEW whole \in W
  PROVE  Closer(m, expected, best, text, whole, frame) \in Readings(before, frame, W)
<1> DEFINE c == calc_text_similarity(expected, Shown(m, expected, text))
<1>1. Closeness(m.kind, expected, text) \in Int
  BY ClosenessType
<1>2. c \in Int
  BY <1>1 DEF Closeness, Shown
<1> HIDE DEF c
<1>3. [similarity |-> c, frame |-> frame, whole |-> whole] \in Readings(before, frame, W)
  BY <1>2 DEF Readings
<1>4. QED BY <1>3 DEF Closer, c

\* The texts of one sighting are read: the closest is kept.
LEMMA ReadClosest ==
  ASSUME NEW m, NEW before, NEW frame, NEW W, NEW best \in Readings(before, frame, W),
         NEW expected \in Texts, NEW info, info.texts \in Seq(Texts), info.whole \in W
  PROVE  /\ _recogition_text(m, expected, best, info, frame) \in Readings(before, frame, W)
         /\ \A Q : ClosestOf(best, m.kind, expected, Q) =>
              ClosestOf(_recogition_text(m, expected, best, info, frame), m.kind, expected,
                        Q \union InFrame(frame, info.texts))
<1> DEFINE words == info.texts
           n == Len(words)
           A == Readings(before, frame, W)
<1>1. n \in Nat /\ AList(words) /\ \A i \in 1 .. n : words[i] \in Texts
  BY ListType
<1>2. \A i \in 1 .. n, x \in A : Closer(m, expected, x, words[i], info.whole, frame) \in A
  BY <1>1, CloserType
<1>3. PICK k \in [0 .. Len(info.texts) -> A] :
        /\ _recogition_text(m, expected, best, info, frame) = k[Len(info.texts)]
        /\ ReadsAlong(k, m, expected, best, info, frame)
  <2>1. Len(info.texts) \in Nat /\ best \in A
        /\ \A i \in 1 .. Len(info.texts), x \in A :
             Closer(m, expected, x, info.texts[i], info.whole, frame) \in A
    BY <1>1, <1>2
  <2> HIDE DEF A
  <2>2. QED BY ONLY <2>1, ReadSteps
<1>4. k[n] \in A
  BY <1>1, <1>3
<1> HIDE DEF A
<1>5. ASSUME NEW Q, ClosestOf(best, m.kind, expected, Q)
      PROVE  ClosestOf(k[n], m.kind, expected, Q \union InFrame(frame, words))
  <2> HIDE DEF n, words
  <2> DEFINE S == {i \in 0 .. n : ClosestOf(k[i], m.kind, expected, Q \union SoFar(frame, words, i))}
  <2>1. 0 \in S
    <3>1. Q \union SoFar(frame, words, 0) = Q
      BY SoFarNone
    <3>2. k[0] = best /\ 0 \in 0 .. n
      BY <1>1, <1>3 DEF ReadsAlong
    <3>3. QED BY <1>5, <3>1, <3>2
  <2>2. ASSUME NEW i \in 1 .. n, i - 1 \in S PROVE i \in S
    <3> DEFINE P == Q \union SoFar(frame, words, i - 1)
               x == k[i - 1]
    <3>1. ClosestOf(x, m.kind, expected, P)
      BY <2>2
    <3>2. words[i] \in Texts /\ k[i] = Closer(m, expected, x, words[i], info.whole, frame)
      BY <1>1, <1>3 DEF words, n, ReadsAlong
    <3>3. P \union {<<frame, words[i]>>} = Q \union SoFar(frame, words, i)
      <4>1. i \in Nat /\ i > 0
        BY <1>1
      <4>2. SoFar(frame, words, i) = SoFar(frame, words, i - 1) \union {<<frame, words[i]>>}
        BY <4>1, SoFarNext
      <4>3. QED BY <4>2
    <3> HIDE DEF P, x
    <3>4. ClosestOf(k[i], m.kind, expected, P \union {<<frame, words[i]>>})
      BY <3>1, <3>2, CloserClosest
    <3>5. i \in 0 .. n
      BY <1>1
    <3>6. QED BY <3>3, <3>4, <3>5
  <2>3. n \in S
    <3> HIDE DEF S
    <3>1. 0 .. n \subseteq S
      BY <1>1, <2>1, <2>2, UpTo
    <3>2. QED BY <1>1, <3>1
  <2>4. SoFar(frame, words, n) = InFrame(frame, words)
    BY <1>1, SoFarAll DEF n
  <2>5. QED BY <2>3, <2>4
<1>6. QED BY <1>3, <1>4, <1>5 DEF A, n, words

\* The readings of a frame's sightings up to one of them.
LEMMA ReadingsSoFar ==
  ASSUME NEW frame, NEW infos
  PROVE  /\ ReadingsOf(SoFar(frame, infos, 0)) = {}
         /\ \A i \in Nat : i > 0 =>
              ReadingsOf(SoFar(frame, infos, i)) =
                ReadingsOf(SoFar(frame, infos, i - 1)) \union InFrame(frame, infos[i].texts)
<1>1. ReadingsOf(SoFar(frame, infos, 0)) = {}
  BY SoFarNone DEF ReadingsOf
<1>2. ASSUME NEW i \in Nat, i > 0
      PROVE  ReadingsOf(SoFar(frame, infos, i)) =
                ReadingsOf(SoFar(frame, infos, i - 1)) \union InFrame(frame, infos[i].texts)
  <2> DEFINE P == SoFar(frame, infos, i - 1)
             p == <<frame, infos[i]>>
  <2>1. SoFar(frame, infos, i) = P \union {p}
    BY <1>2, SoFarNext
  <2>2. p[1] = frame /\ p[2] = infos[i]
    OBVIOUS
  <2> HIDE DEF P, p
  <2>3. ReadingsOf(P \union {p}) = ReadingsOf(P) \union InFrame(p[1], p[2].texts)
    BY DEF ReadingsOf, InFrame
  <2>4. QED BY <2>1, <2>2, <2>3 DEF P
<1>3. QED BY <1>1, <1>2

\* The sightings of a frame are read: the closest is kept.
LEMMA BestClosest ==
  ASSUME NEW m, NEW before, NEW frame, NEW expected \in Texts, NEW infos, AList(infos),
         \A i \in Range(infos) : i.texts \in Seq(Texts),
         NEW Q, ClosestOf(before, m.kind, expected, Q)
  PROVE  ClosestOf(BestReading(m, expected, before, infos, frame), m.kind, expected,
                   Q \union ReadingsOf(InFrame(frame, infos)))
<1> DEFINE n == Len(infos)
           W == {infos[i].whole : i \in 1 .. n}
           A == Readings(before, frame, W)
<1>1. n \in Nat /\ \A i \in 1 .. n : infos[i].texts \in Seq(Texts) /\ infos[i].whole \in W
  <2>1. DOMAIN infos = 1 .. n /\ n \in Nat
    BY ListDomain
  <2>2. \A i \in 1 .. n : infos[i] \in Range(infos)
    BY <2>1 DEF Range
  <2>3. QED BY <2>1, <2>2
<1> HIDE DEF W
<1>2. ASSUME NEW i \in 1 .. n, NEW x \in A
      PROVE  /\ _recogition_text(m, expected, x, infos[i], frame) \in A
             /\ \A P : ClosestOf(x, m.kind, expected, P) =>
                  ClosestOf(_recogition_text(m, expected, x, infos[i], frame), m.kind, expected,
                       P \union InFrame(frame, infos[i].texts))
  <2> DEFINE info == infos[i]
  <2>1. info.texts \in Seq(Texts) /\ info.whole \in W /\ x \in Readings(before, frame, W)
    BY <1>1
  <2> HIDE DEF info, A
  <2>2. /\ _recogition_text(m, expected, x, info, frame) \in Readings(before, frame, W)
        /\ \A P : ClosestOf(x, m.kind, expected, P) =>
             ClosestOf(_recogition_text(m, expected, x, info, frame), m.kind, expected,
                       P \union InFrame(frame, info.texts))
    BY <2>1, ReadClosest
  <2>3. QED BY <2>2 DEF info, A
<1>3. before \in A
  BY DEF Readings
<1>4. PICK k \in [0 .. Len(infos) -> A] :
           /\ BestReading(m, expected, before, infos, frame) = k[Len(infos)]
           /\ BestAlong(k, m, expected, before, infos, frame)
  <2>1. Len(infos) \in Nat /\ before \in A
        /\ \A i \in 1 .. Len(infos), x \in A : _recogition_text(m, expected, x, infos[i], frame) \in A
    BY <1>1, <1>2, <1>3
  <2> HIDE DEF A, n
  <2>2. QED BY ONLY <2>1, BestSteps
<1>5. \A i \in 1 .. n : k[i - 1] \in A
  BY <1>1
<1> HIDE DEF A, n
<1> DEFINE S == {i \in 0 .. n : ClosestOf(k[i], m.kind, expected, Q \union ReadingsOf(SoFar(frame, infos, i)))}
<1>6. 0 \in S
  <2>1. Q \union ReadingsOf(SoFar(frame, infos, 0)) = Q
    BY ReadingsSoFar
  <2>2. k[0] = before /\ 0 \in 0 .. n
    BY <1>1, <1>4 DEF BestAlong
  <2>3. QED BY <2>1, <2>2
<1>7. ASSUME NEW i \in 1 .. n, i - 1 \in S PROVE i \in S
  <2> DEFINE P == Q \union ReadingsOf(SoFar(frame, infos, i - 1))
             x == k[i - 1]
             T == InFrame(frame, infos[i].texts)
  <2>1. ClosestOf(x, m.kind, expected, P)
    BY <1>7
  <2>2. x \in A /\ k[i] = _recogition_text(m, expected, x, infos[i], frame)
    BY <1>4, <1>5 DEF n, BestAlong
  <2>3. P \union T = Q \union ReadingsOf(SoFar(frame, infos, i))
    <3>1. i \in Nat /\ i > 0
      BY <1>1
    <3>2. ReadingsOf(SoFar(frame, infos, i)) = ReadingsOf(SoFar(frame, infos, i - 1)) \union T
      BY <3>1, ReadingsSoFar
    <3> HIDE DEF T
    <3>3. QED BY <3>2
  <2> HIDE DEF P, x
  <2>4. ClosestOf(k[i], m.kind, expected, P \union T)
    BY <1>2, <2>1, <2>2
  <2> HIDE DEF T
  <2>5. i \in 0 .. n
    BY <1>1
  <2>6. QED BY <2>3, <2>4, <2>5
<1>8. n \in S
  <2> HIDE DEF S
  <2>1. 0 .. n \subseteq S
    BY <1>1, <1>6, <1>7, UpTo
  <2>2. QED BY <1>1, <2>1
<1>9. ClosestOf(k[n], m.kind, expected, Q \union ReadingsOf(InFrame(frame, infos)))
  <2>1. SoFar(frame, infos, n) = InFrame(frame, infos)
    BY SoFarAll DEF n
  <2>2. QED BY <1>8, <2>1
<1>10. QED BY <1>4, <1>9 DEF n

\* A worth is a number.
LEMMA WorthType ==
  ASSUME NEW kind, NEW info, Measured(info)
  PROVE  Worth(kind, info) \in Int
<1>1. info.box \in Int /\ info.text_area \in Int /\ info.confidence \in Int /\ info.detection \in Int
  BY DEF Measured
<1>2. Most({1, info.text_area}) \in Int
  <2> DEFINE a == info.text_area
  <2>1. a \in Int
    BY <1>1
  <2> HIDE DEF a
  <2>2. Most({1, a}) \in {1, a}
    BY <2>1, MostOfTwo
  <2>3. Most({1, a}) \in Int
    BY <2>1, <2>2
  <2>4. QED BY <2>3 DEF a
<1>3. bbox_area(info) \in Int
  BY <1>1, <1>2 DEF bbox_area
<1>4. QED BY <1>1, <1>3 DEF Worth

\* Stored is what is worth more than what was.
LEMMA StoreCases ==
  ASSUME NEW x, Fields(x), NEW info, NEW frame
  PROVE  LET y == Store(x, info, frame)
         IN  IF Worth(x.kind, info) > Bar(x)
             THEN y.kind = x.kind /\ Bar(y) = Worth(x.kind, info) /\ y.stored = info /\ y.stored_frame = frame
             ELSE y = x
<1>1. Better(x, info) <=> Worth(x.kind, info) > Bar(x)
  BY DEF Better, Worth, Bar
<1> DEFINE area == bbox_area(info)
           sure == IF x.kind = "id_card" /\ info.confidence = 0 THEN info.detection ELSE info.confidence
           y == [x EXCEPT !.area = area, !.stored = info, !.stored_frame = frame, !.confidence = sure]
<1>2. Store(x, info, frame) = IF Better(x, info) THEN y ELSE x
  BY DEF Store
<1>3. Worth(x.kind, info) = IF x.kind = "id_card" THEN sure ELSE area
  BY DEF Worth
<1> HIDE DEF area, sure
<1>4. y.kind = x.kind /\ y.area = area /\ y.stored = info /\ y.stored_frame = frame /\ y.confidence = sure
  BY DEF Fields
<1> HIDE DEF y
<1>5. Bar(y) = Worth(x.kind, info)
  BY <1>3, <1>4 DEF Bar
<1>6. QED BY <1>1, <1>2, <1>4, <1>5

\* A sighting more: the one worth more is kept.
LEMMA StoreLargest ==
  ASSUME NEW x, Fields(x), NEW info, Measured(info), NEW frame, NEW P, LargestOf(x, P)
  PROVE  LargestOf(Store(x, info, frame), P \union {<<frame, info>>})
<1> DEFINE y == Store(x, info, frame)
           w == Worth(x.kind, info)
           R == P \union {<<frame, info>>}
           worth(i) == Worth(x.kind, i)
<1>1. IF w > Bar(x) THEN y.kind = x.kind /\ Bar(y) = w /\ y.stored = info /\ y.stored_frame = frame ELSE y = x
  BY StoreCases
<1>2. w \in Int /\ w = worth(info)
  BY WorthType
<1>3. /\ Bar(x) \in Int
      /\ \A p \in P : worth(p[2]) \in Int /\ worth(p[2]) <= Bar(x)
      /\ x.stored # None => <<x.stored_frame, x.stored>> \in P /\ worth(x.stored) = Bar(x)
  BY DEF LargestOf
<1>4. /\ \A p \in R : p \in P \/ (p[1] = frame /\ p[2] = info)
      /\ <<frame, info>> \in R /\ P \subseteq R
  OBVIOUS
<1> HIDE DEF y, w, R
<1>5. CASE w > Bar(x)
  <2>1. \A p \in P : worth(p[2]) \in Int /\ worth(p[2]) <= w
    BY <1>2, <1>3, <1>5
  <2>2. \A p \in R : worth(p[2]) \in Int /\ worth(p[2]) <= w
    BY <1>2, <1>4, <2>1
  <2>3. LargestOf(y, R)
    BY <1>1, <1>2, <1>4, <1>5, <2>2 DEF LargestOf
  <2>4. QED BY <2>3 DEF y, R
<1>6. CASE ~(w > Bar(x))
  <2>1. w <= Bar(x)
    BY <1>2, <1>3, <1>6
  <2>2. \A p \in R : worth(p[2]) \in Int /\ worth(p[2]) <= Bar(x)
    BY <1>2, <1>3, <1>4, <2>1
  <2>3. LargestOf(x, R)
    BY <1>3, <1>4, <2>2 DEF LargestOf
  <2>4. QED BY <1>1, <1>6, <2>3 DEF y, R
<1>7. QED BY <1>5, <1>6

\* n has read what m has, and is about the same.
SameReading(m, n) ==
    /\ SameStretch(m, n) /\ n.type = m.type /\ n.tolerance = m.tolerance /\ n.recognise = m.recognise
    /\ n.expected = m.expected /\ n.read = m.read

\* The sightings of a frame are stored one after the other: the best is kept (do_detection).
LEMMA DetectsLargest ==
  ASSUME NEW m, Fields(m), NEW infos, AList(infos), \A i \in Range(infos) : Measured(i), NEW frame,
         NEW P, LargestOf(m, P)
  PROVE  /\ SameReading(m, do_detection(m, infos, frame))
         /\ LargestOf(do_detection(m, infos, frame), P \union InFrame(frame, infos))
<1> DEFINE n == Len(infos)
           A == {m.area} \union {bbox_area(infos[i]) : i \in 1 .. n}
           B == {m.stored} \union {infos[i] : i \in 1 .. n}
           C == {m.confidence} \union {infos[i].confidence : i \in 1 .. n}
                  \union {infos[i].detection : i \in 1 .. n}
           T == [kind: {m.kind}, type: {m.type}, tolerance: {m.tolerance}, recognise: {m.recognise},
                 expected: {m.expected}, read: {m.read}, frame: {m.frame}, frames_count: {m.frames_count},
                 ttl: {m.ttl}, start: {m.start}, area: A, confidence: C, stored: B,
                 stored_frame: {m.stored_frame, frame}]
<1>1. n \in Nat /\ \A i \in 1 .. n : Measured(infos[i])
  <2>1. DOMAIN infos = 1 .. n /\ n \in Nat
    BY ListDomain
  <2>2. \A i \in 1 .. n : infos[i] \in Range(infos)
    BY <2>1 DEF Range
  <2>3. QED BY <2>1, <2>2
<1>2. m \in T
  BY DEF Fields
<1>3. \A i \in 1 .. n, x \in T : Store(x, infos[i], frame) \in T
  <2> SUFFICES ASSUME NEW x \in T, NEW i \in 1 .. n PROVE Store(x, infos[i], frame) \in T
    OBVIOUS
  <2> DEFINE area == bbox_area(infos[i])
             confidence == IF x.kind = "id_card" /\ infos[i].confidence = 0
                           THEN infos[i].detection ELSE infos[i].confidence
             stored == infos[i]
             new == [x EXCEPT !.area = area, !.stored = stored, !.stored_frame = frame,
                              !.confidence = confidence]
  <2>1. Store(x, infos[i], frame) \in {x, new}
    BY DEF Store
  <2>2. area \in A /\ confidence \in C /\ stored \in B
    OBVIOUS
  <2> HIDE DEF area, confidence, stored, A, B, C
  <2>3. new \in T
    BY <2>2
  <2> HIDE DEF new, T
  <2>4. QED BY <2>1, <2>3
<1>4. \A x \in T : SameReading(m, x) /\ Fields(x)
  BY DEF SameReading, SameStretch, Fields
<1> HIDE DEF T
<1>5. PICK k \in [0 .. Len(infos) -> T] :
        do_detection(m, infos, frame) = k[Len(infos)] /\ StoresAlong(k, m, infos, frame)
  <2>1. Len(infos) \in Nat /\ \A i \in 1 .. Len(infos), x \in T : Store(x, infos[i], frame) \in T
    BY <1>1, <1>3
  <2> HIDE DEF n
  <2>2. QED BY <1>2, <2>1, DetectSteps
<1>6. k[n] \in T /\ \A i \in 1 .. n : k[i - 1] \in T
  BY <1>1, <1>5
<1> HIDE DEF n
<1> DEFINE S == {i \in 0 .. n : LargestOf(k[i], P \union SoFar(frame, infos, i))}
<1>7. 0 \in S
  <2>1. P \union SoFar(frame, infos, 0) = P
    BY SoFarNone
  <2>2. k[0] = m /\ 0 \in 0 .. n
    BY <1>1, <1>5 DEF StoresAlong
  <2>3. QED BY <2>1, <2>2
<1>8. ASSUME NEW i \in 1 .. n, i - 1 \in S PROVE i \in S
  <2> DEFINE Q == P \union SoFar(frame, infos, i - 1)
             x == k[i - 1]
             info == infos[i]
  <2>1. LargestOf(x, Q) /\ Fields(x) /\ Measured(info)
    BY <1>1, <1>4, <1>6, <1>8
  <2>2. k[i] = Store(x, info, frame)
    BY <1>5 DEF n, StoresAlong
  <2>3. Q \union {<<frame, info>>} = P \union SoFar(frame, infos, i)
    <3>1. i \in Nat /\ i > 0
      BY <1>1
    <3>2. SoFar(frame, infos, i) = SoFar(frame, infos, i - 1) \union {<<frame, infos[i]>>}
      BY <3>1, SoFarNext
    <3>3. QED BY <3>2
  <2> HIDE DEF Q, x, info
  <2>4. LargestOf(k[i], Q \union {<<frame, info>>})
    BY <2>1, <2>2, StoreLargest
  <2>5. i \in 0 .. n
    BY <1>1
  <2>6. QED BY <2>3, <2>4, <2>5
<1>9. n \in S
  <2> HIDE DEF S
  <2>1. 0 .. n \subseteq S
    BY <1>1, <1>7, <1>8, UpTo
  <2>2. QED BY <1>1, <2>1
<1>10. SoFar(frame, infos, n) = InFrame(frame, infos)
  BY SoFarAll DEF n
<1>11. LargestOf(k[n], P \union InFrame(frame, infos))
  BY <1>9, <1>10
<1>12. QED BY <1>4, <1>5, <1>6, <1>11 DEF n

\* Readings of more sightings.
LEMMA ReadingsMore ==
  ASSUME NEW P, NEW R
  PROVE  ReadingsOf(P \union R) = ReadingsOf(P) \union ReadingsOf(R)
BY DEF ReadingsOf

\* What is expected is read: the closest is kept (do_recognition).
LEMMA RecognisesBest ==
  ASSUME NEW m, Fields(m), Expects(m), NEW infos, AList(infos), \A i \in Range(infos) : Measured(i),
         NEW frame, NEW P, ReadsBest(m, P)
  PROVE  LET n == do_recognition(m, infos, frame)
         IN  /\ n = m \/ \E read : n = [m EXCEPT !.read = read]
             /\ Expects(n) /\ ReadsBest(n, P \union InFrame(frame, infos))
<1> DEFINE Q == P \union InFrame(frame, infos)
           best(e, f) == BestReading(m, m.expected[e].contents[f].text, m.read[e][f], infos, frame)
           read == [e \in DOMAIN m.read |-> [f \in DOMAIN m.read[e] |-> best(e, f)]]
           n == do_recognition(m, infos, frame)
<1>1. CASE ~m.recognise
  <2>1. n = m
    BY <1>1 DEF do_recognition
  <2>2. ReadsBest(m, Q)
    BY <1>1 DEF ReadsBest
  <2> HIDE DEF n, Q
  <2>3. QED BY <2>1, <2>2 DEF n, Q
<1>2. CASE m.recognise
  <2>1. n = [m EXCEPT !.read = read]
    BY <1>2 DEF do_recognition
  <2>2. DOMAIN read = DOMAIN m.read /\ \A e \in DOMAIN m.read : DOMAIN read[e] = DOMAIN m.read[e]
    OBVIOUS
  <2>3. /\ m.expected \in Seq(Range(m.expected)) /\ DOMAIN m.read = DOMAIN m.expected
        /\ \A e \in DOMAIN m.expected : OneField(m.expected[e])
        /\ \A e \in DOMAIN m.expected : m.expected[e].keys # <<>> => DOMAIN m.read[e] = {1}
    BY DEF Expects
  <2>4. ASSUME NEW e \in DOMAIN m.expected, m.expected[e].keys # <<>>
        PROVE  ClosestOf(read[e][1], m.kind, m.expected[e].contents[1].text, ReadingsOf(Q))
    <3> DEFINE text == m.expected[e].contents[1].text
               before == m.read[e][1]
    <3>1. read[e][1] = BestReading(m, text, before, infos, frame)
      BY <2>3, <2>4
    <3>2. text \in Texts
      BY <2>3, <2>4 DEF OneField
    <3>3. ClosestOf(before, m.kind, text, ReadingsOf(P))
      BY <1>2, <2>4 DEF ReadsBest
    <3>4. \A i \in Range(infos) : i.texts \in Seq(Texts)
      BY DEF Measured
    <3> HIDE DEF text, before, read
    <3>5. ClosestOf(BestReading(m, text, before, infos, frame), m.kind, text,
                    ReadingsOf(P) \union ReadingsOf(InFrame(frame, infos)))
      BY <3>2, <3>3, <3>4, BestClosest
    <3>6. ReadingsOf(Q) = ReadingsOf(P) \union ReadingsOf(InFrame(frame, infos))
      BY ReadingsMore
    <3>7. QED BY <3>1, <3>5, <3>6 DEF text
  <2> HIDE DEF read, n
  <2>5. n.read = read /\ n.kind = m.kind /\ n.expected = m.expected /\ n.recognise = m.recognise
    BY <2>1 DEF Fields
  <2>6. Expects(n)
    BY <2>2, <2>3, <2>5 DEF Expects
  <2>7. ReadsBest(n, Q)
    BY <2>4, <2>5 DEF ReadsBest
  <2>8. QED BY <2>1, <2>6, <2>7 DEF n, Q
<1>3. QED BY <1>1, <1>2

\* m keeps the best of the sightings P, and the closest readings.
Best(m, P) == LargestOf(m, P) /\ Expects(m) /\ ReadsBest(m, P)

\* n keeps what m does.
SameBest(m, n) ==
    /\ n.kind = m.kind /\ n.area = m.area /\ n.confidence = m.confidence /\ n.stored = m.stored
    /\ n.stored_frame = m.stored_frame /\ n.recognise = m.recognise /\ n.expected = m.expected
    /\ n.read = m.read

\* It is about nothing else.
LEMMA BestCarried ==
  ASSUME NEW m, NEW n, SameBest(m, n), NEW P, Best(m, P)
  PROVE  Best(n, P)
<1>1. Bar(n) = Bar(m)
  BY DEF SameBest, Bar
<1>2. LargestOf(n, P)
  BY <1>1 DEF Best, LargestOf, SameBest
<1>3. Expects(n)
  BY DEF Best, Expects, SameBest
<1>4. ReadsBest(n, P)
  BY DEF Best, ReadsBest, SameBest
<1>5. QED BY <1>2, <1>3, <1>4 DEF Best

\* What matches was measured.
LEMMA MatchingMeasured ==
  ASSUME NEW m, NEW infos, AList(infos), \A i \in Range(infos) : Measured(i)
  PROVE  AList(Matching(m, infos)) /\ \A i \in Range(Matching(m, infos)) : Measured(i)
<1> DEFINE S == {info \in Range(infos) : _check_ocr_type(m, info)}
<1>1. infos \in Seq(Range(infos))
  BY DEF AList
<1>2. S \subseteq Range(infos)
  OBVIOUS
<1> HIDE DEF S
<1>3. Select(infos, S) \in Seq(Range(infos) \cap S)
  BY <1>1, SelectType
<1>4. \A i \in DOMAIN Select(infos, S) : Select(infos, S)[i] \in Range(infos)
  BY <1>3
<1>5. \A i \in Range(Select(infos, S)) : Measured(i)
  BY <1>4 DEF Range
<1>6. AList(Matching(m, infos))
  BY MatchingType
<1>7. QED BY <1>5, <1>6 DEF Matching, S

\* A frame more: the best is kept of what it shows too.
LEMMA LookingBest ==
  ASSUME NEW m, Fields(m), NEW infos, AList(infos), \A i \in Range(infos) : Measured(i), NEW frame,
         NEW P, Best(m, P)
  PROVE  LET n == Looked(m, infos, frame)
         IN  /\ Best(n, P \union InFrame(frame, Matching(m, infos))) /\ n.kind = m.kind
             /\ n.expected = m.expected
<1> DEFINE a == [m EXCEPT !.frame = frame]
           list == Matching(m, infos)
           Q == P \union InFrame(frame, list)
           b == do_detection(a, list, frame)
           c == do_recognition(b, list, frame)
<1>1. Fields(a) /\ SameBest(m, a)
  BY DEF Fields, SameBest
<1>2. AList(list) /\ \A i \in Range(list) : Measured(i)
  BY MatchingMeasured
<1> HIDE DEF a, list
<1>3. Best(a, P)
  BY <1>1, BestCarried
<1>4. SameReading(a, b) /\ LargestOf(b, Q)
  BY <1>1, <1>2, <1>3, DetectsLargest DEF Best
<1> HIDE DEF b
<1>5. /\ Fields(b) /\ b.kind = m.kind /\ b.recognise = a.recognise /\ b.expected = m.expected
      /\ b.expected = a.expected /\ b.read = a.read /\ b.kind = a.kind
  BY <1>1, <1>4 DEF SameReading, SameStretch, SameBest
<1>6. Expects(b) /\ ReadsBest(b, P)
  <2>1. Expects(a) /\ ReadsBest(a, P)
    BY <1>3 DEF Best
  <2>2. Expects(b)
    BY <1>5, <2>1 DEF Expects
  <2>3. ReadsBest(b, P)
    BY <1>5, <2>1 DEF ReadsBest
  <2>4. QED BY <2>2, <2>3
<1>7. (c = b \/ \E read : c = [b EXCEPT !.read = read]) /\ Expects(c) /\ ReadsBest(c, Q)
  <2>1. \A i \in Range(list) : Measured(i)
    BY <1>2
  <2>2. LET n == do_recognition(b, list, frame)
        IN  /\ n = b \/ \E read : n = [b EXCEPT !.read = read]
            /\ Expects(n) /\ ReadsBest(n, P \union InFrame(frame, list))
    BY <1>2, <1>5, <1>6, <2>1, RecognisesBest
  <2>3. QED BY <2>2
<1> HIDE DEF c
<1>8. /\ c.kind = b.kind /\ c.area = b.area /\ c.confidence = b.confidence /\ c.stored = b.stored
      /\ c.stored_frame = b.stored_frame /\ c.expected = b.expected
  BY <1>5, <1>7 DEF Fields
<1>9. Bar(c) = Bar(b)
  BY <1>8 DEF Bar
<1>10. LargestOf(c, Q)
  BY <1>4, <1>8, <1>9 DEF LargestOf
<1>11. Best(c, Q) /\ c.kind = m.kind /\ c.expected = m.expected
  BY <1>5, <1>7, <1>8, <1>10 DEF Best
<1>12. c = Looked(m, infos, frame)
  BY DEF a, list, b, c, Looked
<1>13. QED BY <1>11, <1>12 DEF Q, list

\* The greatest of some numbers, if one is known that no other exceeds.
LEMMA MostIs ==
  ASSUME NEW S \in SUBSET Int, NEW x \in S, \A y \in S : y <= x
  PROVE  Most(S) = x
<1>1. Most(S) \in S /\ \A y \in S : y <= Most(S)
  BY DEF Most
<1>2. Most(S) \in Int /\ x \in Int /\ Most(S) <= x /\ x <= Most(S)
  BY <1>1
<1> DEFINE y == Most(S)
<1> HIDE DEF y
<1>3. y = x
  BY <1>2 DEF y
<1>4. QED BY <1>3 DEF y

\* The sightings of a frame have a best.
LEMMA MostWorth ==
  ASSUME NEW kind, NEW list, AList(list), list # <<>>, \A i \in Range(list) : Measured(i)
  PROVE  LET W == {Worth(kind, i) : i \in Range(list)}
         IN  Most(W) \in W /\ \A w \in W : w \in Int /\ w <= Most(W)
<1> DEFINE n == Len(list)
           f == [j \in 1 .. n |-> Worth(kind, list[j])]
           W == {Worth(kind, i) : i \in Range(list)}
<1>1. DOMAIN list = 1 .. n /\ n \in Nat /\ n # 0
  <2>1. DOMAIN list = 1 .. n /\ n \in Nat
    BY ListDomain
  <2>2. n # 0
    <3>1. list \in Seq(Range(list))
      BY DEF AList
    <3>2. QED BY <3>1
  <2>3. QED BY <2>1, <2>2
<1>2. \A j \in 1 .. n : list[j] \in Range(list)
  BY <1>1 DEF Range
<1>3. f \in [1 .. n -> Int]
  BY <1>2, WorthType
<1> HIDE DEF n
<1>4. PICK m \in 1 .. n : \A j \in 1 .. n : f[j] <= f[m]
  <2>1. n \in Nat \ {0}
    BY <1>1
  <2> HIDE DEF f
  <2>2. QED BY <1>3, <2>1, Greatest
<1>5. \A w \in W : \E j \in 1 .. n : w = f[j]
  BY <1>1 DEF Range
<1>6. f[m] \in W
  BY <1>2
<1>7. \A w \in W : w \in Int /\ w <= f[m]
  BY <1>3, <1>4, <1>5
<1> HIDE DEF W, f
<1>8. W \in SUBSET Int
  BY <1>7
<1>9. Most(W) = f[m]
  BY <1>6, <1>7, <1>8, MostIs
<1>10. QED BY <1>6, <1>7, <1>9 DEF W

\* Every sighting is of a frame of its own.
LEMMA FramesDistinct ==
  ASSUME NEW S, AList(S), Ordered(S), NEW s \in Range(S), NEW u \in Range(S), s[1] = u[1]
  PROVE  s = u
<1>1. DOMAIN S = 1 .. Len(S) /\ Len(S) \in Nat
  BY ListDomain
<1>2. PICK j \in 1 .. Len(S) : S[j] = s
  BY <1>1 DEF Range
<1>3. PICK k \in 1 .. Len(S) : S[k] = u
  BY <1>1 DEF Range
<1>4. S[j][1] \in Int /\ S[k][1] \in Int /\ S[j][1] = S[k][1]
  BY <1>2, <1>3 DEF Ordered
<1>5. ~(j < k) /\ ~(k < j)
  BY <1>4 DEF Ordered
<1>6. j = k
  BY <1>1, <1>5
<1>7. QED BY <1>2, <1>3, <1>6

\* What was shown is a list of what was measured.
LEMMA SeenMeasured ==
  ASSUME NEW S, AList(S), Ordered(S), NEW s \in Range(S)
  PROVE  AList(s[2]) /\ s[2] # <<>> /\ \A i \in Range(s[2]) : Measured(i)
<1>1. DOMAIN S = 1 .. Len(S)
  BY ListDomain
<1>2. PICK j \in 1 .. Len(S) : S[j] = s
  BY <1>1 DEF Range
<1>3. QED BY <1>2 DEF Ordered, AList

\* A result that names nothing shows the best of its stretch.
LEMMA DetectRight ==
  ASSUME NEW n, NEW S, AList(S), Ordered(S), NEW list, NEW to, NEW own,
         LargestOf(n, SightingsOf(own)), _gen_detect_tracking_result(n, to) # Raises,
         own = {s \in Range(S) : Within(_gen_detect_tracking_result(n, to), s[1])}
  PROVE  Right(_gen_detect_tracking_result(n, to), n.kind, S, list)
<1> DEFINE r == _gen_detect_tracking_result(n, to)
           best(s) == Most({Worth(n.kind, i) : i \in Range(s[2])})
           shown == CHOOSE s \in own : s[1] = r.frame
<1>1. n.stored # None /\ r.frame = n.stored_frame /\ r.recognised = FALSE
  BY DEF _gen_detect_tracking_result, Tracked
<1>2. /\ Bar(n) \in Int
      /\ \A p \in SightingsOf(own) : Worth(n.kind, p[2]) \in Int /\ Worth(n.kind, p[2]) <= Bar(n)
      /\ <<n.stored_frame, n.stored>> \in SightingsOf(own) /\ Worth(n.kind, n.stored) = Bar(n)
  BY <1>1 DEF LargestOf
<1>3. PICK u \in own : n.stored_frame = u[1] /\ n.stored \in Range(u[2])
  BY <1>2 DEF SightingsOf
<1>4. \A s \in own : s \in Range(S)
  OBVIOUS
<1> HIDE DEF r
<1>5. shown \in own /\ shown[1] = r.frame
  BY <1>1, <1>3
<1>6. shown = u
  BY <1>1, <1>3, <1>4, <1>5, FramesDistinct
<1>7. \A s \in own : best(s) <= best(shown)
  <2> SUFFICES ASSUME NEW s \in own PROVE best(s) <= best(u)
    BY <1>6
  <2> DEFINE W(x) == {Worth(n.kind, i) : i \in Range(x[2])}
  <2>1. Most(W(s)) \in W(s)
    BY <1>4, SeenMeasured, MostWorth
  <2>2. \A w \in W(u) : w \in Int /\ w <= Most(W(u))
    BY <1>4, SeenMeasured, MostWorth
  <2>3. PICK i \in Range(s[2]) : Most(W(s)) = Worth(n.kind, i)
    BY <2>1
  <2>4. Most(W(s)) \in Int /\ Most(W(s)) <= Bar(n)
    <3>1. <<s[1], i>> \in SightingsOf(own) /\ <<s[1], i>>[2] = i
      BY DEF SightingsOf
    <3>2. QED BY <1>2, <2>3, <3>1
  <2>5. Bar(n) \in W(u)
    BY <1>2, <1>3
  <2>6. Most(W(u)) \in Int
    BY <1>4, SeenMeasured, MostWorth
  <2>7. Bar(n) <= Most(W(u))
    BY <2>2, <2>5
  <2> HIDE DEF W
  <2>8. Most(W(s)) <= Most(W(u))
    BY <1>2, <2>4, <2>6, <2>7
  <2>9. QED BY <2>8 DEF W
<1>8. \E s \in own : s[1] = r.frame
  BY <1>1, <1>3
<1>9. own = {s \in Range(S) : Within(r, s[1])}
  BY DEF r
<1> HIDE DEF shown
<1>10. Right(r, n.kind, S, list)
  BY <1>1, <1>7, <1>8, <1>9 DEF Right, RightOf, shown
<1>11. QED BY <1>10 DEF r

\* The field p was read best, and asked for first.
ReadFirst(m, p) ==
    /\ p \in Passing(m)
    /\ \A q \in Passing(m) :
         \/ m.read[q[1]][q[2]].similarity < m.read[p[1]][p[2]].similarity
         \/ /\ m.read[q[1]][q[2]].similarity = m.read[p[1]][p[2]].similarity
            /\ p[1] < q[1] \/ (p[1] = q[1] /\ p[2] <= q[2])

\* What passes was read well, and is the one deciding field.
PassingField(m, e) ==
    /\ e \in DOMAIN m.expected /\ m.expected[e].keys # <<>> /\ m.read[e][1].similarity \in Int
    /\ m.read[e][1].similarity > m.expected[e].contents[1].threshold /\ m.read[e][1].similarity > 0

\* Just deciding fields pass.
LEMMA PassingFields ==
  ASSUME NEW m, Expects(m), NEW P, ReadsBest(m, P), m.recognise, NEW p \in Passing(m)
  PROVE  \E e : p = <<e, 1>> /\ PassingField(m, e)
<1>1. PICK e \in DOMAIN m.expected : \E f : p = <<e, f>>
  BY DEF Passing
<1> DEFINE f == p[2]
<1>2. p[1] = e /\ p[2] = f /\ p = <<e, f>>
  BY <1>1
<1>3. f \in Range(m.expected[e].keys)
  BY <1>2 DEF Passing
<1>4. OneField(m.expected[e])
  BY DEF Expects
<1>5. m.expected[e].keys # <<>>
  <2>1. ASSUME m.expected[e].keys = <<>> PROVE FALSE
    <3>1. Range(<<>>) = {}
      BY DEF Range
    <3>2. QED BY <1>3, <2>1, <3>1
  <2>2. QED BY <2>1
<1>6. f = 1
  <2>1. m.expected[e].keys = <<1>>
    BY <1>4, <1>5 DEF OneField
  <2>2. Range(<<1>>) = {1}
    BY DEF Range
  <2>3. QED BY <1>3, <2>1, <2>2
<1>7. m.read[e][1].similarity \in Int
  <2>1. ClosestOf(m.read[e][1], m.kind, m.expected[e].contents[1].text, ReadingsOf(P))
    BY <1>5 DEF ReadsBest
  <2>2. QED BY <2>1 DEF ClosestOf
<1>8. m.read[e][1].similarity > m.expected[e].contents[1].threshold /\ m.read[e][1].similarity > 0
  BY <1>2, <1>6 DEF Passing
<1>9. PassingField(m, e)
  BY <1>5, <1>7, <1>8 DEF PassingField
<1>10. QED BY <1>1, <1>6, <1>9

\* One of those that pass was read best, and asked for first.
LEMMA PassingBest ==
  ASSUME NEW m, Expects(m), NEW P, ReadsBest(m, P), m.recognise, Passing(m) # {}
  PROVE  \E p : ReadFirst(m, p)
<1> DEFINE N == Len(m.expected)
           I == {e \in 1 .. N : <<e, 1>> \in Passing(m)}
           sim(e) == m.read[e][1].similarity
           f == [e \in 1 .. N |-> IF e \in I THEN sim(e) ELSE 0]
<1>1. DOMAIN m.expected = 1 .. N /\ N \in Nat
  <2>1. AList(m.expected)
    BY DEF Expects, AList
  <2>2. QED BY <2>1, ListDomain
<1>2. \A p \in Passing(m) : p[1] \in I /\ p = <<p[1], 1>>
  <2> SUFFICES ASSUME NEW p \in Passing(m) PROVE p[1] \in I /\ p = <<p[1], 1>>
    OBVIOUS
  <2>1. PICK e : p = <<e, 1>> /\ PassingField(m, e)
    BY PassingFields
  <2>2. e \in 1 .. N
    BY <1>1, <2>1 DEF PassingField
  <2>3. QED BY <2>1, <2>2
<1>3. \A e \in I : sim(e) \in Int /\ sim(e) > 0
  <2> SUFFICES ASSUME NEW e \in I PROVE sim(e) \in Int /\ sim(e) > 0
    OBVIOUS
  <2>1. PICK d : <<e, 1>> = <<d, 1>> /\ PassingField(m, d)
    BY PassingFields
  <2>2. d = e
    BY <2>1
  <2>3. QED BY <2>1, <2>2 DEF PassingField
<1>4. PICK i : i \in I
  BY <1>2
<1> HIDE DEF I, sim, N
<1>5. \A e \in I : e \in 1 .. N
  BY DEF I
<1>6. f \in [1 .. N -> Int] /\ \A e \in I : f[e] = sim(e)
  BY <1>3, <1>5
<1>7. \A e \in 1 .. N : e \notin I => f[e] = 0
  OBVIOUS
<1> HIDE DEF f
<1>8. PICK t \in 1 .. N : \A j \in 1 .. N : f[j] <= f[t]
  <2>1. N \in Nat \ {0}
    BY <1>1, <1>4, <1>5
  <2>2. QED BY <1>6, <2>1, Greatest
<1>9. t \in I
  <2>1. f[i] <= f[t] /\ f[i] > 0 /\ f[i] \in Int /\ f[t] \in Int
    BY <1>3, <1>4, <1>5, <1>6, <1>8
  <2>2. f[t] # 0
    BY <2>1
  <2>3. QED BY <1>7, <2>2
<1> DEFINE T == {e \in I : sim(e) = sim(t)}
<1>10. PICK e \in T : \A j \in T : e <= j
  <2>1. T \in SUBSET (1 .. N) /\ T # {}
    BY <1>5, <1>9
  <2> HIDE DEF T
  <2>2. QED BY <1>1, <2>1, LeastNumber
<1>11. \A j \in I : sim(j) < sim(e) \/ (sim(j) = sim(e) /\ e <= j)
  <2> SUFFICES ASSUME NEW j \in I PROVE sim(j) < sim(e) \/ (sim(j) = sim(e) /\ e <= j)
    OBVIOUS
  <2>1. sim(e) = sim(t) /\ sim(j) \in Int /\ sim(t) \in Int
    BY <1>3, <1>9, <1>10
  <2>2. sim(j) <= sim(t)
    BY <1>5, <1>6, <1>8, <1>9
  <2>3. CASE sim(j) = sim(t)
    BY <1>10, <2>1, <2>3
  <2>4. CASE sim(j) # sim(t)
    BY <2>1, <2>2, <2>4
  <2>5. QED BY <2>3, <2>4
<1>12. ReadFirst(m, <<e, 1>>)
  <2> DEFINE p == <<e, 1>>
  <2>1. p[1] = e /\ p[2] = 1 /\ p \in Passing(m)
    BY DEF I
  <2>2. ASSUME NEW q \in Passing(m)
        PROVE  \/ m.read[q[1]][q[2]].similarity < m.read[p[1]][p[2]].similarity
               \/ /\ m.read[q[1]][q[2]].similarity = m.read[p[1]][p[2]].similarity
                  /\ p[1] < q[1] \/ (p[1] = q[1] /\ p[2] <= q[2])
    <3>1. q[1] \in I /\ q[2] = 1
      BY <1>2
    <3>2. m.read[q[1]][q[2]].similarity = sim(q[1]) /\ m.read[p[1]][p[2]].similarity = sim(e)
      BY <2>1, <3>1 DEF sim
    <3>3. e \in Int /\ q[1] \in Int
      BY <1>1, <1>5, <1>10, <3>1
    <3>4. sim(q[1]) < sim(e) \/ (sim(q[1]) = sim(e) /\ e <= q[1])
      BY <1>11, <3>1
    <3> HIDE DEF p
    <3>5. QED BY <2>1, <3>1, <3>2, <3>3, <3>4
  <2> HIDE DEF p
  <2>3. ReadFirst(m, p)
    BY <2>1, <2>2 DEF ReadFirst
  <2>4. QED BY <2>3 DEF p
<1>13. QED BY <1>12

\* The texts read in some frames.
TextsOf(own) == UNION {Range(i.texts) : i \in UNION {Range(s[2]) : s \in own}}

\* How close they come.
ClosenessIn(kind, text, own) == {Closeness(kind, text, w) : w \in TextsOf(own)}

\* The closest reading of some frames is of one of them.
LEMMA ClosestIs ==
  ASSUME NEW b, NEW kind, NEW text, NEW own, ClosestOf(b, kind, text, ReadingsOf(SightingsOf(own))),
         b.similarity > 0
  PROVE  /\ b.similarity = Most(ClosenessIn(kind, text, own))
         /\ \E s \in own : s[1] = b.frame
<1> DEFINE Q == ReadingsOf(SightingsOf(own))
           C == ClosenessIn(kind, text, own)
<1>1. \A q \in Q : \E s \in own : q[1] = s[1] /\ q[2] \in TextsOf(own)
  <2> SUFFICES ASSUME NEW q \in Q PROVE \E s \in own : q[1] = s[1] /\ q[2] \in TextsOf(own)
    OBVIOUS
  <2>1. PICK p \in SightingsOf(own) : \E w \in Range(p[2].texts) : q = <<p[1], w>>
    BY DEF ReadingsOf
  <2>2. PICK w \in Range(p[2].texts) : q = <<p[1], w>>
    BY <2>1
  <2>3. PICK s \in own : \E i \in Range(s[2]) : p = <<s[1], i>>
    BY DEF SightingsOf
  <2>4. PICK i \in Range(s[2]) : p = <<s[1], i>>
    BY <2>3
  <2>5. w \in Range(i.texts) /\ q[1] = s[1] /\ q[2] = w
    BY <2>2, <2>4
  <2>6. QED BY <2>4, <2>5 DEF TextsOf
<1>2. \A w \in TextsOf(own) : \E q \in Q : q[2] = w
  <2> SUFFICES ASSUME NEW w \in TextsOf(own) PROVE \E q \in Q : q[2] = w
    OBVIOUS
  <2>1. PICK s \in own : \E i \in Range(s[2]) : w \in Range(i.texts)
    BY DEF TextsOf
  <2>2. PICK i \in Range(s[2]) : w \in Range(i.texts)
    BY <2>1
  <2> DEFINE p == <<s[1], i>>
  <2>3. p \in SightingsOf(own) /\ p[2] = i /\ p[1] = s[1]
    BY DEF SightingsOf
  <2> HIDE DEF p
  <2>4. <<s[1], w>> \in Q /\ <<s[1], w>>[2] = w
    BY <2>2, <2>3 DEF ReadingsOf
  <2>5. QED BY <2>4
<1>3. /\ b.similarity \in Int
      /\ \A q \in Q : Closeness(kind, text, q[2]) \in Int /\ Closeness(kind, text, q[2]) <= b.similarity
      /\ \E q \in Q : q[1] = b.frame /\ Closeness(kind, text, q[2]) = b.similarity
  BY DEF ClosestOf
<1> HIDE DEF Q
<1>4. \A c \in C : c \in Int /\ c <= b.similarity
  BY <1>2, <1>3 DEF ClosenessIn
<1>5. PICK q \in Q : q[1] = b.frame /\ Closeness(kind, text, q[2]) = b.similarity
  BY <1>3
<1>6. PICK s \in own : q[1] = s[1] /\ q[2] \in TextsOf(own)
  BY <1>1
<1>7. b.similarity \in C
  BY <1>5, <1>6 DEF ClosenessIn
<1> HIDE DEF C
<1>8. Most(C) = b.similarity
  <2>1. C \in SUBSET Int
    BY <1>4
  <2>2. QED BY <1>4, <1>7, <2>1, MostIs
<1>9. QED BY <1>5, <1>6, <1>8 DEF C

\* A result that names a text shows the closest reading of it.
LEMMA RecogRight ==
  ASSUME NEW n, NEW S, NEW list, Named(n, list), NEW to, NEW own,
         Best(n, SightingsOf(own)), n.recognise, Passing(n) # {},
         _gen_recog_tracking_result(n, to) # Raises,
         own = {s \in Range(S) : Within(_gen_recog_tracking_result(n, to), s[1])}
  PROVE  Right(_gen_recog_tracking_result(n, to), n.kind, S, list)
<1> DEFINE r == _gen_recog_tracking_result(n, to)
           best == CHOOSE p \in Passing(n) : \A q \in Passing(n) :
                  \/ n.read[q[1]][q[2]].similarity < n.read[p[1]][p[2]].similarity
                  \/ /\ n.read[q[1]][q[2]].similarity = n.read[p[1]][p[2]].similarity
                     /\ p[1] < q[1] \/ (p[1] = q[1] /\ p[2] <= q[2])
           reading == n.read[best[1]][best[2]]
<1>1. r = Tracked(n, n.expected[best[1]].id, to, reading.frame, reading.similarity, TRUE, reading.whole)
  BY DEF _gen_recog_tracking_result
<1>2. ReadFirst(n, best)
  <2>1. \E p : ReadFirst(n, p)
    BY PassingBest DEF Best
  <2>2. QED BY <2>1 DEF ReadFirst
<1>3. best \in Passing(n)
  BY <1>2 DEF ReadFirst
<1> HIDE DEF best, reading
<1>4. PICK e : best = <<e, 1>> /\ PassingField(n, e)
  BY <1>3, PassingFields DEF Best
<1>5. /\ r.id = n.expected[e].id /\ r.frame = reading.frame /\ r.confidence = reading.similarity
      /\ r.recognised = TRUE
  <2>1. best[1] = e
    BY <1>4
  <2>2. QED BY <1>1, <2>1 DEF Tracked
<1>6. reading = n.read[e][1]
  BY <1>4 DEF reading
<1> DEFINE text == n.expected[e].contents[1].text
<1>7. /\ e \in DOMAIN n.expected /\ n.expected[e].keys # <<>>
      /\ reading.similarity > n.expected[e].contents[1].threshold /\ reading.similarity > 0
  BY <1>4, <1>6 DEF PassingField
<1>8. ClosestOf(reading, n.kind, text, ReadingsOf(SightingsOf(own)))
  BY <1>6, <1>7 DEF Best, ReadsBest
<1>9. /\ reading.similarity = Most(ClosenessIn(n.kind, text, own))
      /\ \E s \in own : s[1] = reading.frame
  <2> HIDE DEF text
  <2>1. QED BY <1>7, <1>8, ClosestIs
<1>10. PICK c \in Range(list) : c.id = n.expected[e].id /\ c.contents = n.expected[e].contents
  BY <1>7 DEF Named
<1>11. own = {s \in Range(S) : Within(r, s[1])}
  OBVIOUS
<1> HIDE DEF r
<1>12. /\ c.id = r.id /\ r.confidence > c.contents[1].threshold
       /\ r.confidence = Most({Closeness(n.kind, c.contents[1].text, w) : w \in TextsOf(own)})
  BY <1>5, <1>7, <1>9, <1>10 DEF ClosenessIn
<1>13. Right(r, n.kind, S, list)
  BY <1>5, <1>9, <1>11, <1>12 DEF Right, RightOf, TextsOf
<1>14. QED BY <1>13 DEF r

\* A result shows the best of its stretch.
LEMMA TellsRight ==
  ASSUME NEW n, NEW S, AList(S), Ordered(S), NEW list, Named(n, list), NEW to, NEW own,
         Best(n, SightingsOf(own)), _gen_tracking_result(n, to) # Raises,
         own = {s \in Range(S) : Within(_gen_tracking_result(n, to), s[1])}
  PROVE  Right(_gen_tracking_result(n, to), n.kind, S, list)
<1>1. CASE n.recognise /\ Passing(n) # {}
  <2>1. _gen_tracking_result(n, to) = _gen_recog_tracking_result(n, to)
    BY <1>1 DEF _gen_tracking_result
  <2>2. QED BY <1>1, <2>1, RecogRight
<1>2. CASE ~(n.recognise /\ Passing(n) # {})
  <2>1. _gen_tracking_result(n, to) = _gen_detect_tracking_result(n, to)
    BY <1>2 DEF _gen_tracking_result
  <2>2. LargestOf(n, SightingsOf(own))
    BY DEF Best
  <2>3. QED BY <2>1, <2>2, DetectRight
<1>3. QED BY <1>1, <1>2

\* What is in a list with one more member.
LEMMA RangeAppend ==
  ASSUME NEW s, AList(s), NEW x
  PROVE  Range(Append(s, x)) = Range(s) \union {x}
<1> DEFINE t == Append(s, x)
<1>1. /\ AList(t) /\ Len(s) \in Nat /\ Len(t) = Len(s) + 1
      /\ t[Len(s) + 1] = x /\ \A i \in 1 .. Len(s) : t[i] = s[i]
  BY ListAppend
<1> HIDE DEF t
<1>2. DOMAIN t = 1 .. Len(s) + 1 /\ DOMAIN s = 1 .. Len(s)
  BY <1>1, ListDomain
<1>3. \A i : i \in DOMAIN t <=> i \in DOMAIN s \/ i = Len(s) + 1
  BY <1>1, <1>2
<1>4. Range(t) = Range(s) \union {x}
  BY <1>1, <1>2, <1>3 DEF Range
<1>5. QED BY <1>4 DEF t

\* All sightings are of frames up to now.
LEMMA FramesUpTo ==
  ASSUME NEW count, NEW begun, NEW last, NEW R, NEW S, NEW now, Stretch(count, begun, last, R, S, now)
  PROVE  /\ AList(S) /\ now \in Nat /\ count \in Nat /\ begun \in Int
         /\ \A k \in 1 .. Len(S) : S[k][1] \in 1 .. now
         /\ \A s \in Range(S) : s[1] \in 1 .. now
         /\ \A r \in Range(R) : r.to \in Int /\ r.to <= now
<1>1. /\ AList(S) /\ AList(R) /\ now \in Nat /\ count \in Nat /\ begun \in Int
      /\ Told(R, S, now) /\ Kept(count, begun, last, R, S, now)
  BY DEF Stretch, Told
<1>2. DOMAIN S = 1 .. Len(S) /\ DOMAIN R = 1 .. Len(R)
  BY <1>1, ListDomain
<1>3. \A k \in 1 .. Len(S) : S[k][1] \in 1 .. now
  BY <1>1 DEF Kept
<1>4. \A s \in Range(S) : s[1] \in 1 .. now
  BY <1>2, <1>3 DEF Range
<1>5. \A r \in Range(R) : r.to \in Int /\ r.to <= now
  BY <1>1, <1>2 DEF Told, Range
<1>6. QED BY <1>1, <1>3, <1>4, <1>5

\* One sighting more, later than all.
LEMMA OrderedMore ==
  ASSUME NEW S, AList(S), Ordered(S), NEW now \in Nat, \A k \in 1 .. Len(S) : S[k][1] \in 1 .. now,
         NEW list, AList(list), list # <<>>, \A i \in Range(list) : Measured(i)
  PROVE  Ordered(Append(S, <<now + 1, list>>))
<1> DEFINE f == now + 1
           s == <<f, list>>
           T == Append(S, s)
<1>1. /\ Len(S) \in Nat /\ Len(T) = Len(S) + 1
      /\ T[Len(S) + 1] = s /\ \A i \in 1 .. Len(S) : T[i] = S[i]
  BY ListAppend
<1>2. s[1] = f /\ s[2] = list /\ f \in Int
  OBVIOUS
<1> HIDE DEF T, s, f
<1>3. \A k \in 1 .. Len(T) : k \in 1 .. Len(S) \/ k = Len(S) + 1
  BY <1>1
<1>4. \A k \in 1 .. Len(T) : /\ T[k][1] \in Int /\ T[k][2] \in Seq(Range(T[k][2])) /\ T[k][2] # <<>>
                              /\ \A i \in Range(T[k][2]) : Measured(i)
  <2> SUFFICES ASSUME NEW k \in 1 .. Len(T)
               PROVE  /\ T[k][1] \in Int /\ T[k][2] \in Seq(Range(T[k][2])) /\ T[k][2] # <<>>
                      /\ \A i \in Range(T[k][2]) : Measured(i)
    OBVIOUS
  <2>1. CASE k \in 1 .. Len(S)
    BY <1>1, <2>1 DEF Ordered
  <2>2. CASE k = Len(S) + 1
    BY <1>1, <1>2, <2>2 DEF AList
  <2>3. QED BY <1>3, <2>1, <2>2
<1>5. \A j, k \in 1 .. Len(T) : j < k => T[j][1] < T[k][1]
  <2> SUFFICES ASSUME NEW j \in 1 .. Len(T), NEW k \in 1 .. Len(T), j < k PROVE T[j][1] < T[k][1]
    OBVIOUS
  <2>1. j \in 1 .. Len(S)
    BY <1>1
  <2>2. CASE k \in 1 .. Len(S)
    BY <1>1, <2>1, <2>2 DEF Ordered
  <2>3. CASE k = Len(S) + 1
    <3>1. T[j][1] \in 1 .. now /\ T[k][1] = f
      BY <1>1, <1>2, <2>1, <2>3
    <3>2. QED BY <3>1 DEF f
  <2>4. QED BY <1>3, <2>2, <2>3
<1>6. Ordered(T)
  BY <1>4, <1>5 DEF Ordered
<1>7. QED BY <1>6 DEF T, s, f

\* A result is right of what was seen up to it, whatever is seen later.
LEMMA RightLater ==
  ASSUME NEW r, NEW kind, NEW S, AList(S), NEW list, Right(r, kind, S, list), NEW s, ~Within(r, s[1])
  PROVE  Right(r, kind, Append(S, s), list)
<1>1. {u \in Range(Append(S, s)) : Within(r, u[1])} = {u \in Range(S) : Within(r, u[1])}
  BY RangeAppend
<1>2. QED BY <1>1 DEF Right

\* n is followed as m is, or m is given up and told.
LEMMA GeneratingBest ==
  ASSUME NEW n, Fields(n), NEW matched, NEW frame
  PROVE  LET x == _generate(n, matched, frame)
         IN  \/ x.result = None /\ SameBest(n, x.m)
             \/ x.result = _gen_tracking_result(n, frame) /\ x.m = _reinit(n)
<1> DEFINE x == _generate(n, matched, frame)
<1>1. CASE n.frames_count = 0 /\ matched
  <2>1. x.m = [n EXCEPT !.start = frame, !.frames_count = 1] /\ x.result = None
    BY <1>1 DEF _generate, Out
  <2>2. SameBest(n, [n EXCEPT !.start = frame, !.frames_count = 1])
    BY DEF Fields, SameBest
  <2> HIDE DEF x
  <2>3. QED BY <2>1, <2>2 DEF x
<1>2. CASE n.frames_count = 0 /\ ~matched
  <2>1. x.m = n /\ x.result = None
    BY <1>2 DEF _generate, Out
  <2>2. SameBest(n, n)
    BY DEF SameBest
  <2> HIDE DEF x
  <2>3. QED BY <2>1, <2>2 DEF x
<1>3. CASE n.frames_count # 0 /\ matched
  <2>1. x.m = [n EXCEPT !.frames_count = n.frames_count + 1, !.ttl = n.tolerance] /\ x.result = None
    BY <1>3 DEF _generate, Out
  <2>2. SameBest(n, [n EXCEPT !.frames_count = n.frames_count + 1, !.ttl = n.tolerance])
    BY DEF Fields, SameBest
  <2> HIDE DEF x
  <2>3. QED BY <2>1, <2>2 DEF x
<1>4. CASE n.frames_count # 0 /\ ~matched /\ n.ttl > 1
  <2>1. x.m = [n EXCEPT !.ttl = n.ttl - 1] /\ x.result = None
    BY <1>4 DEF _generate, Out
  <2>2. SameBest(n, [n EXCEPT !.ttl = n.ttl - 1])
    BY DEF Fields, SameBest
  <2> HIDE DEF x
  <2>3. QED BY <2>1, <2>2 DEF x
<1>5. CASE n.frames_count # 0 /\ ~matched /\ ~(n.ttl > 1)
  <2>1. x.m = _reinit(n) /\ x.result = _gen_tracking_result(n, frame)
    BY <1>5 DEF _generate, Out
  <2> HIDE DEF x
  <2>2. QED BY <2>1 DEF x
<1>6. QED BY <1>1, <1>2, <1>3, <1>4, <1>5

\* Nothing has been read of what is expected.
LEMMA UnreadBest ==
  ASSUME NEW m, m.expected \in Seq(Range(m.expected)), \A e \in DOMAIN m.expected : OneField(m.expected[e]),
         m.read = Unread(m.expected), Bar(m) = 0, m.stored = None
  PROVE  Best(m, {})
<1>1. LargestOf(m, {})
  BY DEF LargestOf
<1>2. DOMAIN m.read = DOMAIN m.expected
  BY DEF Unread
<1>3. ASSUME NEW e \in DOMAIN m.expected, m.expected[e].keys # <<>>
      PROVE  DOMAIN m.read[e] = {1} /\ m.read[e][1] = NothingRead
  <2>1. m.expected[e].contents = <<m.expected[e].contents[1]>>
    BY <1>3 DEF OneField
  <2>2. DOMAIN m.expected[e].contents = {1}
    BY <2>1
  <2>3. m.read[e] = [f \in DOMAIN m.expected[e].contents |-> NothingRead]
    BY DEF Unread
  <2>4. QED BY <2>2, <2>3
<1>4. Expects(m)
  BY <1>2, <1>3 DEF Expects
<1>5. ReadingsOf({}) = {}
  BY DEF ReadingsOf
<1>6. \A kind, text : ClosestOf(NothingRead, kind, text, {})
  BY DEF ClosestOf, NothingRead
<1>7. ReadsBest(m, {})
  BY <1>3, <1>5, <1>6 DEF ReadsBest
<1>8. QED BY <1>1, <1>4, <1>7 DEF Best

\* A manager that starts anew keeps nothing.
LEMMA ReinitBest ==
  ASSUME NEW n, Fields(n), NEW P, Best(n, P)
  PROVE  Best(_reinit(n), {}) /\ _reinit(n).expected = n.expected /\ _reinit(n).kind = n.kind
<1> DEFINE m == _reinit(n)
<1>1. /\ m.expected = n.expected /\ m.read = Unread(n.expected) /\ m.kind = n.kind
      /\ m.area = 0 /\ m.confidence = 0 /\ m.stored = None
  BY DEF _reinit, Unseen, Fields
<1> HIDE DEF m
<1>2. Expects(n)
  BY DEF Best
<1>3. /\ m.expected \in Seq(Range(m.expected)) /\ \A e \in DOMAIN m.expected : OneField(m.expected[e])
  BY <1>1, <1>2 DEF Expects
<1>4. Bar(m) = 0
  BY <1>1 DEF Bar
<1>5. Best(m, {})
  BY <1>1, <1>3, <1>4, UnreadBest
<1>6. QED BY <1>1, <1>5 DEF m

\* m keeps the best of what it follows.
BestFollow(m, S, list) == Best(m, SightingsOf(Own(m, S))) /\ Ordered(S) /\ Named(m, list)

\* Sightings of more frames.
LEMMA SightingsMore ==
  ASSUME NEW own, NEW frame, NEW list
  PROVE  /\ SightingsOf(own \union {<<frame, list>>}) = SightingsOf(own) \union InFrame(frame, list)
         /\ SightingsOf({}) = {} /\ InFrame(frame, <<>>) = {}
<1>1. SightingsOf({}) = {}
  BY DEF SightingsOf
<1>2. InFrame(frame, <<>>) = {}
  BY DEF InFrame, Range
<1> DEFINE s == <<frame, list>>
<1>3. s[1] = frame /\ s[2] = list
  OBVIOUS
<1> HIDE DEF s
<1>4. SightingsOf(own \union {s}) = SightingsOf(own) \union InFrame(s[1], s[2])
  BY DEF SightingsOf, InFrame
<1>5. QED BY <1>1, <1>2, <1>3, <1>4 DEF s

\* What is expected stays named.
LEMMA NamedStays ==
  ASSUME NEW m, NEW n, n.expected = m.expected, NEW list, Named(m, list)
  PROVE  Named(n, list)
BY DEF Named

\* What is followed, with a sighting more.
LEMMA OwnMore ==
  ASSUME NEW m, NEW n, NEW S, NEW now, NEW list, NEW R, Stretch(m.frames_count, m.start, m.frame, R, S, now),
         n.frames_count = m.frames_count + 1,
         n.start = IF m.frames_count = 0 THEN now + 1 ELSE m.start
  PROVE  Own(n, Append(S, <<now + 1, list>>)) = Own(m, S) \union {<<now + 1, list>>}
<1> DEFINE f == now + 1
           s == <<f, list>>
           T == Append(S, s)
<1>1. /\ AList(S) /\ now \in Nat /\ m.frames_count \in Nat /\ m.start \in Int
      /\ \A u \in Range(S) : u[1] \in 1 .. now
  BY FramesUpTo
<1>2. Range(T) = Range(S) \union {s}
  BY <1>1, RangeAppend
<1>3. s[1] = f
  OBVIOUS
<1>4. n.frames_count > 0
  BY <1>1
<1>5. m.frames_count > 0 => m.start <= f
  BY <1>1 DEF Stretch, Open
<1>6. Own(n, T) = {u \in Range(T) : n.start <= u[1]}
  BY <1>4 DEF Own
<1> HIDE DEF T, s
<1>7. CASE m.frames_count = 0
  <2>1. n.start = f /\ Own(m, S) = {}
    BY <1>7 DEF Own
  <2>2. \A u \in Range(S) : ~(f <= u[1])
    BY <1>1
  <2>3. {u \in Range(T) : n.start <= u[1]} = {s}
    BY <1>1, <1>2, <1>3, <2>1, <2>2
  <2>4. QED BY <1>6, <2>1, <2>3 DEF T, s
<1>8. CASE m.frames_count # 0
  <2>1. n.start = m.start /\ Own(m, S) = {u \in Range(S) : m.start <= u[1]} /\ m.start <= f
    BY <1>1, <1>5, <1>8 DEF Own
  <2>2. {u \in Range(T) : n.start <= u[1]} = Own(m, S) \union {s}
    BY <1>2, <1>3, <2>1
  <2>3. QED BY <1>6, <2>2 DEF T, s
<1>9. QED BY <1>7, <1>8

\* A frame: the best of what is followed is kept, and what is told is the best of it.
LEMMA ProcessBest ==
  ASSUME NEW m, NEW R, NEW S, NEW now, Follow(m, R, S, now), NEW infos, AList(infos),
         \A i \in Range(infos) : Measured(i), NEW list, BestFollow(m, S, list),
         process(m, infos, now + 1).result # Raises
  PROVE  LET x == process(m, infos, now + 1)
         IN  /\ BestFollow(x.m, SeenThen(S, Matching(m, infos), now + 1), list)
             /\ x.result # None => /\ Right(x.result, m.kind, S, list)
                                   /\ SeenThen(S, Matching(m, infos), now + 1) = S
<1> DEFINE frame == now + 1
           new == Matching(m, infos)
           matched == new # <<>>
           x == process(m, infos, frame)
           n == Looked(m, infos, frame)
           T == SeenThen(S, new, frame)
           P == SightingsOf(Own(m, S))
<1>1. Fields(m) /\ Stretch(m.frames_count, m.start, m.frame, R, S, now)
  BY DEF Follow
<1>2. x = _generate(n, matched, frame)
  <2>1. x \in {Out(m, Raises), _generate(n, matched, frame)}
    BY DEF process, Looked
  <2>2. x # Out(m, Raises)
    BY DEF Out
  <2>3. QED BY <2>1, <2>2
<1>3. /\ Fields(n) /\ n.kind = m.kind /\ n.frame = frame /\ n.frames_count = m.frames_count
      /\ n.start = m.start
  BY <1>1, Looking
<1>4. Becomes(m, n, frame, m.frames_count, m.start)
  BY <1>3 DEF Becomes
<1>5. /\ AList(S) /\ now \in Nat /\ m.frames_count \in Nat /\ m.start \in Int
      /\ \A k \in 1 .. Len(S) : S[k][1] \in 1 .. now
      /\ \A s \in Range(S) : s[1] \in 1 .. now
  BY <1>1, FramesUpTo
<1>6. Best(m, P) /\ Ordered(S) /\ Named(m, list)
  BY DEF BestFollow
<1>7. Best(n, P \union InFrame(frame, new)) /\ n.kind = m.kind /\ n.expected = m.expected
  <2> HIDE DEF P
  <2>1. QED BY <1>1, <1>6, LookingBest
<1>8. Named(n, list)
  BY <1>6, <1>7, NamedStays
<1>9. AList(new) /\ \A i \in Range(new) : Measured(i)
  BY MatchingMeasured
<1>10. Ordered(T)
  BY <1>5, <1>6, <1>9, OrderedMore DEF SeenThen
<1> HIDE DEF x, n, matched, T, new, P
<1>11. Idle(m, x, matched, frame) \/ Sees(m, x, matched, frame)
         \/ Waits(m, x, matched, frame) \/ Ends(m, x, matched, frame)
  BY <1>1, <1>2, <1>4, <1>5, Generating DEF x
<1>12. \/ x.result = None /\ SameBest(n, x.m)
       \/ x.result = _gen_tracking_result(n, frame) /\ x.m = _reinit(n)
  BY <1>2, <1>3, GeneratingBest
<1>13. None # Raises
  <2>1. "none" \in DOMAIN None /\ "none" \notin DOMAIN Raises
    BY DEF None, Raises
  <2>2. QED BY <2>1
<1>14. x.result = None => SameBest(n, x.m)
  BY <1>12, <1>13, Telling DEF Tells
<1>15. ~matched => InFrame(frame, new) = {} /\ T = S
  BY SightingsMore DEF matched, T, SeenThen
<1>16. x.result = None => Best(x.m, P \union InFrame(frame, new)) /\ Named(x.m, list)
  <2> SUFFICES ASSUME x.result = None PROVE Best(x.m, P \union InFrame(frame, new)) /\ Named(x.m, list)
    OBVIOUS
  <2>1. SameBest(n, x.m)
    BY <1>14
  <2>2. Best(x.m, P \union InFrame(frame, new))
    BY <1>7, <2>1, BestCarried
  <2>3. x.m.expected = n.expected
    BY <2>1 DEF SameBest
  <2>4. QED BY <1>8, <2>2, <2>3, NamedStays
<1>17. /\ BestFollow(x.m, T, list)
       /\ x.result # None => Right(x.result, m.kind, S, list) /\ T = S
  <2>1. CASE Idle(m, x, matched, frame) \/ Waits(m, x, matched, frame)
    <3>1. x.result = None /\ ~matched /\ x.m.frames_count = m.frames_count /\ x.m.start = m.start
      BY <2>1 DEF Idle, Waits, Becomes
    <3>2. Own(x.m, T) = Own(m, S)
      BY <1>15, <3>1 DEF Own
    <3>3. Best(x.m, P) /\ Named(x.m, list)
      BY <1>15, <1>16, <3>1
    <3>4. QED BY <1>10, <3>1, <3>2, <3>3 DEF BestFollow, P
  <2>2. CASE Sees(m, x, matched, frame)
    <3>1. /\ x.result = None /\ matched /\ x.m.frames_count = m.frames_count + 1
          /\ x.m.start = IF m.frames_count = 0 THEN frame ELSE m.start
      BY <2>2 DEF Sees, Becomes
    <3>2. T = Append(S, <<frame, new>>)
      BY <3>1 DEF T, SeenThen, matched
    <3>3. Own(x.m, T) = Own(m, S) \union {<<frame, new>>}
      <4> DEFINE y == x.m
      <4>1. /\ y.frames_count = m.frames_count + 1
            /\ y.start = IF m.frames_count = 0 THEN now + 1 ELSE m.start
        BY <3>1
      <4> HIDE DEF y
      <4>2. Own(y, Append(S, <<now + 1, new>>)) = Own(m, S) \union {<<now + 1, new>>}
        BY <1>1, <4>1, OwnMore
      <4>3. QED BY <3>2, <4>2 DEF y
    <3>4. SightingsOf(Own(x.m, T)) = P \union InFrame(frame, new)
      <4> DEFINE own == Own(m, S)
      <4> HIDE DEF own, frame
      <4>1. SightingsOf(own \union {<<frame, new>>}) = SightingsOf(own) \union InFrame(frame, new)
        BY SightingsMore
      <4>2. QED BY <3>3, <4>1 DEF P, own
    <3>5. QED BY <1>10, <1>16, <3>1, <3>4 DEF BestFollow
  <2>3. CASE Ends(m, x, matched, frame)
    <3>1. /\ ~matched /\ Tells(x.result, m.start, frame) /\ x.m.frames_count = 0 /\ m.frames_count # 0
      BY <2>3 DEF Ends, Becomes
    <3>2. x.result = _gen_tracking_result(n, frame) /\ x.m = _reinit(n) /\ x.result # None /\ x.result # Raises
      BY <1>12, <3>1 DEF Tells
    <3>3. Own(x.m, T) = {}
      BY <3>1 DEF Own
    <3>4. Best(n, P)
      <4>1. P \union InFrame(frame, new) = P
        BY <1>15, <3>1
      <4>2. QED BY <1>7, <4>1
    <3>5. Best(_reinit(n), {}) /\ _reinit(n).expected = n.expected
      BY <1>3, <3>4, ReinitBest
    <3>6. Best(x.m, {}) /\ Named(x.m, list)
      BY <1>8, <3>2, <3>5, NamedStays
    <3>7. SightingsOf(Own(x.m, T)) = {}
      BY <3>3, SightingsMore
    <3>8. BestFollow(x.m, T, list)
      BY <1>10, <3>6, <3>7 DEF BestFollow
    <3>9. Own(m, S) = {s \in Range(S) : Within(x.result, s[1])}
      <4>1. x.result.from = m.start /\ x.result.to = frame
        BY <3>1 DEF Tells
      <4>2. \A s \in Range(S) : Within(x.result, s[1]) <=> m.frames_count > 0 /\ m.start <= s[1]
        BY <1>5, <3>1, <4>1 DEF Within
      <4>3. QED BY <4>2 DEF Own
    <3>10. Right(_gen_tracking_result(n, frame), n.kind, S, list)
      <4> DEFINE own == Own(m, S)
      <4>1. Best(n, SightingsOf(own)) /\ own = {s \in Range(S) : Within(_gen_tracking_result(n, frame), s[1])}
        BY <3>2, <3>4, <3>9 DEF P
      <4>2. _gen_tracking_result(n, frame) # Raises
        BY <3>2
      <4> HIDE DEF own
      <4>3. QED BY <1>5, <1>6, <1>8, <4>1, <4>2, TellsRight
    <3>11. Right(x.result, m.kind, S, list) /\ T = S
      BY <1>3, <1>15, <3>1, <3>2, <3>10
    <3>12. QED BY <3>8, <3>11
  <2>4. QED BY <1>11, <2>1, <2>2, <2>3
<1>18. QED BY <1>17 DEF x, T, new

\* What is still followed when the video ends is told as the best of it (over).
LEMMA OverBest ==
  ASSUME NEW m, NEW R, NEW S, NEW now, Follow(m, R, S, now), NEW list, BestFollow(m, S, list),
         over(m) # Raises, over(m) # None
  PROVE  Right(over(m), m.kind, S, list)
<1>1. Stretch(m.frames_count, m.start, m.frame, R, S, now)
  BY DEF Follow
<1>2. /\ AList(S) /\ now \in Nat /\ m.frames_count \in Nat /\ m.start \in Int
      /\ \A s \in Range(S) : s[1] \in 1 .. now
  BY <1>1, FramesUpTo
<1>3. m.frames_count > 0 /\ over(m) = _gen_tracking_result(m, m.frame)
  BY DEF over
<1>4. Tells(over(m), m.start, m.frame)
  BY <1>3, Telling
<1>5. /\ Told(R, S, now) /\ Open(m.start, m.frame, R, S, now)
      /\ Kept(m.frames_count, m.start, m.frame, R, S, now)
  BY <1>1, <1>3 DEF Stretch
<1>6. \A s \in Range(S) : m.start <= s[1] => s[1] <= m.frame
  <2> SUFFICES ASSUME NEW s \in Range(S), m.start <= s[1] PROVE s[1] <= m.frame
    OBVIOUS
  <2>1. DOMAIN S = 1 .. Len(S)
    BY <1>2, ListDomain
  <2>2. In(R, s[1]) \/ s[1] <= m.frame
    BY <1>5, <2>1 DEF Kept, Range
  <2>3. ASSUME In(R, s[1]) PROVE FALSE
    <3>1. PICK n \in 1 .. Len(R) : Within(R[n], s[1])
      BY <2>3 DEF In
    <3>2. R[n].to < m.start /\ R[n].to \in Int /\ s[1] <= R[n].to
      BY <1>5, <3>1 DEF Open, Told, Within
    <3>3. QED BY <1>2, <3>2
  <2>4. QED BY <2>2, <2>3
<1>7. Own(m, S) = {s \in Range(S) : Within(over(m), s[1])}
  <2>1. over(m).from = m.start /\ over(m).to = m.frame
    BY <1>4 DEF Tells
  <2>2. \A s \in Range(S) : Within(over(m), s[1]) <=> m.frames_count > 0 /\ m.start <= s[1]
    BY <1>2, <1>3, <1>6, <2>1 DEF Within
  <2>3. QED BY <2>2 DEF Own
<1> DEFINE own == Own(m, S)
<1>8. Best(m, SightingsOf(own)) /\ Ordered(S) /\ Named(m, list)
  BY DEF BestFollow
<1>9. own = {s \in Range(S) : Within(_gen_tracking_result(m, m.frame), s[1])}
  BY <1>3, <1>7
<1>10. _gen_tracking_result(m, m.frame) # Raises
  BY <1>3
<1> HIDE DEF own
<1>11. Right(_gen_tracking_result(m, m.frame), m.kind, S, list)
  BY <1>2, <1>8, <1>9, <1>10, TellsRight
<1>12. QED BY <1>3, <1>11

\* The texts of a page, as the services find them.
Words0 == [text: Texts, confidence: Int, key: BOOLEAN]

\* The mean of the confidences is a number.
LEMMA MeanType ==
  ASSUME NEW texts \in Seq(Words0)
  PROVE  _parse_extract_info(texts) \in Int
<1> DEFINE S == {t \in Range(texts) : t.key}
           key == Select(texts, S)
<1>1. key \in Seq(Words0)
  <2> HIDE DEF S
  <2>1. Select(texts, S) \in Seq(Words0 \cap S)
    BY SelectType
  <2>2. Seq(Words0 \cap S) \subseteq Seq(Words0)
    OBVIOUS
  <2>3. QED BY <2>1, <2>2
<1>2. _parse_extract_info(texts) = IF key = <<>> THEN 0 ELSE Sum(key) \div Len(key)
  BY DEF _parse_extract_info
<1> HIDE DEF key
<1>3. Len(key) \in Nat /\ (key # <<>> => Len(key) > 0)
  BY <1>1
<1>4. Sum(key) \in Int
  <2>1. \A i \in 1 .. Len(key), x \in Int : x + key[i].confidence \in Int
    <3>1. \A i \in 1 .. Len(key) : key[i] \in Words0
      BY <1>1
    <3>2. QED BY <3>1 DEF Words0
  <2>2. QED BY <1>3, <2>1, SumLoop
<1> DEFINE sum == Sum(key)
           n == Len(key)
<1> HIDE DEF sum, n
<1>5. sum \in Int /\ n \in Nat /\ (key # <<>> => n > 0)
  BY <1>3, <1>4 DEF sum, n
<1>6. key # <<>> => sum \div n \in Int
  BY <1>5
<1>7. QED BY <1>2, <1>6 DEF sum, n

\* What is told of a page was measured.
LEMMA InfoMeasured ==
  ASSUME NEW type, NEW page \in Pages, NEW confidence \in Int
  PROVE  Measured(Info(type, page, confidence, 100, Words(page)))
<1>1. page.box \in Int /\ page.area \in Int /\ page.texts \in Seq(Words0)
  BY DEF Pages, Words0
<1>2. Words(page) \in Seq(Texts)
  <2> DEFINE list == page.texts
             n == Len(list)
  <2>1. list \in Seq(Words0)
    BY <1>1
  <2>2. \A w \in Words0 : w.text \in Texts
    BY DEF Words0
  <2>3. Words(page) = [i \in DOMAIN list |-> list[i].text]
    BY DEF Words
  <2> HIDE DEF list
  <2>4. n \in Nat /\ DOMAIN list = 1 .. n /\ \A i \in 1 .. n : list[i] \in Words0
    BY <2>1
  <2> HIDE DEF n
  <2>5. \A i \in 1 .. n : list[i].text \in Texts
    BY <2>2, <2>4
  <2>6. [i \in 1 .. n |-> list[i].text] \in Seq(Texts)
    BY <2>4, <2>5
  <2>7. QED BY <2>3, <2>4, <2>6
<1>3. QED BY <1>1, <1>2 DEF Measured, Info

\* What the services tell was measured.
LEMMA PredictMeasured ==
  ASSUME NEW kind \in Kinds, NEW service \in Services(kind), NEW pages \in Seq(Pages)
  PROVE  \A i \in Range(predict(service, pages)) : Measured(i)
<1>1. service \in {"id_card", "multi_card", "sign", "doc"}
  BY DEF Services, Kinds
<1>2. Read(pages) \in Seq(Pages) /\ Likely(pages) \in Seq(Pages)
  <2>1. \A S : Select(pages, S) \in Seq(Pages)
    <3> SUFFICES ASSUME NEW S PROVE Select(pages, S) \in Seq(Pages)
      OBVIOUS
    <3>1. Select(pages, S) \in Seq(Pages \cap S)
      BY SelectType
    <3>2. Seq(Pages \cap S) \subseteq Seq(Pages)
      OBVIOUS
    <3>3. QED BY <3>1, <3>2
  <2>2. QED BY <2>1 DEF Read, Likely
<1>3. \A page \in Pages : Measured(IdCard(page))
  <2> SUFFICES ASSUME NEW page \in Pages PROVE Measured(IdCard(page))
    OBVIOUS
  <2>1. page.texts \in Seq(Words0)
    BY DEF Pages, Words0
  <2>2. _parse_extract_info(page.texts) \in Int
    BY <2>1, MeanType
  <2>3. QED BY <2>2, InfoMeasured DEF IdCard
<1>4. \A page \in Pages : Measured(MultiCard(page))
  BY InfoMeasured DEF MultiCard
<1>5. \A page \in Pages : Measured(Handwriting(page))
  BY InfoMeasured DEF Handwriting
<1>6. \A page \in Pages : Measured(Page(page))
  <2> SUFFICES ASSUME NEW page \in Pages PROVE Measured(Page(page))
    OBVIOUS
  <2>1. page.prob \in Int
    BY DEF Pages
  <2>2. QED BY <2>1, InfoMeasured DEF Page
<1>7. CASE service = "id_card"
  <2>1. predict(service, pages) = [n \in DOMAIN pages |-> IdCard(pages[n])]
    BY <1>7 DEF predict
  <2>2. \A n \in DOMAIN pages : pages[n] \in Pages
    OBVIOUS
  <2>3. QED BY <1>3, <2>1, <2>2 DEF Range
<1>8. CASE service = "multi_card"
  <2> DEFINE list == Read(pages)
  <2>1. predict(service, pages) = [n \in DOMAIN list |-> MultiCard(list[n])]
    BY <1>8 DEF predict
  <2> HIDE DEF list
  <2>2. \A n \in DOMAIN list : list[n] \in Pages
    BY <1>2 DEF list
  <2>3. QED BY <1>4, <2>1, <2>2 DEF Range
<1>9. CASE service = "sign"
  <2> DEFINE list == Read(pages)
  <2>1. predict(service, pages) = [n \in DOMAIN list |-> Handwriting(list[n])]
    BY <1>9 DEF predict
  <2> HIDE DEF list
  <2>2. \A n \in DOMAIN list : list[n] \in Pages
    BY <1>2 DEF list
  <2>3. QED BY <1>5, <2>1, <2>2 DEF Range
<1>10. CASE service = "doc"
  <2> DEFINE list == Likely(pages)
  <2>1. predict(service, pages) = [n \in DOMAIN list |-> Page(list[n])]
    BY <1>10 DEF predict
  <2> HIDE DEF list
  <2>2. \A n \in DOMAIN list : list[n] \in Pages
    BY <1>2 DEF list
  <2>3. QED BY <1>6, <2>1, <2>2 DEF Range
<1>11. QED BY <1>1, <1>7, <1>8, <1>9, <1>10

\* The types of what a job may ask for.
AllTypes == CardTypes \union {"sign", "doc"}

\* What is asked for at once: the fields of a card, a name or a title.
Asked ==
    IF job.kind = "card"
    THEN {CardContents(cfg, card) : cfg \in UNION {Range(point.cfgs) : point \in Range(job.points)},
                                    card \in UNION {Range(p.cards) : p \in Range(job.participants)}}
    ELSE {<<[text |-> w, threshold |-> n]>> : w \in Texts, n \in Int}

\* What it is known by.
KeyOf(type, contents) == <<type, FlattenSeq([f \in DOMAIN contents |-> contents[f].text])>>

\* All that may be known.
AskedKeys == {KeyOf(type, contents) : type \in AllTypes, contents \in Asked}

\* The ids that may be given.
GivenIds == [type: AllTypes, n: {0} \union {Cardinality(K) + 1 : K \in SUBSET AskedKeys}]

\* The configurations that may be parsed.
ParsedConfigs == [id: GivenIds, contents: Asked \union {<<>>}, recognise: BOOLEAN]

\* What may have been parsed so far.
Parses ==
    [known: UNION {[K -> GivenIds] : K \in SUBSET AskedKeys},
     mapper: SUBSET (GivenIds \X {point.id : point \in Range(job.points)}),
     cfgs: Seq(ParsedConfigs), over: BOOLEAN, raised: BOOLEAN]

\* Asking for something more.
LEMMA AskType ==
  ASSUME NEW acc \in Parses, NEW point \in Range(job.points), NEW type \in AllTypes, NEW contents \in Asked
  PROVE  Ask(acc, point, type, contents) \in Parses
<1> DEFINE key == KeyOf(type, contents)
           id == Id(type, Cardinality({k \in DOMAIN acc.known : k[1] = type}) + 1)
           g == get_ocr_id(acc.known, type, [f \in DOMAIN contents |-> contents[f].text])
           cfg == Config(id, contents, TRUE)
           more == [k \in DOMAIN acc.known \union {key} |-> IF k = key THEN id ELSE acc.known[k]]
<1>1. PICK K \in SUBSET AskedKeys : acc.known \in [K -> GivenIds]
  BY DEF Parses
<1>2. key \in AskedKeys
  BY DEF AskedKeys
<1>3. id \in GivenIds
  <2>1. {k \in DOMAIN acc.known : k[1] = type} \in SUBSET AskedKeys
    BY <1>1
  <2>2. QED BY <2>1 DEF GivenIds, Id
<1>4. cfg \in ParsedConfigs
  <2> HIDE DEF id
  <2>1. QED BY <1>3 DEF ParsedConfigs, Config
<1>5. g.repeated \/ g = [known |-> more, id |-> id, repeated |-> FALSE]
  BY DEF get_ocr_id, KeyOf
<1>6. more \in [K \union {key} -> GivenIds] /\ K \union {key} \in SUBSET AskedKeys
  <2> HIDE DEF key, id
  <2>1. QED BY <1>1, <1>2, <1>3
<1>7. Ask(acc, point, type, contents) \in
        {[acc EXCEPT !.raised = TRUE], acc,
         [acc EXCEPT !.known = g.known, !.mapper = acc.mapper \union {<<g.id, point.id>>},
                     !.cfgs = Append(acc.cfgs, Config(g.id, contents, TRUE))]}
     /\ (Ask(acc, point, type, contents) \in {[acc EXCEPT !.raised = TRUE], acc} \/ ~g.repeated)
  BY DEF Ask
<1> HIDE DEF more, id, g, cfg, key
<1>8. [acc EXCEPT !.raised = TRUE] \in Parses
  BY DEF Parses
<1>9. ASSUME ~g.repeated
      PROVE  [acc EXCEPT !.known = g.known, !.mapper = acc.mapper \union {<<g.id, point.id>>},
                         !.cfgs = Append(acc.cfgs, Config(g.id, contents, TRUE))] \in Parses
  <2>1. g.known = more /\ g.id = id
    BY <1>5, <1>9
  <2>2. more \in UNION {[L -> GivenIds] : L \in SUBSET AskedKeys}
    BY <1>6
  <2>3. acc.mapper \union {<<id, point.id>>} \in SUBSET (GivenIds \X {p.id : p \in Range(job.points)})
    BY <1>3 DEF Parses
  <2>4. Append(acc.cfgs, cfg) \in Seq(ParsedConfigs)
    BY <1>4 DEF Parses
  <2>5. [acc EXCEPT !.known = more, !.mapper = acc.mapper \union {<<id, point.id>>},
                    !.cfgs = Append(acc.cfgs, cfg)] \in Parses
    BY <2>2, <2>3, <2>4 DEF Parses
  <2>6. QED BY <2>1, <2>5 DEF cfg
<1>10. QED BY <1>7, <1>8, <1>9

\* Asking for any of a type.
LEMMA DetectType ==
  ASSUME NEW acc \in Parses, NEW type \in AllTypes
  PROVE  Detect(acc, type) \in Parses
<1> DEFINE id == Id(type, 0)
           cfg == Config(id, <<>>, FALSE)
<1>1. Detect(acc, type) = [acc EXCEPT !.cfgs = Append(acc.cfgs, cfg)]
  BY DEF Detect, get_detection_ocr_id
<1>2. id \in GivenIds
  BY DEF GivenIds, Id
<1> HIDE DEF id
<1>3. cfg \in ParsedConfigs
  BY <1>2 DEF ParsedConfigs, Config
<1> HIDE DEF cfg
<1>4. Append(acc.cfgs, cfg) \in Seq(ParsedConfigs)
  BY <1>3 DEF Parses
<1>5. [acc EXCEPT !.cfgs = Append(acc.cfgs, cfg)] \in Parses
  BY <1>4 DEF Parses
<1>6. QED BY <1>1, <1>5

\* A rule point's configuration.
LEMMA CfgType ==
  ASSUME job \in Jobs, NEW acc \in Parses, NEW point \in Range(job.points), NEW cfg \in Range(point.cfgs)
  PROVE  _get_recog_cfg(acc, point, cfg) \in Parses
<1> USE ModuleAssumption
<1>1. /\ job.kind \in Kinds /\ job.participants \in Seq(Range(job.participants))
      /\ \A p \in Range(job.participants) : p.name \in Texts /\ p.cards \in Seq(Range(p.cards))
      /\ (job.kind # "card" => cfg.threshold \in Int) /\ (job.kind = "doc" => cfg.title \in Texts)
  <2>1. job.kind \in Kinds /\ job.participants \in Seq(Range(job.participants))
    OBVIOUS
  <2>2. \A p \in Range(job.participants) : p.name \in Texts /\ p.cards \in Seq(Range(p.cards))
    OBVIOUS
  <2>3. (job.kind # "card" => cfg.threshold \in Int) /\ (job.kind = "doc" => cfg.title \in Texts)
    <3>1. \A p \in Range(job.points) : \A c \in Range(p.cfgs) :
            (job.kind # "card" => c.threshold \in Int) /\ (job.kind = "doc" => c.title \in Texts)
      OBVIOUS
    <3>2. \A c \in Range(point.cfgs) :
            (job.kind # "card" => c.threshold \in Int) /\ (job.kind = "doc" => c.title \in Texts)
      BY ONLY <3>1, point \in Range(job.points)
    <3>3. QED BY ONLY <3>2, cfg \in Range(point.cfgs)
  <2>4. QED BY <2>1, <2>2, <2>3
<1>2. CASE job.kind = "card"
  <2> DEFINE All == UNION {Range(p.cards) : p \in Range(job.participants)}
             cards == IF cfg.content THEN CardsOf(job.participants) ELSE <<>>
             asked == AskCards(acc, point, cfg, cards)
  <2>1. CardsOf(job.participants) \in Seq(All)
    <3> DEFINE A == Seq(All)
               people == job.participants
    <3>1. Len(people) \in Nat /\ <<>> \in A
      BY <1>1
    <3>2. ASSUME NEW i \in 1 .. Len(people), NEW x \in A PROVE x \o people[i].cards \in A
      <4>1. people[i] \in Range(people)
        BY <1>1
      <4>2. people[i].cards \in Seq(Range(people[i].cards)) /\ Range(people[i].cards) \subseteq All
        BY <1>1, <4>1
      <4>3. people[i].cards \in Seq(All)
        BY <4>2
      <4>4. QED BY <4>3
    <3> HIDE DEF A, people
    <3>3. CardsOf(people) \in A
      BY <3>1, <3>2, CardsLoop
    <3>4. QED BY <3>3 DEF A, people
  <2>2. cards \in Seq(All)
    BY <2>1
  <2>3. ASSUME cfg.type \in CardTypes PROVE asked \in Parses
    <3> HIDE DEF cards, All
    <3>1. Len(cards) \in Nat /\ \A i \in 1 .. Len(cards) : cards[i] \in All
      BY <2>2
    <3>2. cfg.type \in AllTypes
      BY <2>3 DEF AllTypes
    <3>3. \A card \in All : CardContents(cfg, card) \in Asked
      <4>1. cfg \in UNION {Range(p.cfgs) : p \in Range(job.points)}
        OBVIOUS
      <4>2. QED BY ONLY <1>2, <4>1 DEF Asked, All
    <3>4. \A i \in 1 .. Len(cards), x \in Parses :
            Ask(x, point, cfg.type, CardContents(cfg, cards[i])) \in Parses
      BY <3>1, <3>2, <3>3, AskType
    <3>5. QED BY <3>1, <3>4, AskCardsLoop
  <2>4. _get_recog_cfg(acc, point, cfg) = _get_card_recog_cfg(acc, point, cfg)
    BY <1>2 DEF _get_recog_cfg
  <2>5. _get_card_recog_cfg(acc, point, cfg) =
          IF cfg.type \notin CardTypes THEN acc
          ELSE IF ~cfg.content \/ asked.cfgs = <<>> THEN Detect(asked, cfg.type) ELSE asked
    BY DEF _get_card_recog_cfg
  <2> HIDE DEF asked
  <2>6. QED BY <2>3, <2>4, <2>5, DetectType DEF AllTypes
<1>3. CASE job.kind = "sign"
  <2> DEFINE people == job.participants
             S == {p \in Range(people) : cfg.flag /\ cfg.role \in {p.role, "*"}}
             signers == Select(people, S)
             asked == AskNames(acc, point, cfg, signers)
  <2>1. signers \in Seq(Range(people))
    <3> HIDE DEF S
    <3>1. signers \in Seq(Range(people) \cap S)
      BY <1>1, SelectType
    <3>2. Seq(Range(people) \cap S) \subseteq Seq(Range(people))
      OBVIOUS
    <3>3. QED BY <3>1, <3>2
  <2>2. asked \in Parses
    <3> HIDE DEF signers
    <3>1. Len(signers) \in Nat /\ \A i \in 1 .. Len(signers) : signers[i] \in Range(people)
      BY <2>1
    <3>2. \A w \in Texts : <<[text |-> w, threshold |-> cfg.threshold]>> \in Asked
      BY <1>1, <1>3 DEF Asked
    <3>3. \A i \in 1 .. Len(signers) : <<[text |-> signers[i].name, threshold |-> cfg.threshold]>> \in Asked
      BY <1>1, <3>1, <3>2
    <3>4. "sign" \in AllTypes
      BY DEF AllTypes
    <3>5. \A i \in 1 .. Len(signers), x \in Parses :
            Ask(x, point, "sign", <<[text |-> signers[i].name, threshold |-> cfg.threshold]>>) \in Parses
      BY <3>3, <3>4, AskType
    <3>6. QED BY <3>1, <3>5, AskNamesLoop
  <2>3. _get_recog_cfg(acc, point, cfg) = _get_sign_recog_cfg(acc, point, cfg)
    BY <1>3 DEF _get_recog_cfg
  <2>4. _get_sign_recog_cfg(acc, point, cfg) =
          IF acc.over \/ ~cfg.detect THEN [acc EXCEPT !.over = TRUE]
          ELSE IF ~cfg.flag \/ asked.cfgs = <<>> THEN Detect(asked, "sign") ELSE asked
    BY DEF _get_sign_recog_cfg
  <2>5. [acc EXCEPT !.over = TRUE] \in Parses
    BY DEF Parses
  <2> HIDE DEF asked
  <2>6. Detect(asked, "sign") \in Parses
    BY <2>2, DetectType DEF AllTypes
  <2>7. QED BY <2>2, <2>3, <2>4, <2>5, <2>6
<1>4. CASE job.kind = "doc"
  <2>1. _get_recog_cfg(acc, point, cfg) = _get_doc_recog_cfg(acc, point, cfg)
    BY <1>4 DEF _get_recog_cfg
  <2>2. "doc" \in AllTypes
    BY DEF AllTypes
  <2>3. <<[text |-> cfg.title, threshold |-> cfg.threshold]>> \in Asked
    BY <1>1, <1>4 DEF Asked
  <2>4. Ask(acc, point, "doc", <<[text |-> cfg.title, threshold |-> cfg.threshold]>>) \in Parses
    BY <2>2, <2>3, AskType
  <2>5. Detect(acc, "doc") \in Parses
    BY <2>2, DetectType
  <2>6. QED BY <2>1, <2>4, <2>5 DEF _get_doc_recog_cfg
<1>5. QED BY <1>1, <1>2, <1>3, <1>4 DEF Kinds

\* What is parsed of a job are configurations.
LEMMA TaskType ==
  ASSUME job \in Jobs, NEW known, NEW pairs, Parsed(known, pairs, <<>>) \in Parses
  PROVE  parse_task(known, pairs) \in Parses
<1> USE ModuleAssumption
<1> DEFINE points == job.points
<1>1. points \in Seq(Range(points)) /\ \A point \in Range(points) : point.cfgs \in Seq(Range(point.cfgs))
  OBVIOUS
<1>2. Parsed(known, pairs, <<>>) \in Parses
  OBVIOUS
<1>3. ASSUME NEW point \in Range(points), NEW acc \in Parses PROVE parse_point(acc, point) \in Parses
  <2>1. [acc EXCEPT !.cfgs = <<>>, !.over = FALSE] \in Parses
    <3>1. <<>> \in Seq(ParsedConfigs)
      OBVIOUS
    <3>2. QED BY ONLY <3>1, acc \in Parses DEF Parses
  <2>2. point.cfgs \in Seq(Range(point.cfgs))
    BY <1>1
  <2>3. Len(point.cfgs) \in Nat /\ \A i \in 1 .. Len(point.cfgs) : point.cfgs[i] \in Range(point.cfgs)
    BY <2>2
  <2>4. \A i \in 1 .. Len(point.cfgs), x \in Parses : _get_recog_cfg(x, point, point.cfgs[i]) \in Parses
    BY <2>3, CfgType
  <2>5. \E x \in Parses : parse_point(acc, point) = [x EXCEPT !.cfgs = acc.cfgs \o x.cfgs]
    BY <2>1, <2>3, <2>4, PointLoop
  <2>6. PICK x \in Parses : parse_point(acc, point) = [x EXCEPT !.cfgs = acc.cfgs \o x.cfgs]
    BY <2>5
  <2>7. acc.cfgs \o x.cfgs \in Seq(ParsedConfigs)
    BY DEF Parses
  <2>8. [x EXCEPT !.cfgs = acc.cfgs \o x.cfgs] \in Parses
    BY <2>7 DEF Parses
  <2>9. QED BY <2>6, <2>8
<1>4. Len(points) \in Nat /\ \A i \in 1 .. Len(points) : points[i] \in Range(points)
  BY <1>1
<1>5. \A i \in 1 .. Len(points), x \in Parses : parse_point(x, points[i]) \in Parses
  BY <1>3, <1>4
<1>6. QED BY <1>2, <1>4, <1>5, TaskLoop

\* And so are they when the task is parsed again.
LEMMA RefreshedType ==
  ASSUME job \in Jobs
  PROVE  Refreshed(parse_task(<<>>, {})) \in Parses
<1> DEFINE first == parse_task(<<>>, {})
<1>1. Parsed(<<>>, {}, <<>>) \in Parses
  <2>1. <<>> \in [{} -> GivenIds] /\ {} \in SUBSET AskedKeys
    OBVIOUS
  <2>2. <<>> \in UNION {[K -> GivenIds] : K \in SUBSET AskedKeys}
    BY <2>1
  <2>3. <<>> \in Seq(ParsedConfigs)
    OBVIOUS
  <2>4. {} \in SUBSET (GivenIds \X {point.id : point \in Range(job.points)})
    OBVIOUS
  <2>5. QED BY ONLY <2>2, <2>3, <2>4 DEF Parsed, Parses
<1>2. first \in Parses
  BY <1>1, TaskType
<1> HIDE DEF first
<1>3. Parsed(first.known, first.mapper, <<>>) \in Parses
  <2>1. <<>> \in Seq(ParsedConfigs)
    OBVIOUS
  <2>2. QED BY ONLY <1>2, <2>1 DEF Parsed, Parses
<1>4. parse_task(first.known, first.mapper) \in Parses
  BY <1>3, TaskType
<1>5. QED BY <1>2, <1>4 DEF Refreshed, first

\* What is expected is configured, and a field decides alone.
LEMMA ExpectedRight ==
  ASSUME job \in Jobs, NEW list \in Seq(ParsedConfigs), NEW S, NEW type
  PROVE  LET expected == Expected(Select(list, S), type)
         IN  /\ expected \in Seq(Range(expected))
             /\ \A e \in DOMAIN expected : OneField(expected[e])
             /\ \A e \in DOMAIN expected :
                  \E c \in Range(list) : c.id = expected[e].id /\ c.contents = expected[e].contents
<1> DEFINE mine == Select(list, S)
           C == {c \in Range(list) : c.contents # <<>>}
           new(c) == [id |-> c.id, contents |-> c.contents, keys |-> Keys(c.contents)]
           E == {new(c) : c \in C}
           expected == Expected(mine, type)
<1>1. mine \in Seq(Range(list)) /\ Range(list) \subseteq ParsedConfigs
  <2>1. list \in Seq(Range(list)) /\ Range(list) \subseteq ParsedConfigs
    BY DEF Range
  <2>2. Select(list, S) \in Seq(Range(list) \cap S)
    BY <2>1, SelectType
  <2>3. Seq(Range(list) \cap S) \subseteq Seq(Range(list))
    OBVIOUS
  <2>4. QED BY <2>1, <2>2, <2>3
<1>2. expected \in Seq(E)
  <2> HIDE DEF mine
  <2>1. Len(mine) \in Nat /\ \A i \in 1 .. Len(mine) : mine[i] \in Range(list)
    BY <1>1
  <2>2. ASSUME NEW i \in 1 .. Len(mine), NEW x \in Seq(E)
        PROVE  append_contents(x, type, mine[i].id, mine[i].contents, Keys(mine[i].contents)) \in Seq(E)
    <3> DEFINE y == append_contents(x, type, mine[i].id, mine[i].contents, Keys(mine[i].contents))
    <3>1. y = x \/ (mine[i].contents # <<>> /\ y = Append(x, new(mine[i])))
      <4>1. \A id, contents : append_contents(x, type, id, contents, Keys(contents)) \in
              {x, Append(x, [id |-> id, contents |-> contents, keys |-> Keys(contents)])}
        BY DEF append_contents
      <4>2. \A id : append_contents(x, type, id, <<>>, Keys(<<>>)) = x
        BY DEF append_contents
      <4>3. y \in {x, Append(x, new(mine[i]))}
        BY <4>1
      <4>4. mine[i].contents = <<>> => y = x
        <5> DEFINE contents == mine[i].contents
                   id == mine[i].id
        <5>1. y = append_contents(x, type, id, contents, Keys(contents))
          OBVIOUS
        <5> HIDE DEF y, contents, id
        <5>2. contents = <<>> => y = x
          BY <4>2, <5>1
        <5>3. QED BY <5>2 DEF contents
      <4> HIDE DEF y, new
      <4>5. QED BY <4>3, <4>4
    <3>2. mine[i].contents # <<>> => new(mine[i]) \in E
      BY <2>1
    <3> HIDE DEF y, E, new
    <3>3. QED BY <3>1, <3>2 DEF y
  <2> DEFINE A == Seq(E)
  <2>3. <<>> \in A
    OBVIOUS
  <2>4. \A i \in 1 .. Len(mine), x \in A :
          append_contents(x, type, mine[i].id, mine[i].contents, Keys(mine[i].contents)) \in A
    BY <2>2
  <2> HIDE DEF A, E
  <2>5. Expected(mine, type) \in A
    BY <2>1, <2>3, <2>4, ExpectedLoop
  <2>6. QED BY <2>5 DEF A
<1>3. \A c \in C : OneField(new(c))
  <2> SUFFICES ASSUME NEW c \in C PROVE OneField(new(c))
    OBVIOUS
  <2>1. c \in ParsedConfigs /\ c.contents # <<>>
    BY <1>1
  <2>2. c.contents \in Asked
    BY <2>1 DEF ParsedConfigs
  <2> DEFINE contents == c.contents
  <2>3. new(c).contents = contents /\ new(c).keys = Keys(contents)
    OBVIOUS
  <2> HIDE DEF contents, new
  <2>4. CASE job.kind = "card"
    BY <2>3, <2>4 DEF Keys, OneField
  <2>5. CASE job.kind # "card"
    <3>1. \E w \in Texts, n \in Int : contents = <<[text |-> w, threshold |-> n]>>
      BY <2>2, <2>5 DEF Asked, contents
    <3>2. PICK w \in Texts, n \in Int : contents = <<[text |-> w, threshold |-> n]>>
      BY <3>1
    <3>3. contents = <<contents[1]>> /\ contents[1].text \in Texts /\ contents[1].threshold \in Int
      BY <3>2
    <3>4. DOMAIN contents = 1 .. 1
      BY <3>2
    <3>5. Keys(contents) = <<1>>
      <4>1. Keys(contents) = [f \in 1 .. 1 |-> f]
        BY <2>5, <3>4 DEF Keys
      <4>2. [f \in 1 .. 1 |-> f] = <<1>>
        OBVIOUS
      <4>3. QED BY <4>1, <4>2
    <3>6. QED BY <2>3, <3>3, <3>5 DEF OneField
  <2>6. QED BY <2>4, <2>5
<1> HIDE DEF mine, expected, E
<1>4. expected \in Seq(Range(expected)) /\ \A e \in DOMAIN expected : expected[e] \in E
  BY <1>2 DEF Range
<1>5. ASSUME NEW e \in DOMAIN expected
      PROVE  /\ OneField(expected[e])
             /\ \E c \in Range(list) : c.id = expected[e].id /\ c.contents = expected[e].contents
  <2>1. PICK c \in C : expected[e] = new(c)
    BY <1>4 DEF E
  <2>2. OneField(expected[e])
    BY <1>3, <2>1
  <2>3. c \in Range(list) /\ c.id = expected[e].id /\ c.contents = expected[e].contents
    BY <2>1
  <2>4. QED BY <2>2, <2>3
<1>6. QED BY <1>4, <1>5 DEF expected, mine

\* A new manager has the best of nothing.
LEMMA NewBest ==
  ASSUME job \in Jobs, NEW list \in Seq(ParsedConfigs), NEW type
  PROVE  BestFollow(_register(list, type), <<>>, list)
<1> DEFINE S == {c \in Range(list) : c.id.type = type}
           kind == IF type \in {"employee_card", "practicing_certificate"} THEN "multi_card" ELSE type
           expected == Expected(Select(list, S), type)
           n == NewManager(kind, type, job.tolerance)
           m == _register(list, type)
<1>1. PICK recognise : m = [n EXCEPT !.recognise = recognise, !.expected = expected, !.read = Unread(expected)]
  BY DEF _register
<1>2. /\ m.expected = expected /\ m.read = Unread(expected) /\ m.area = 0 /\ m.confidence = 0
      /\ m.stored = None /\ m.frames_count = 0
  <2> DEFINE read == Unread(expected)
  <2>1. m = [n EXCEPT !.recognise = recognise, !.expected = expected, !.read = read]
    BY <1>1
  <2> HIDE DEF expected, read, m, kind
  <2>2. QED BY <2>1 DEF NewManager, read
<1>3. /\ expected \in Seq(Range(expected))
      /\ \A e \in DOMAIN expected : OneField(expected[e])
      /\ \A e \in DOMAIN expected :
           \E c \in Range(list) : c.id = expected[e].id /\ c.contents = expected[e].contents
  <2> HIDE DEF S
  <2>1. QED
    BY ExpectedRight
<1> HIDE DEF m, expected
<1>4. Bar(m) = 0
  BY <1>2 DEF Bar
<1>5. Best(m, {})
  BY <1>2, <1>3, <1>4, UnreadBest
<1>6. Named(m, list)
  BY <1>2, <1>3 DEF Named
<1>7. Ordered(<<>>)
  BY DEF Ordered
<1>8. Own(m, <<>>) = {}
  BY <1>2 DEF Own
<1>9. SightingsOf(Own(m, <<>>)) = {}
  BY <1>8, SightingsMore
<1>10. QED BY <1>5, <1>6, <1>7, <1>9 DEF BestFollow, m

-----------------------------------------------------------------------------
(* What a job shows *)

\* All results are right.
AllRight(R, kind, S, list) == \A r \in Range(R) : Right(r, kind, S, list)

\* After a frame the results are still right, the one it may end with too.
LEMMA RightThen ==
  ASSUME NEW m, NEW R, NEW S, NEW now, Follow(m, R, S, now), NEW infos, AList(infos),
         \A i \in Range(infos) : Measured(i), NEW list, BestFollow(m, S, list),
         process(m, infos, now + 1).result # Raises, AllRight(R, m.kind, S, list)
  PROVE  LET x == process(m, infos, now + 1)
             T == SeenThen(S, Matching(m, infos), now + 1)
         IN  BestFollow(x.m, T, list) /\ AllRight(ToldThen(R, x), m.kind, T, list)
<1> DEFINE frame == now + 1
           x == process(m, infos, frame)
           new == Matching(m, infos)
           T == SeenThen(S, new, frame)
           s == <<frame, new>>
<1>1. /\ BestFollow(x.m, T, list)
      /\ x.result # None => Right(x.result, m.kind, S, list) /\ T = S
  BY ProcessBest
<1>2. Stretch(m.frames_count, m.start, m.frame, R, S, now)
  BY DEF Follow
<1>3. AList(S) /\ now \in Nat /\ \A r \in Range(R) : r.to \in Int /\ r.to <= now
  BY <1>2, FramesUpTo
<1>4. AList(R)
  BY <1>2 DEF Stretch, Told
<1> HIDE DEF x, new
<1>5. \A r \in Range(R) : Right(r, m.kind, T, list)
  <2> SUFFICES ASSUME NEW r \in Range(R) PROVE Right(r, m.kind, T, list)
    OBVIOUS
  <2>1. Right(r, m.kind, S, list)
    BY DEF AllRight
  <2>2. ~Within(r, s[1])
    BY <1>3 DEF Within
  <2>3. Right(r, m.kind, Append(S, s), list)
    <3> HIDE DEF s
    <3>1. QED BY <1>3, <2>1, <2>2, RightLater
  <2>4. QED BY <2>1, <2>3 DEF SeenThen
<1>6. AllRight(ToldThen(R, x), m.kind, T, list)
  <2>1. CASE x.result = None
    BY <1>5, <2>1 DEF ToldThen, AllRight
  <2>2. CASE x.result # None
    <3>1. ToldThen(R, x) = Append(R, x.result) /\ T = S
      BY <1>1, <2>2 DEF ToldThen
    <3>2. Range(Append(R, x.result)) = Range(R) \union {x.result}
      BY <1>4, RangeAppend
    <3>3. QED BY <1>1, <1>5, <2>2, <3>1, <3>2 DEF AllRight
  <2>3. QED BY <2>1, <2>2
<1>7. QED BY <1>1, <1>6 DEF x, new

\* Every manager keeps the best of what it follows, every result is right.
ShowsInv ==
    /\ pc = "running" => \A t \in DOMAIN trackers : BestFollow(trackers[t], seen[t], cfgs)
    /\ \A t \in DOMAIN tracked :
          /\ trackers[t].kind = "id_card" <=> t = "id_card"
          /\ AllRight(tracked[t], trackers[t].kind, seen[t], cfgs)

\* It holds after start.
LEMMA StartShows ==
  ASSUME FollowInv, ShowsInv, start
  PROVE  ShowsInv'
<1>1. job \in Jobs /\ images \in Nat
  BY DEF FollowInv
<1>2. CASE pc' \in {"raised", "left_out"}
  <2>1. UNCHANGED <<cfgs, trackers, tracked, seen>>
    BY <1>2 DEF start
  <2>2. QED BY <1>2, <2>1 DEF ShowsInv
<1>3. CASE pc' \notin {"raised", "left_out"}
  <2> DEFINE p == Refreshed(parse_task(<<>>, {}))
             types == IF job.kind = "card" THEN CardTypes \intersect {p.cfgs[n].id.type : n \in DOMAIN p.cfgs}
                      ELSE {job.kind}
  <2>1. /\ pc' = "running" /\ cfgs' = p.cfgs /\ trackers' = [t \in types |-> _register(p.cfgs, t)]
        /\ tracked' = [t \in types |-> <<>>] /\ seen' = [t \in types |-> <<>>]
    BY <1>3 DEF start
  <2>2. p \in Parses
    BY <1>1, RefreshedType
  <2> HIDE DEF types, p
  <2>3. p.cfgs \in Seq(ParsedConfigs)
    BY <2>2 DEF Parses
  <2>4. ASSUME NEW t \in types
        PROVE  /\ BestFollow(trackers'[t], seen'[t], cfgs')
               /\ trackers'[t].kind = "id_card" <=> t = "id_card"
               /\ AllRight(tracked'[t], trackers'[t].kind, seen'[t], cfgs')
    <3> DEFINE list == p.cfgs
    <3>1. trackers'[t] = _register(list, t) /\ tracked'[t] = <<>> /\ seen'[t] = <<>> /\ cfgs' = list
      BY <2>1
    <3>2. BestFollow(_register(list, t), <<>>, list)
      BY <1>1, <2>3, NewBest
    <3>3. _register(list, t).kind = IF t \in {"employee_card", "practicing_certificate"}
                                    THEN "multi_card" ELSE t
      BY <1>1, NewFollows
    <3> HIDE DEF list
    <3>4. _register(list, t).kind = "id_card" <=> t = "id_card"
      BY <3>3
    <3>5. AllRight(<<>>, _register(list, t).kind, <<>>, list)
      BY DEF AllRight, Range
    <3>6. QED BY <3>1, <3>2, <3>4, <3>5
  <2>5. DOMAIN trackers' = types /\ DOMAIN tracked' = types
    BY <2>1
  <2>6. QED BY <2>4, <2>5 DEF ShowsInv
<1>4. QED BY <1>2, <1>3

\* It holds after an image, looked at or passed over.
LEMMA ImageShows ==
  ASSUME FollowInv, ShowsInv, NEW answer \in Answers(job.kind), image(answer)
  PROVE  ShowsInv'
<1> USE ModuleAssumption
<1> DEFINE frame == images + 1
<1>1. job \in Jobs /\ images \in Nat /\ cfgs' = cfgs /\ pc = "running" /\ job.kind \in Kinds
  BY DEF FollowInv, image
<1>2. Following
  BY <1>1 DEF FollowInv
<1>3. CASE UNCHANGED <<trackers, tracked, seen>>
  BY <1>1, <1>3 DEF ShowsInv
<1>4. CASE ~UNCHANGED <<trackers, tracked, seen>>
  <2> DEFINE said(t)  == answer[ServiceOf(t)]
             infos(t) == predict(ServiceOf(t), said(t).pages)
             out(t)   == process(trackers[t], infos(t), frame)
  <2>1. /\ \A t \in DOMAIN trackers : out(t).result # Raises
        /\ trackers' = [t \in DOMAIN trackers |-> out(t).m]
        /\ tracked' = [t \in DOMAIN trackers |->
                         IF out(t).result = None THEN tracked[t] ELSE Append(tracked[t], out(t).result)]
        /\ seen' = [t \in DOMAIN trackers |->
                      IF Matching(trackers[t], infos(t)) = <<>> THEN seen[t]
                      ELSE Append(seen[t], <<frame, Matching(trackers[t], infos(t))>>)]
    BY <1>4 DEF image
  <2>2. ASSUME NEW t \in DOMAIN trackers
        PROVE  /\ BestFollow(trackers'[t], seen'[t], cfgs)
               /\ trackers'[t].kind = "id_card" <=> t = "id_card"
               /\ AllRight(tracked'[t], trackers'[t].kind, seen'[t], cfgs)
    <3>1. /\ Follow(trackers[t], tracked[t], seen[t], images)
          /\ ServiceOf(t) \in Services(job.kind)
      BY <1>2 DEF Following, Mine, ServiceOf
    <3>2. said(t).pages \in Seq(Pages)
      BY <1>1, <3>1
    <3>3. AList(infos(t)) /\ \A i \in Range(infos(t)) : Measured(i)
      <4>1. AList(said(t).pages)
        BY <3>2, ListType
      <4>2. QED BY <1>1, <3>1, <3>2, <4>1, Predicted, PredictMeasured
    <3>4. out(t).result # Raises
      BY <2>1
    <3>5. /\ trackers'[t] = out(t).m
          /\ tracked'[t] = ToldThen(tracked[t], out(t))
          /\ seen'[t] = SeenThen(seen[t], Matching(trackers[t], infos(t)), frame)
      BY <2>1 DEF ToldThen, SeenThen
    <3>6. /\ BestFollow(trackers[t], seen[t], cfgs)
          /\ trackers[t].kind = "id_card" <=> t = "id_card"
          /\ AllRight(tracked[t], trackers[t].kind, seen[t], cfgs)
      BY <1>1, <1>2 DEF ShowsInv, Following
    <3> DEFINE list == infos(t)
               x == process(trackers[t], list, frame)
               T == SeenThen(seen[t], Matching(trackers[t], list), frame)
    <3>7. out(t) = x
      OBVIOUS
    <3> HIDE DEF list, out, infos
    <3>8. /\ BestFollow(x.m, T, cfgs) /\ AllRight(ToldThen(tracked[t], x), trackers[t].kind, T, cfgs)
      BY <3>1, <3>3, <3>4, <3>6, <3>7, RightThen DEF list
    <3>9. x.m.kind = trackers[t].kind
      BY <3>1, <3>3, <3>4, <3>7, FollowStep DEF list
    <3> HIDE DEF x, T
    <3>10. trackers'[t] = x.m /\ tracked'[t] = ToldThen(tracked[t], x) /\ seen'[t] = T
      BY <3>5, <3>7 DEF list, T
    <3>11. QED BY <3>6, <3>8, <3>9, <3>10
  <2>3. DOMAIN trackers' = DOMAIN trackers /\ DOMAIN tracked' = DOMAIN trackers
    BY <2>1
  <2>4. QED BY <1>1, <2>2, <2>3 DEF ShowsInv
<1>5. QED BY <1>3, <1>4

\* It holds after finish.
LEMMA FinishShows ==
  ASSUME FollowInv, ShowsInv, finish
  PROVE  ShowsInv'
<1> DEFINE last(t) == over(trackers[t])
           all(t)  == IF last(t) = None THEN tracked[t] ELSE Append(tracked[t], last(t))
<1>1. pc = "running" /\ UNCHANGED <<job, cfgs, mapper, trackers, images, seen>> /\ pc' # "running"
  BY DEF finish
<1>2. Following
  BY <1>1 DEF FollowInv
<1>3. CASE pc' = "raised"
  <2>1. UNCHANGED tracked
    BY <1>3 DEF finish
  <2>2. QED BY <1>1, <2>1 DEF ShowsInv
<1>4. CASE pc' # "raised"
  <2>1. /\ tracked' = [t \in DOMAIN trackers |-> all(t)]
        /\ cfgs # <<>> => \A t \in DOMAIN trackers : last(t) # Raises
    BY <1>4 DEF finish
  <2>2. ASSUME NEW t \in DOMAIN trackers
        PROVE  /\ trackers[t].kind = "id_card" <=> t = "id_card"
               /\ AllRight(all(t), trackers[t].kind, seen[t], cfgs)
    <3> DEFINE m == trackers[t]
               R == tracked[t]
    <3>1. Mine(t)
      BY <1>2 DEF Following
    <3>2. /\ BestFollow(m, seen[t], cfgs) /\ (m.kind = "id_card" <=> t = "id_card")
          /\ AllRight(R, m.kind, seen[t], cfgs)
      BY <1>1, <1>2 DEF ShowsInv, Following
    <3>3. Follow(m, R, seen[t], images)
      BY <3>1 DEF Mine
    <3>4. AList(R)
      BY <3>3 DEF Follow, Stretch, Told
    <3>5. cfgs = <<>> => over(m) = None
      BY <3>1 DEF Mine, over
    <3>6. cfgs # <<>> => over(m) # Raises
      BY <2>1
    <3>7. all(t) = IF over(m) = None THEN R ELSE Append(R, over(m))
      OBVIOUS
    <3> HIDE DEF all, last, m, R
    <3>8. CASE over(m) = None
      BY <3>2, <3>7, <3>8 DEF m
    <3>9. CASE over(m) # None
      <4>1. Right(over(m), m.kind, seen[t], cfgs)
        BY <3>2, <3>3, <3>5, <3>6, <3>9, OverBest
      <4>2. Range(Append(R, over(m))) = Range(R) \union {over(m)}
        BY <3>4, RangeAppend
      <4>3. AllRight(Append(R, over(m)), m.kind, seen[t], cfgs)
        BY <3>2, <4>1, <4>2 DEF AllRight
      <4>4. QED BY <3>2, <3>7, <3>9, <4>3 DEF m
    <3>10. QED BY <3>8, <3>9
  <2>3. DOMAIN tracked' = DOMAIN trackers /\ \A t \in DOMAIN trackers : tracked'[t] = all(t)
    BY <2>1
  <2> HIDE DEF all
  <2>4. QED BY <1>1, <2>2, <2>3 DEF ShowsInv
<1>5. QED BY <1>3, <1>4

(* What a manager keeps for its result is the best of what it follows in   *)
(* every state, and so is what was told.                                   *)
THEOREM ShowsThrough == Spec => []ShowsInv
<1>1. Init => ShowsInv
  BY DEF Init, ShowsInv
<1>2. FollowInv /\ ShowsInv /\ [Next]_vars => ShowsInv'
  <2> SUFFICES ASSUME FollowInv, ShowsInv, [Next]_vars PROVE ShowsInv'
    OBVIOUS
  <2>1. ASSUME UNCHANGED vars PROVE ShowsInv'
    BY <2>1 DEF vars, ShowsInv
  <2>2. QED BY <2>1, StartShows, ImageShows, FinishShows DEF Next
<1>3. QED BY <1>1, <1>2, FollowsThrough, PTL DEF Spec

(* A result shows the best of its own stretch: do_detection,               *)
(* do_recognition and _reinit for every job, every video and every text.   *)
THEOREM BestIsShown == Spec => []BestShown
<1>1. ShowsInv => BestShown
  <2> SUFFICES ASSUME ShowsInv, NEW t \in DOMAIN tracked, NEW r \in Range(tracked[t])
               PROVE  LET own == {s \in Range(seen[t]) : Within(r, s[1])}
                          infos(s) == Range(s[2])
                          readings(c) == {calc_text_similarity(c.text, Shown(trackers[t], c.text, w)) :
                                            w \in UNION {Range(i.texts) : i \in UNION {infos(s) : s \in own}}}
                          sure(i) == IF i.confidence = 0 THEN i.detection ELSE i.confidence
                          worth(i) == IF t = "id_card" THEN sure(i) ELSE bbox_area(i)
                          best(s) == Most({worth(i) : i \in infos(s)})
                          shown   == CHOOSE s \in own : s[1] = r.frame
                      IN  /\ \E s \in own : s[1] = r.frame
                          /\ r.recognised =>
                               \E c \in Range(cfgs) : /\ c.id = r.id
                                                      /\ r.confidence = Most(readings(c.contents[1]))
                                                      /\ r.confidence > c.contents[1].threshold
                          /\ ~r.recognised => \A s \in own : best(s) <= best(shown)
    BY DEF BestShown
  <2> DEFINE kind == trackers[t].kind
             own == {s \in Range(seen[t]) : Within(r, s[1])}
             texts == UNION {Range(i.texts) : i \in UNION {Range(s[2]) : s \in own}}
             worth(i) == IF t = "id_card" THEN (IF i.confidence = 0 THEN i.detection ELSE i.confidence)
                         ELSE bbox_area(i)
             shown == CHOOSE s \in own : s[1] = r.frame
  <2>1. (kind = "id_card" <=> t = "id_card") /\ Right(r, kind, seen[t], cfgs)
    BY DEF ShowsInv, AllRight
  <2>2. RightOf(r, kind, own, cfgs)
    BY <2>1 DEF Right
  <2>3. \A i : Worth(kind, i) = worth(i)
    BY <2>1 DEF Worth
  <2>4. \A text, w : Closeness(kind, text, w) = calc_text_similarity(text, Shown(trackers[t], text, w))
    BY DEF Closeness, Shown
  <2> HIDE DEF own, kind
  <2>5. /\ \E s \in own : s[1] = r.frame
        /\ r.recognised =>
             \E c \in Range(cfgs) :
               /\ c.id = r.id
               /\ r.confidence = Most({Closeness(kind, c.contents[1].text, w) : w \in texts})
               /\ r.confidence > c.contents[1].threshold
        /\ ~r.recognised => \A s \in own : Most({Worth(kind, i) : i \in Range(s[2])})
                                             <= Most({Worth(kind, i) : i \in Range(shown[2])})
    BY <2>2 DEF RightOf
  <2>6. \A s : {Worth(kind, i) : i \in Range(s[2])} = {worth(i) : i \in Range(s[2])}
    BY <2>3
  <2>7. \A text : {Closeness(kind, text, w) : w \in texts} =
                    {calc_text_similarity(text, Shown(trackers[t], text, w)) : w \in texts}
    BY <2>4
  <2>8. ASSUME r.recognised
        PROVE  \E c \in Range(cfgs) :
                 /\ c.id = r.id
                 /\ r.confidence = Most({calc_text_similarity(c.contents[1].text,
                                           Shown(trackers[t], c.contents[1].text, w)) : w \in texts})
                 /\ r.confidence > c.contents[1].threshold
    BY <2>5, <2>7, <2>8
  <2>9. ASSUME ~r.recognised, NEW s \in own
        PROVE  Most({worth(i) : i \in Range(s[2])}) <= Most({worth(i) : i \in Range(shown[2])})
    BY <2>5, <2>6, <2>9
  <2>10. \E s \in own : s[1] = r.frame
    BY <2>5
  <2> HIDE DEF worth
  <2>11. QED BY <2>8, <2>9, <2>10 DEF own, worth
<1>2. QED BY <1>1, ShowsThrough, PTL
==============================================================================
