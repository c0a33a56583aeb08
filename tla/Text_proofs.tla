------------------------------ MODULE Text_proofs ------------------------------
(***************************************************************************)
(* Theorems about the texts of a video: about SubtitleTracking, for every  *)
(* job, every video and every way of comparing a text with a block, and    *)
(* about SpeechRules, for every alphabet, every dialogue and all rules.    *)
(***************************************************************************)
EXTENDS SubtitleTracking, SpeechRules, Selection_proofs

-----------------------------------------------------------------------------
(* The masks of a frame *)

\* The masks the due texts may have.
MaskOfSome(due) == UNION {[DOMAIN Cfg(i).text -> BOOLEAN] : i \in due}

\* A block is awarded to a text that is due.
LEMMA AwardedType ==
  ASSUME NEW due, NEW masks \in [due -> MaskOfSome(due)], NEW gain, NEW read, NEW left
  PROVE  Awarded(masks, gain, read, left) \in [due -> MaskOfSome(due)]
<1> DEFINE new(i) == [masks EXCEPT ![i] = Or(masks[i], Compared(i, read, left).mask)]
<1>1. ASSUME NEW i PROVE new(i) \in [due -> MaskOfSome(due)]
  <2>1. CASE i \in due
    <3>1. masks[i] \in MaskOfSome(due)
      BY <2>1
    <3>2. PICK k \in due : masks[i] \in [DOMAIN Cfg(k).text -> BOOLEAN]
      BY <3>1 DEF MaskOfSome
    <3>3. Or(masks[i], Compared(i, read, left).mask) \in [DOMAIN Cfg(k).text -> BOOLEAN]
      BY <3>2 DEF Or
    <3>4. Or(masks[i], Compared(i, read, left).mask) \in MaskOfSome(due)
      BY <3>3 DEF MaskOfSome
    <3>5. QED BY <2>1, <3>4
  <2>2. CASE i \notin due
    BY <2>2
  <2>3. QED BY <2>1, <2>2
<1>2. Awarded(masks, gain, read, left) = masks \/ \E i : Awarded(masks, gain, read, left) = new(i)
  BY DEF Awarded
<1>3. QED BY <1>1, <1>2

\* A frame has a mask for each text that is due and for no other.
LEMMA MasksDue ==
  ASSUME NEW blocks, AList(blocks), NEW due, NEW left
  PROVE  DOMAIN FrameMasks(blocks, due, left) = due
<1> DEFINE T == [due -> MaskOfSome(due)]
           conflicts == Select(blocks, {b \in Range(blocks) : Cardinality(Best(b, due, left)) > 1})
           s == SortedBy(conflicts, LAMBDA b, c : FirstLike(b, due, left) < FirstLike(c, due, left))
           n == Len(s)
           first == Matched(blocks, due, left)
           Eq(f) == f = [i \in 0 .. n |-> IF i = 0 THEN first ELSE Resolved(f[i - 1], s[i], due, left)]
           k == CHOOSE f : Eq(f)
           G == [i \in 1 .. n |-> [x \in T |-> Resolved(x, s[i], due, left)]]
<1>1. FrameMasks(blocks, due, left) = k[n]
  BY DEF FrameMasks
<1>2. n \in Nat
  <2>1. DOMAIN conflicts = 1 .. Len(conflicts) /\ Len(conflicts) \in Nat
    BY SelectList, ListDomain
  <2>2. s = [i \in 1 .. Len(conflicts) |-> s[i]]
    BY <2>1 DEF SortedBy
  <2> HIDE DEF s
  <2>3. AList(s)
    BY <2>1, <2>2, FunctionList
  <2>4. QED BY <2>3, ListDomain
<1> HIDE DEF s, n
<1>3. first \in T
  BY DEF Matched, MaskOfSome
<1>4. \A x \in T, i \in 1 .. n : Resolved(x, s[i], due, left) \in T
  BY AwardedType DEF Resolved
<1> HIDE DEF T, first
<1>6. G \in [1 .. n -> [T -> T]] /\ \A x \in T, i \in 1 .. n : G[i][x] = Resolved(x, s[i], due, left)
  BY <1>4
<1> HIDE DEF G
<1>7. PICK f \in [0 .. n -> T] : Iterates(f, n, first, G)
  BY <1>2, <1>3, <1>6, Iteration
<1>8. Eq(f)
  <2>1. f = [i \in 0 .. n |-> IF i = 0 THEN first ELSE G[i][f[i - 1]]]
    BY <1>7 DEF Iterates
  <2>2. \A i \in 0 .. n : i # 0 => i \in 1 .. n /\ f[i - 1] \in T
    BY <1>2
  <2>3. QED BY <1>6, <2>1, <2>2
<1>9. Eq(k)
  BY <1>8
<1> HIDE DEF k
<1>10. k[0] = first /\ \A i \in 1 .. n : k[i] = Resolved(k[i - 1], s[i], due, left)
  BY <1>2, <1>9
<1>11. k = [i \in 0 .. n |-> k[i]]
  BY <1>9
<1>12. \A i \in 1 .. n : k[i - 1] \in T => k[i] \in T
  BY <1>4, <1>10
<1>13. k \in [0 .. n -> T]
  BY <1>2, <1>3, <1>10, <1>11, <1>12, StaysIn
<1>14. k[n] \in T
  BY <1>2, <1>13
<1>15. QED BY <1>1, <1>14 DEF T

-----------------------------------------------------------------------------
(* A text through a frame *)

\* The text was below its threshold in frame t.
Below(s, c, t) == \E e \in s.mapper : e[1] = t /\ ~AtLeast(e[2], c.threshold)

\* A text being looked for.
Text(s) == s = [text |-> s.text, mask |-> s.mask, total |-> s.total, misses |-> s.misses, mapper |-> s.mapper]

\* One entry for each frame up to t it was looked for in, and these lie in its time.
Measures(s, c, t) ==
    /\ IsFiniteSet(s.mapper)
    /\ \A e \in s.mapper : e[1] \in 1 .. t
    /\ \A e, f \in s.mapper : e[1] = f[1] => e = f
    /\ \A e \in s.mapper : c.patches = {} \/ \E p \in c.patches : is_in(p, e[1])

\* The misses are those below the threshold, in order.
Misses(s, c, t) ==
    /\ AList(s.misses)
    /\ \A n \in 1 .. Len(s.misses) : s.misses[n] \in 1 .. t /\ Below(s, c, s.misses[n])
    /\ \A x : Below(s, c, x) => Has(s.misses, x)
    /\ \A n \in 2 .. Len(s.misses) : s.misses[n - 1] < s.misses[n]

\* What is counted.
Counts(s) ==
    /\ s.total = Cardinality(s.mapper)
    /\ Len(s.misses) <= s.total
    /\ Ones(s.mask) # {} => Len(s.misses) < s.total

\* What the tracker holds of a text after t frames.
Held(s, c, t) == Text(s) /\ Measures(s, c, t) /\ Misses(s, c, t) /\ Counts(s)

\* It holds after more frames in which the text was not looked for.
LEMMA HeldLater ==
  ASSUME NEW s, NEW c, NEW t \in Nat, NEW u \in Nat, t <= u, Held(s, c, t)
  PROVE  Held(s, c, u)
<1>1. 1 .. t \subseteq 1 .. u
  OBVIOUS
<1>2. QED BY <1>1 DEF Held, Measures, Misses

\* It holds after a frame in which the text was looked for.
LEMMA SeenNow ==
  ASSUME NEW s, NEW i, NEW t \in Nat, NEW mask, Held(s, Cfg(i), t),
         Cfg(i).patches = {} \/ \E p \in Cfg(i).patches : is_in(p, t + 1)
  PROVE  /\ Held(Seen(s, i, t + 1, mask), Cfg(i), t + 1)
         /\ Seen(s, i, t + 1, mask).mapper = s.mapper \union {<<t + 1, total_similarity(i, mask)>>}
<1> DEFINE share == total_similarity(i, mask)
           u == t + 1
           e == <<u, share>>
           hit == AtLeast(share, Cfg(i).threshold)
           misses == IF hit THEN s.misses ELSE Append(s.misses, u)
           ones == IF hit THEN Or(s.mask, mask) ELSE s.mask
           n == Seen(s, i, u, mask)
<1>1. Text(s) /\ Measures(s, Cfg(i), t) /\ Misses(s, Cfg(i), t) /\ Counts(s)
  BY DEF Held
<1>2. n = [text |-> s.text, mask |-> ones, total |-> s.total + 1, misses |-> misses, mapper |-> s.mapper \union {e}]
  <2> DEFINE total == s.total + 1
             mapper == s.mapper \union {e}
  <2>1. n = [s EXCEPT !.total = total, !.mapper = mapper, !.misses = misses, !.mask = ones]
    BY DEF Seen
  <2>2. s \in [text: {s.text}, mask: {s.mask}, total: {s.total}, misses: {s.misses}, mapper: {s.mapper}]
    BY <1>1 DEF Text
  <2> HIDE DEF n, e, misses, ones, hit, total, mapper
  <2>3. n \in [text: {s.text}, mask: {ones}, total: {total}, misses: {misses}, mapper: {mapper}]
    BY <2>1, <2>2
  <2>4. n = [text |-> s.text, mask |-> ones, total |-> total, misses |-> misses, mapper |-> mapper]
    BY <2>3
  <2>5. QED BY <2>4 DEF total, mapper
<1> HIDE DEF n, e, misses, ones, hit
<1>3. /\ n.text = s.text /\ n.mask = ones /\ n.total = s.total + 1 /\ n.misses = misses
      /\ n.mapper = s.mapper \union {e} /\ Text(n)
  BY <1>2 DEF Text
<1>4. e[1] = u /\ e[2] = share
  BY DEF e
<1>5. \A f \in s.mapper : f[1] # u
  BY <1>1 DEF Measures
<1>6. Measures(n, Cfg(i), u)
  <2>1. IsFiniteSet(n.mapper)
    BY <1>1, <1>3, FS_AddElement DEF Measures
  <2>2. \A f \in n.mapper : f[1] \in 1 .. u
    BY <1>1, <1>3, <1>4 DEF Measures
  <2>3. \A f, g \in n.mapper : f[1] = g[1] => f = g
    BY <1>1, <1>3, <1>4, <1>5 DEF Measures
  <2>4. \A f \in n.mapper : Cfg(i).patches = {} \/ \E p \in Cfg(i).patches : is_in(p, f[1])
    BY <1>1, <1>3, <1>4 DEF Measures
  <2>5. QED BY <2>1, <2>2, <2>3, <2>4 DEF Measures
<1>7. \A x : Below(n, Cfg(i), x) <=> Below(s, Cfg(i), x) \/ (x = u /\ ~hit)
  BY <1>3, <1>4 DEF Below, hit
<1>8. AList(s.misses) /\ Len(s.misses) \in Nat
  BY <1>1, ListDomain DEF Misses
<1>9. Misses(n, Cfg(i), u)
  <2>1. CASE hit
    BY <1>1, <1>3, <1>7, <2>1 DEF Misses, misses
  <2>2. CASE ~hit
    <3>1. n.misses = Append(s.misses, u)
      BY <1>3, <2>2 DEF misses
    <3> DEFINE l == n.misses
               k == Len(s.misses)
    <3>2. AList(l) /\ Len(l) = k + 1 /\ l[k + 1] = u /\ \A m \in 1 .. k : l[m] = s.misses[m]
      BY <1>8, <3>1, ListAppend
    <3>3. /\ \A m \in 1 .. k : s.misses[m] \in 1 .. t /\ Below(s, Cfg(i), s.misses[m])
          /\ \A x : Below(s, Cfg(i), x) => Has(s.misses, x)
          /\ \A m \in 2 .. k : s.misses[m - 1] < s.misses[m]
      BY <1>1 DEF Misses
    <3> HIDE DEF l, k
    <3>4. k \in Nat
      BY <1>8 DEF k
    <3>5. \A m \in 1 .. Len(l) : l[m] \in 1 .. u /\ Below(n, Cfg(i), l[m])
      BY <1>7, <2>2, <3>2, <3>3, <3>4
    <3>6. \A x : Below(n, Cfg(i), x) => Has(l, x)
      <4> SUFFICES ASSUME NEW x, Below(n, Cfg(i), x) PROVE Has(l, x)
        OBVIOUS
      <4>1. CASE x = u
        <5>1. k + 1 \in 1 .. Len(l) /\ l[k + 1] = x
          BY <3>2, <3>4, <4>1
        <5>2. QED BY <5>1 DEF Has
      <4>2. CASE x # u
        <5>1. PICK m \in 1 .. k : s.misses[m] = x
          BY <1>7, <3>3, <4>2 DEF Has, k
        <5>2. m \in 1 .. Len(l) /\ l[m] = x
          BY <3>2, <3>4, <5>1
        <5>3. QED BY <5>2 DEF Has
      <4>3. QED BY <4>1, <4>2
    <3>7. \A m \in 2 .. Len(l) : l[m - 1] < l[m]
      <4> SUFFICES ASSUME NEW m \in 2 .. Len(l) PROVE l[m - 1] < l[m]
        OBVIOUS
      <4>1. CASE m = k + 1
        BY <3>2, <3>3, <3>4, <4>1
      <4>2. CASE m # k + 1
        <5>1. m \in 2 .. k /\ m \in 1 .. k /\ m - 1 \in 1 .. k
          BY <3>2, <3>4, <4>2
        <5>2. QED BY <3>2, <3>3, <5>1
      <4>3. QED BY <4>1, <4>2
    <3>8. QED BY <3>2, <3>5, <3>6, <3>7 DEF Misses, l
  <2>3. QED BY <2>1, <2>2
<1>10. Counts(n)
  <2>1. e \notin s.mapper /\ IsFiniteSet(s.mapper)
    BY <1>1, <1>4, <1>5 DEF Measures
  <2>2. Cardinality(n.mapper) = Cardinality(s.mapper) + 1 /\ Cardinality(s.mapper) \in Nat
    BY <1>3, <2>1, FS_AddElement, FS_CardinalityType
  <2>3. Len(s.misses) <= s.total /\ s.total = Cardinality(s.mapper)
        /\ (Ones(s.mask) # {} => Len(s.misses) < s.total)
    BY <1>1 DEF Counts
  <2>4. CASE hit
    <3>1. n.misses = s.misses
      BY <1>3, <2>4 DEF misses
    <3>2. QED BY <1>3, <1>8, <2>2, <2>3, <3>1 DEF Counts
  <2>5. CASE ~hit
    <3>1. Len(n.misses) = Len(s.misses) + 1 /\ n.mask = s.mask
      BY <1>3, <1>8, <2>5, ListAppend DEF misses, ones
    <3>2. QED BY <1>3, <1>8, <2>2, <2>3, <3>1 DEF Counts
  <2>6. QED BY <2>4, <2>5
<1>11. QED BY <1>3, <1>6, <1>9, <1>10 DEF Held, n, e

-----------------------------------------------------------------------------
(* The job *)

\* A text to be looked for in every frame.
AlwaysDue(i) == Cfg(i).patches = {} /\ ~Cfg(i).once

\* The missed texts of a frame are those that were below their threshold in it.
FrameTells(n) ==
    /\ Frames[n][1] \in 1 .. now /\ Frames[n][2] \subseteq Ids
    /\ \A i \in Ids : i \in Frames[n][2] <=> Below(subtitles[i], Cfg(i), Frames[n][1])

\* The text was looked for in every frame so far.
EveryFrame(i) ==
    /\ Len(Frames) = now /\ \A n \in 1 .. now : Frames[n][1] = n
    /\ \A u \in 1 .. now : \E e \in subtitles[i].mapper : e[1] = u

\* The frames and the texts tell of the same video.
FramesHeld ==
    /\ AList(Frames)
    /\ \A n \in 1 .. Len(Frames) : FrameTells(n)
    /\ \A i \in Ids : \A e \in subtitles[i].mapper : \E n \in 1 .. Len(Frames) : Frames[n][1] = e[1]
    /\ \A i \in Ids : AlwaysDue(i) => EveryFrame(i)

\* The frames that finish lists.
ShownFrames == Select([n \in DOMAIN Frames |-> n], {n \in DOMAIN Frames : Listed(n)})

\* What finish lists.
Ended ==
    result = [missed |-> [m \in DOMAIN ShownFrames |-> <<Frames[ShownFrames[m]][1], Missed(ShownFrames[m])>>],
              appear |-> UNION {Appearances(i) : i \in {k \in Ids : Continuous(k)}}]

\* Each text holds what the frames up to now gave.
TextsHeld == \A i \in Ids : Held(subtitles[i], Cfg(i), now)

\* The invariant.
SubtitleInv ==
    /\ job \in Jobs /\ now \in Nat /\ pc \in {"running", "done", "raised"}
    /\ pc # "raised" => TextsHeld /\ FramesHeld
    /\ pc = "done" => Ended

\* A new text holds nothing.
LEMMA RegisteredHeld ==
  ASSUME NEW c, NEW d
  PROVE  Held(Registered(c), d, 0) /\ Registered(c).mapper = {}
<1> DEFINE s == Registered(c)
           mask == NoMask(Len(c.text))
<1>1. s = [text |-> c.text, mask |-> mask, total |-> 0, misses |-> <<>>, mapper |-> {}]
  BY DEF Registered
<1>2. Ones(mask) = {}
  BY DEF Ones, NoMask
<1> HIDE DEF s, mask
<1>3. /\ s.text = c.text /\ s.mask = mask /\ s.total = 0 /\ s.misses = <<>> /\ s.mapper = {} /\ Text(s)
  BY <1>1 DEF Text
<1>4. Measures(s, d, 0)
  BY <1>3, FS_EmptySet DEF Measures
<1>5. Misses(s, d, 0)
  BY <1>3 DEF Misses, AList, Below
<1>6. Counts(s)
  BY <1>2, <1>3, FS_EmptySet DEF Counts
<1>7. QED BY <1>3, <1>4, <1>5, <1>6 DEF Held, s

\* It holds of every job at the start.
LEMMA SubtitleStart == Init => SubtitleInv
<1> SUFFICES ASSUME Init PROVE SubtitleInv
  OBVIOUS
<1>1. job \in Jobs /\ now = 0 /\ pc = "running" /\ Frames = <<>>
  BY DEF Init, Frames
<1>2. \A i \in Ids : subtitles[i] = Registered(Cfg(i))
  BY DEF Init, Ids, Cfg
<1>3. TextsHeld
  BY <1>1, <1>2, RegisteredHeld DEF TextsHeld
<1>4. AList(Frames) /\ Len(Frames) = 0
  BY <1>1 DEF AList
<1>5. FramesHeld
  <2>1. \A i \in Ids : subtitles[i].mapper = {}
    BY <1>2, RegisteredHeld
  <2>2. QED BY <1>1, <1>4, <2>1 DEF FramesHeld, EveryFrame
<1>6. QED BY <1>1, <1>3, <1>5 DEF SubtitleInv

\* Nothing was due in the frame.
LEMMA Skipping ==
  ASSUME SubtitleInv, pc = "running", now' = now + 1, Due(now + 1) = {},
         UNCHANGED <<job, pc, subtitles, all_miss_results, result>>
  PROVE  SubtitleInv'
<1>1. job \in Jobs /\ now \in Nat /\ TextsHeld /\ FramesHeld
  BY DEF SubtitleInv
<1>2. Ids' = Ids /\ Frames' = Frames /\ \A i : Cfg(i)' = Cfg(i)
  BY DEF Ids, Cfg, Frames
<1>3. TextsHeld'
  <2>1. \A i \in Ids : Held(subtitles[i], Cfg(i), now + 1)
    BY <1>1, HeldLater DEF TextsHeld
  <2>2. QED BY <1>2, <2>1 DEF TextsHeld
<1>4. ASSUME NEW i \in Ids PROVE ~AlwaysDue(i)
  BY DEF AlwaysDue, Due
<1>5. FramesHeld'
  <2>1. \A n \in 1 .. Len(Frames) : FrameTells(n)'
    <3>1. 1 .. now \subseteq 1 .. now'
      BY <1>1
    <3>2. QED BY <1>1, <1>2, <3>1 DEF FramesHeld, FrameTells
  <2>2. \A i \in Ids : ~AlwaysDue(i)'
    BY <1>2, <1>4 DEF AlwaysDue
  <2>3. QED BY <1>1, <1>2, <2>1, <2>2 DEF FramesHeld
<1>6. QED BY <1>1, <1>3, <1>5 DEF SubtitleInv

\* The frame is looked at.
LEMMA Looking ==
  ASSUME SubtitleInv, pc = "running", now' = now + 1, NEW masks, DOMAIN masks = Due(now + 1),
         UNCHANGED <<job, pc, result>>, Looked(now + 1, masks)
  PROVE  SubtitleInv'
<1> DEFINE t == now + 1
           share(i) == total_similarity(i, masks[i])
           missed == {i \in DOMAIN masks : ~AtLeast(share(i), Cfg(i).threshold)}
<1>1. job \in Jobs /\ now \in Nat /\ TextsHeld /\ FramesHeld
  BY DEF SubtitleInv
<1>2. Ids' = Ids /\ \A i : Cfg(i)' = Cfg(i)
  BY DEF Ids, Cfg
<1>3. Frames' = Append(Frames, <<t, missed>>)
  BY DEF Looked, Frames
<1>4. \A i \in Ids : subtitles'[i] = IF i \in Due(t) THEN Seen(subtitles[i], i, t, masks[i]) ELSE subtitles[i]
  BY DEF Looked
<1>5. Due(t) \subseteq Ids
  BY DEF Due
<1>6. ASSUME NEW i \in Due(t)
      PROVE  Held(subtitles'[i], Cfg(i), t) /\ subtitles'[i].mapper = subtitles[i].mapper \union {<<t, share(i)>>}
  <2>1. Held(subtitles[i], Cfg(i), now)
    BY <1>1, <1>5 DEF TextsHeld
  <2>2. Cfg(i).patches = {} \/ \E p \in Cfg(i).patches : is_in(p, now + 1)
    BY DEF Due
  <2>3. subtitles'[i] = Seen(subtitles[i], i, t, masks[i])
    BY <1>4, <1>5
  <2>4. /\ Held(Seen(subtitles[i], i, now + 1, masks[i]), Cfg(i), now + 1)
        /\ Seen(subtitles[i], i, now + 1, masks[i]).mapper
             = subtitles[i].mapper \union {<<now + 1, total_similarity(i, masks[i])>>}
    BY <1>1, <2>1, <2>2, SeenNow
  <2>5. QED BY <2>3, <2>4
<1>7. ASSUME NEW i \in Ids, i \notin Due(t)
      PROVE  Held(subtitles'[i], Cfg(i), t) /\ subtitles'[i] = subtitles[i]
  <2>1. Held(subtitles[i], Cfg(i), t)
    BY <1>1, HeldLater DEF TextsHeld
  <2>2. QED BY <1>4, <1>7, <2>1
<1> HIDE DEF missed
<1>8. TextsHeld'
  BY <1>2, <1>6, <1>7 DEF TextsHeld
<1>9. /\ AList(Frames) /\ AList(Frames') /\ Len(Frames) \in Nat /\ Len(Frames') = Len(Frames) + 1
      /\ Frames'[Len(Frames) + 1] = <<t, missed>> /\ \A n \in 1 .. Len(Frames) : Frames'[n] = Frames[n]
  <2>1. AList(Frames)
    BY <1>1 DEF FramesHeld
  <2>2. QED BY <1>3, <2>1, ListAppend
<1>10. ASSUME NEW i \in Ids
       PROVE  /\ \A x : x # t => (Below(subtitles'[i], Cfg(i), x) <=> Below(subtitles[i], Cfg(i), x))
              /\ Below(subtitles'[i], Cfg(i), t) <=> i \in missed
  <2>1. \A e \in subtitles[i].mapper : e[1] # t
    BY <1>1 DEF TextsHeld, Held, Measures
  <2>2. ~Below(subtitles[i], Cfg(i), t)
    BY <2>1 DEF Below
  <2>3. CASE i \in Due(t)
    <3> DEFINE e == <<t, share(i)>>
    <3>1. subtitles'[i].mapper = subtitles[i].mapper \union {e} /\ e[1] = t /\ e[2] = share(i)
      BY <1>6, <2>3
    <3>2. i \in missed <=> ~AtLeast(e[2], Cfg(i).threshold)
      BY <2>3 DEF missed
    <3> HIDE DEF e
    <3>3. \A x : Below(subtitles'[i], Cfg(i), x)
                   <=> Below(subtitles[i], Cfg(i), x) \/ (x = t /\ ~AtLeast(e[2], Cfg(i).threshold))
      BY <3>1 DEF Below
    <3>4. QED BY <2>2, <3>2, <3>3
  <2>4. CASE i \notin Due(t)
    <3>1. i \notin missed
      BY <2>4 DEF missed
    <3>2. QED BY <1>7, <2>2, <2>4, <3>1
  <2>5. QED BY <2>3, <2>4
<1>11. \A n \in 1 .. Len(Frames) : FrameTells(n)'
  <2> SUFFICES ASSUME NEW n \in 1 .. Len(Frames) PROVE FrameTells(n)'
    OBVIOUS
  <2>1. FrameTells(n)
    BY <1>1 DEF FramesHeld
  <2>2. Frames[n][1] \in 1 .. t /\ Frames[n][1] # t
    BY <1>1, <2>1 DEF FrameTells
  <2>3. Frames'[n] = Frames[n] /\ now' = t
    BY <1>9
  <2>4. QED BY <1>2, <1>10, <2>1, <2>2, <2>3 DEF FrameTells
<1>12. ASSUME NEW k, k = Len(Frames) + 1 PROVE FrameTells(k)'
  <2>1. Frames'[k][1] = t /\ Frames'[k][2] = missed /\ now' = t
    BY <1>9, <1>12
  <2>2. missed \subseteq Ids /\ t \in 1 .. t
    BY <1>1, <1>5 DEF missed
  <2>3. QED BY <1>2, <1>10, <2>1, <2>2 DEF FrameTells
<1>13. \A n \in 1 .. Len(Frames') : FrameTells(n)'
  <2> SUFFICES ASSUME NEW n \in 1 .. Len(Frames') PROVE FrameTells(n)'
    OBVIOUS
  <2>1. n \in 1 .. Len(Frames) \/ n = Len(Frames) + 1
    BY <1>9
  <2>2. QED BY <1>11, <1>12, <2>1
<1>14. ASSUME NEW i \in Ids, NEW e \in subtitles'[i].mapper
       PROVE  \E n \in 1 .. Len(Frames') : Frames'[n][1] = e[1]
  <2>1. CASE e \in subtitles[i].mapper
    <3>1. PICK n \in 1 .. Len(Frames) : Frames[n][1] = e[1]
      BY <1>1, <2>1 DEF FramesHeld
    <3>2. n \in 1 .. Len(Frames') /\ Frames'[n] = Frames[n]
      BY <1>9
    <3>3. QED BY <3>1, <3>2
  <2>2. CASE e \notin subtitles[i].mapper
    <3>1. e[1] = t
      BY <1>6, <1>7, <1>14, <2>2
    <3>2. Len(Frames) + 1 \in 1 .. Len(Frames')
      BY <1>9
    <3>3. QED BY <1>9, <3>1, <3>2
  <2>3. QED BY <2>1, <2>2
<1>15. ASSUME NEW i \in Ids, AlwaysDue(i)
       PROVE  EveryFrame(i)'
  <2>1. i \in Due(t)
    BY <1>15 DEF AlwaysDue, Due
  <2>2. EveryFrame(i)
    BY <1>1, <1>15 DEF FramesHeld
  <2>3. Len(Frames) = now /\ now' = t
    BY <2>2 DEF EveryFrame
  <2>4. \A n \in 1 .. t : Frames'[n][1] = n
    <3> SUFFICES ASSUME NEW n \in 1 .. t PROVE Frames'[n][1] = n
      OBVIOUS
    <3>1. CASE n = t
      BY <1>9, <2>3, <3>1
    <3>2. CASE n # t
      <4>1. n \in 1 .. now
        BY <1>1, <3>2
      <4>2. Frames[n][1] = n /\ Frames'[n] = Frames[n]
        BY <1>9, <2>2, <2>3, <4>1 DEF EveryFrame
      <4>3. QED BY <4>2
    <3>3. QED BY <3>1, <3>2
  <2>5. \A u \in 1 .. t : \E e \in subtitles'[i].mapper : e[1] = u
    <3> SUFFICES ASSUME NEW u \in 1 .. t PROVE \E e \in subtitles'[i].mapper : e[1] = u
      OBVIOUS
    <3>1. subtitles'[i].mapper = subtitles[i].mapper \union {<<t, share(i)>>}
      BY <1>6, <2>1
    <3>2. CASE u = t
      <4>1. <<t, share(i)>> \in subtitles'[i].mapper
        BY <3>1
      <4>2. QED BY <3>2, <4>1
    <3>3. CASE u # t
      <4>1. u \in 1 .. now
        BY <1>1, <3>3
      <4>2. QED BY <2>2, <3>1, <4>1 DEF EveryFrame
    <3>4. QED BY <3>2, <3>3
  <2>6. QED BY <1>9, <2>3, <2>4, <2>5 DEF EveryFrame
<1>16. \A i : AlwaysDue(i)' <=> AlwaysDue(i)
  BY <1>2 DEF AlwaysDue
<1>17. FramesHeld'
  BY <1>2, <1>9, <1>13, <1>14, <1>15, <1>16 DEF FramesHeld
<1>18. QED BY <1>1, <1>8, <1>17 DEF SubtitleInv

\* Every frame keeps it.
LEMMA Running ==
  ASSUME SubtitleInv, NEW n \in 0 .. Blocks, NEW blocks \in [1 .. n -> Texts], NEW left, run(blocks, left)
  PROVE  SubtitleInv'
<1> USE SubtitleAssumption
<1> DEFINE t == now + 1
           due == Due(t)
           placed == blocks = <<>> \/ job.height > 0
           clash  == job.new /\ Matches(job.texts, blocks, due, left) # {}
           looked == IF job.new THEN <<>> ELSE blocks
<1>1. pc = "running" /\ UNCHANGED <<job, result>> /\ now \in Nat /\ job \in Jobs
  BY DEF run, SubtitleInv
<1>2. CASE due = {}
  <2>1. now' = t /\ UNCHANGED <<job, pc, subtitles, all_miss_results, result>>
    BY <1>2 DEF run
  <2>2. QED BY <1>1, <1>2, <2>1, Skipping
<1>3. CASE due # {} /\ (~placed \/ clash)
  <2>1. pc' = "raised" /\ now' = t
    BY <1>3 DEF run, Raise
  <2>2. QED BY <1>1, <2>1 DEF SubtitleInv
<1>4. CASE due # {} /\ placed /\ ~clash
  <2>1. now' = t /\ pc' = pc /\ Looked(t, FrameMasks(looked, due, left))
    BY <1>4 DEF run
  <2>2. AList(blocks) /\ AList(<<>>)
    <3>1. n \in Nat /\ blocks \in Seq(Texts)
      OBVIOUS
    <3>2. QED BY <3>1, ListType DEF AList
  <2>3. AList(looked)
    BY <2>2
  <2> HIDE DEF looked, due
  <2>4. DOMAIN FrameMasks(looked, due, left) = due
    BY <2>3, MasksDue
  <2> DEFINE masks == FrameMasks(looked, due, left)
  <2>5. DOMAIN masks = Due(now + 1) /\ Looked(now + 1, masks)
    BY <2>1, <2>4 DEF due
  <2> HIDE DEF masks
  <2>6. QED BY <1>1, <2>1, <2>5, Looking
<1>5. QED BY <1>2, <1>3, <1>4

\* So does the end.
LEMMA SubtitleFinish ==
  ASSUME SubtitleInv, finish
  PROVE  SubtitleInv'
<1>1. /\ pc = "running" /\ UNCHANGED <<job, now, subtitles, all_miss_results>>
      /\ job \in Jobs /\ now \in Nat /\ TextsHeld /\ FramesHeld
  BY DEF finish, SubtitleInv
<1>2. Ids' = Ids /\ Frames' = Frames /\ \A i : Cfg(i)' = Cfg(i)
  BY <1>1 DEF Ids, Cfg, Frames
<1>3. TextsHeld'
  BY <1>1, <1>2 DEF TextsHeld
<1>4. FramesHeld'
  <2>1. \A i : EveryFrame(i)' <=> EveryFrame(i)
    BY <1>1, <1>2 DEF EveryFrame
  <2>2. \A n : FrameTells(n)' <=> FrameTells(n)
    BY <1>1, <1>2 DEF FrameTells
  <2>3. \A i : AlwaysDue(i)' <=> AlwaysDue(i)
    BY <1>2 DEF AlwaysDue
  <2>4. QED BY <1>1, <1>2, <2>1, <2>2, <2>3 DEF FramesHeld
<1>5. ASSUME pc' = "done" PROVE Ended'
  <2>1. result' = [missed |-> [m \in DOMAIN ShownFrames |-> <<Frames[ShownFrames[m]][1], Missed(ShownFrames[m])>>],
                   appear |-> UNION {Appearances(i) : i \in {k \in Ids : Continuous(k)}}]
    BY <1>5 DEF finish, ShownFrames
  <2>2. \A i : Continuous(i)' <=> Continuous(i)
    BY <1>2 DEF Continuous
  <2>3. \A i : is_tracked(i)' <=> is_tracked(i)
    BY <1>1 DEF is_tracked
  <2>4. \A k : Forgiven(k)' = Forgiven(k)
    BY <1>2, <2>2, <2>3 DEF Forgiven
  <2>5. \A n : Missed(n)' = Missed(n)
    BY <1>1, <1>2, <2>4 DEF Missed
  <2>6. \A n : Listed(n)' <=> Listed(n)
    BY <1>2, <2>2, <2>4 DEF Listed
  <2>7. ShownFrames' = ShownFrames
    BY <1>2, <2>6 DEF ShownFrames
  <2>8. \A i : continuous_image_nums(i)' = continuous_image_nums(i)
    BY <1>1, <1>2 DEF continuous_image_nums
  <2>9. \A i : Stretches(i)' = Stretches(i)
    BY <1>2 DEF Stretches
  <2>10. \A i : Appearances(i)' = Appearances(i)
    BY <1>2, <2>8, <2>9 DEF Appearances
  <2>11. {k \in Ids : Continuous(k)}' = {k \in Ids : Continuous(k)}
    BY <1>2, <2>2
  <2>12. QED BY <1>2, <2>1, <2>5, <2>7, <2>10, <2>11 DEF Ended
<1>6. pc' \in {"done", "raised"}
  BY DEF finish
<1>7. QED BY <1>1, <1>3, <1>4, <1>5, <1>6 DEF SubtitleInv

\* Every step keeps it.
LEMMA SubtitleNext == SubtitleInv /\ [Next]_vars => SubtitleInv'
<1> SUFFICES ASSUME SubtitleInv, [Next]_vars PROVE SubtitleInv'
  OBVIOUS
<1>1. ASSUME UNCHANGED vars PROVE SubtitleInv'
  <2>1. \A i : (EveryFrame(i)' <=> EveryFrame(i)) /\ (AlwaysDue(i)' <=> AlwaysDue(i))
    BY <1>1 DEF vars, EveryFrame, Frames, AlwaysDue, Cfg
  <2>2. \A n : FrameTells(n)' <=> FrameTells(n)
    BY <1>1 DEF vars, FrameTells, Frames, Cfg, Ids
  <2>3. FramesHeld' <=> FramesHeld
    BY <1>1, <2>1, <2>2 DEF vars, FramesHeld, Frames, Ids
  <2>4. TextsHeld' <=> TextsHeld
    BY <1>1 DEF vars, TextsHeld, Cfg, Ids
  <2>5. Ended' <=> Ended
    BY <1>1 DEF vars, Ended, ShownFrames, Listed, Missed, Forgiven, Appearances, Stretches, Frames, Cfg, Ids,
                Continuous, is_tracked, continuous_image_nums
  <2>6. QED BY <1>1, <2>3, <2>4, <2>5 DEF SubtitleInv, vars
<1>2. QED BY <1>1, Running, SubtitleFinish DEF Next

(* The texts and the frames of a job agree in every state that did not     *)
(* raise: the invariant the theorems below rest on.                        *)
THEOREM SubtitlesHeld == Spec => []SubtitleInv
BY SubtitleStart, SubtitleNext, PTL DEF Spec

(* The total, the similarities, the misses and the mask of a subtitle      *)
(* agree after any frames, whatever the comparison of a text with a block  *)
(* gives (_get_best_track_result, _get_valid_subtitles).                   *)
THEOREM CountsHold == Spec => []CountsAgree
<1>1. SubtitleInv => CountsAgree
  <2> SUFFICES ASSUME SubtitleInv, NEW i \in Ids, pc # "raised"
               PROVE  LET s == subtitles[i]
                      IN  /\ s.total = Cardinality(s.mapper)
                          /\ Range(s.misses) = {e[1] : e \in {f \in s.mapper : ~AtLeast(f[2], Cfg(i).threshold)}}
                          /\ \A n \in 2 .. Len(s.misses) : s.misses[n - 1] < s.misses[n]
                          /\ (Ones(s.mask) # {} => is_tracked(i))
                          /\ \A e \in s.mapper : Cfg(i).patches = {} \/ \E p \in Cfg(i).patches : is_in(p, e[1])
    BY DEF CountsAgree
  <2> DEFINE s == subtitles[i]
  <2>1. Held(s, Cfg(i), now)
    BY DEF SubtitleInv, TextsHeld
  <2> HIDE DEF s
  <2>2. Measures(s, Cfg(i), now) /\ Misses(s, Cfg(i), now) /\ Counts(s)
    BY <2>1 DEF Held
  <2>3. DOMAIN s.misses = 1 .. Len(s.misses) /\ Len(s.misses) \in Nat
    BY <2>2, ListDomain DEF Misses
  <2>4. Range(s.misses) = {e[1] : e \in {f \in s.mapper : ~AtLeast(f[2], Cfg(i).threshold)}}
    <3>1. \A x : x \in Range(s.misses) <=> Has(s.misses, x)
      BY <2>3 DEF Range, Has
    <3>2. \A x : Has(s.misses, x) <=> Below(s, Cfg(i), x)
      BY <2>2 DEF Misses, Has
    <3>3. \A x : Below(s, Cfg(i), x) <=> x \in {e[1] : e \in {f \in s.mapper : ~AtLeast(f[2], Cfg(i).threshold)}}
      BY DEF Below
    <3>4. QED BY <3>1, <3>2, <3>3
  <2>5. Ones(s.mask) # {} => Len(s.misses) # s.total
    <3>1. s.total \in Nat
      BY <2>2, FS_CardinalityType DEF Counts, Measures
    <3>2. QED BY <2>2, <2>3, <3>1 DEF Counts
  <2>6. QED BY <2>2, <2>4, <2>5 DEF Measures, Misses, Counts, s, is_tracked
<1>2. QED BY <1>1, SubtitlesHeld, PTL

-----------------------------------------------------------------------------
(* What a job that ended lists. *)

\* The text is missing in frame t and not forgiven.
Open(i, t) ==
    /\ Below(subtitles[i], Cfg(i), t)
    /\ ~(Cfg(i).once /\ is_tracked(i) /\ ~Continuous(i))

\* The texts are numbered.
LEMMA IdsRange ==
  ASSUME job \in Jobs
  PROVE  Len(job.texts) \in Nat /\ Ids = 1 .. Len(job.texts)
<1>1. job.texts \in Seq(Range(job.texts))
  BY SubtitleAssumption
<1>2. QED BY <1>1, ListType, ListDomain DEF Ids

\* What is missed of a frame at the end.
LEMMA MissedOpen ==
  ASSUME SubtitleInv, pc = "done", NEW n \in 1 .. Len(Frames)
  PROVE  Missed(n) = {i \in Ids : Open(i, Frames[n][1])}
<1>1. job \in Jobs /\ FramesHeld
  BY DEF SubtitleInv
<1>2. FrameTells(n)
  BY <1>1 DEF FramesHeld
<1>3. Ids = 1 .. Len(job.texts)
  BY <1>1, IdsRange
<1>4. QED BY <1>2, <1>3 DEF Missed, Forgiven, FrameTells, Open

\* The listed frames, each of them there.
LEMMA ShownMembers ==
  ASSUME SubtitleInv, pc = "done"
  PROVE  /\ DOMAIN ShownFrames = 1 .. Len(ShownFrames)
         /\ \A m \in DOMAIN ShownFrames : ShownFrames[m] \in 1 .. Len(Frames) /\ Listed(ShownFrames[m])
         /\ \A n \in 1 .. Len(Frames) : Listed(n) => \E m \in DOMAIN ShownFrames : ShownFrames[m] = n
<1> DEFINE idx == [n \in DOMAIN Frames |-> n]
           S == {n \in DOMAIN Frames : Listed(n)}
<1>1. DOMAIN Frames = 1 .. Len(Frames) /\ Len(Frames) \in Nat
  BY ListDomain DEF SubtitleInv, FramesHeld
<1>2. idx \in Seq(1 .. Len(Frames)) /\ Len(idx) = Len(Frames) /\ \A n \in 1 .. Len(Frames) : idx[n] = n
  BY <1>1
<1>3. ShownFrames = Select(idx, S)
  BY DEF ShownFrames
<1> HIDE DEF idx
<1>4. ShownFrames \in Seq((1 .. Len(Frames)) \cap S)
  BY <1>2, <1>3, SelectType
<1>5. DOMAIN ShownFrames = 1 .. Len(ShownFrames)
  BY <1>4
<1>6. \A m \in 1 .. Len(ShownFrames) : ShownFrames[m] \in (1 .. Len(Frames)) \cap S
  BY <1>4, MemberType
<1>7. \A n \in 1 .. Len(Frames) : Listed(n) => Has(ShownFrames, n)
  <2> SUFFICES ASSUME NEW n \in 1 .. Len(Frames), Listed(n) PROVE Has(ShownFrames, n)
    OBVIOUS
  <2>1. n \in S /\ Has(idx, n)
    BY <1>1, <1>2 DEF Has
  <2>2. QED BY <1>2, <1>3, <2>1, SelectMembers
<1>8. QED BY <1>5, <1>6, <1>7 DEF Has

(* The missed list names in each frame just the texts that were below      *)
(* their threshold there and were not seen elsewhere when once is enough;  *)
(* with one text it lists every such frame (the end of run_one).           *)
THEOREM MissedHold == Spec => []MissedExact
<1>1. SubtitleInv => MissedExact
  <2> SUFFICES ASSUME SubtitleInv, pc = "done"
               PROVE  /\ \A m \in DOMAIN result.missed :
                           result.missed[m][2] = {i \in Ids : Open(i, result.missed[m][1])}
                      /\ Ids = {1} /\ ~Continuous(1) =>
                           {result.missed[m][1] : m \in DOMAIN result.missed} = {t \in 1 .. now : Open(1, t)}
    BY DEF MissedExact, Open, Below
  <2> DEFINE told == [m \in DOMAIN ShownFrames |-> <<Frames[ShownFrames[m]][1], Missed(ShownFrames[m])>>]
  <2>1. job \in Jobs /\ now \in Nat /\ FramesHeld /\ Ended
    BY DEF SubtitleInv
  <2>2. result.missed = told
    BY <2>1 DEF Ended
  <2>3. /\ DOMAIN result.missed = DOMAIN ShownFrames
        /\ \A m \in DOMAIN ShownFrames : /\ result.missed[m][1] = Frames[ShownFrames[m]][1]
                                         /\ result.missed[m][2] = Missed(ShownFrames[m])
    BY <2>2
  <2> HIDE DEF told
  <2>4. \A m \in DOMAIN result.missed : result.missed[m][2] = {i \in Ids : Open(i, result.missed[m][1])}
    BY <2>3, MissedOpen, ShownMembers
  <2>5. ASSUME Ids = {1}, ~Continuous(1)
        PROVE  {result.missed[m][1] : m \in DOMAIN result.missed} = {t \in 1 .. now : Open(1, t)}
    <3>1. Len(job.texts) = 1
      <4>1. Len(job.texts) \in Nat /\ 1 .. Len(job.texts) = {1}
        BY <2>1, <2>5, IdsRange
      <4>2. 1 \in 1 .. Len(job.texts)
        BY <4>1
      <4>3. Len(job.texts) \in 1 .. Len(job.texts)
        BY <4>1, <4>2
      <4>4. QED BY <4>1, <4>3
    <3>2. \A n \in 1 .. Len(Frames) : Listed(n) <=> Open(1, Frames[n][1])
      <4> SUFFICES ASSUME NEW n \in 1 .. Len(Frames) PROVE Listed(n) <=> Open(1, Frames[n][1])
        OBVIOUS
      <4>1. Missed(n) = {i \in Ids : Open(i, Frames[n][1])}
        BY MissedOpen
      <4>2. Listed(n) <=> Missed(n) # {}
        BY <2>5, <3>1 DEF Listed, Missed
      <4>3. QED BY <2>5, <4>1, <4>2
    <3>3. ASSUME NEW m \in DOMAIN result.missed
          PROVE  result.missed[m][1] \in 1 .. now /\ Open(1, result.missed[m][1])
      <4>1. ShownFrames[m] \in 1 .. Len(Frames) /\ Listed(ShownFrames[m])
        BY <2>3, ShownMembers
      <4>2. Frames[ShownFrames[m]][1] \in 1 .. now
        BY <2>1, <4>1 DEF FramesHeld, FrameTells
      <4>3. QED BY <2>3, <3>2, <4>1, <4>2
    <3>4. ASSUME NEW t \in 1 .. now, Open(1, t)
          PROVE  \E m \in DOMAIN result.missed : result.missed[m][1] = t
      <4>1. PICK e \in subtitles[1].mapper : e[1] = t
        BY <3>4 DEF Open, Below
      <4>2. PICK n \in 1 .. Len(Frames) : Frames[n][1] = t
        BY <2>1, <2>5, <4>1 DEF FramesHeld
      <4>3. Listed(n)
        BY <3>2, <3>4, <4>2
      <4>4. PICK m \in DOMAIN ShownFrames : ShownFrames[m] = n
        BY <4>3, ShownMembers
      <4>5. QED BY <2>3, <4>2, <4>4
    <3>5. QED BY <3>3, <3>4
  <2>6. QED BY <2>4, <2>5
<1>2. QED BY <1>1, SubtitlesHeld, PTL

\* The text was above its threshold in frame t.
Shown(i, t) == \E s \in subtitles[i].mapper : s[1] = t /\ AtLeast(s[2], Cfg(i).threshold)

\* A text that is always due is either shown or missed in a frame.
LEMMA ShownFrame ==
  ASSUME SubtitleInv, pc = "done", NEW i \in Ids, AlwaysDue(i)
  PROVE  /\ DOMAIN Frames = 1 .. now /\ Len(Frames) = now /\ \A n \in 1 .. now : Frames[n][1] = n
         /\ \A t \in 1 .. now : Shown(i, t) <=> i \notin Frames[t][2]
         /\ ~Shown(i, 0) /\ ~Shown(i, now + 1)
<1>1. now \in Nat /\ FramesHeld /\ EveryFrame(i) /\ Held(subtitles[i], Cfg(i), now)
  BY DEF SubtitleInv, FramesHeld, TextsHeld
<1>2. DOMAIN Frames = 1 .. now /\ Len(Frames) = now /\ \A n \in 1 .. now : Frames[n][1] = n
  BY <1>1, ListDomain DEF FramesHeld, EveryFrame
<1>3. Measures(subtitles[i], Cfg(i), now)
  BY <1>1 DEF Held
<1>4. ASSUME NEW t \in 1 .. now PROVE Shown(i, t) <=> i \notin Frames[t][2]
  <2>1. i \in Frames[t][2] <=> Below(subtitles[i], Cfg(i), t)
    BY <1>1, <1>2 DEF FramesHeld, FrameTells
  <2>2. PICK e \in subtitles[i].mapper : e[1] = t
    BY <1>1 DEF EveryFrame
  <2>3. \A f \in subtitles[i].mapper : f[1] = t => f = e
    BY <1>3, <2>2 DEF Measures
  <2>4. QED BY <2>1, <2>2, <2>3 DEF Shown, Below
<1>5. \A e \in subtitles[i].mapper : e[1] \in 1 .. now
  BY <1>3 DEF Measures
<1>6. ~Shown(i, 0) /\ ~Shown(i, now + 1)
  BY <1>1, <1>5 DEF Shown
<1>7. QED BY <1>2, <1>4, <1>6

\* Halving the frame rate rounds down.
LEMMA AskedLength ==
  ASSUME job \in Jobs, NEW i \in Ids, NEW n \in Nat
  PROVE  n >= continuous_image_nums(i) <=> 2 * n >= Cfg(i).seconds * job.fps - 1
<1>1. job.fps \in Nat /\ Cfg(i).seconds \in Nat
  BY SubtitleAssumption DEF Ids, Cfg
<1> DEFINE x == Cfg(i).seconds * job.fps
<1>2. x \in Nat
  BY <1>1
<1>3. continuous_image_nums(i) = x \div 2
  BY DEF continuous_image_nums
<1> HIDE DEF x
<1>4. n >= x \div 2 <=> 2 * n >= x - 1
  BY <1>2
<1>5. QED BY <1>3, <1>4 DEF x

(* For a text due in every frame the stretches listed are just the longest *)
(* ones without a miss that last half as many frames as seconds and rate   *)
(* ask for (run_one, with the two indices that walk the frames).           *)
THEOREM AppearancesHold == Spec => []AppearancesExact
<1>1. SubtitleInv => AppearancesExact
  <2> SUFFICES ASSUME SubtitleInv, pc = "done", NEW i \in Ids, Continuous(i), AlwaysDue(i),
                      NEW from \in 1 .. now, NEW to \in 1 .. now
               PROVE  <<i, from, to>> \in result.appear <=>
                        /\ from <= to /\ \A t \in from .. to : Shown(i, t)
                        /\ ~Shown(i, from - 1) /\ ~Shown(i, to + 1)
                        /\ 2 * (to - from + 1) >= Cfg(i).seconds * job.fps - 1
    BY DEF AppearancesExact, AlwaysDue, Shown
  <2>1. job \in Jobs /\ now \in Nat /\ Ended
    BY DEF SubtitleInv
  <2>2. /\ DOMAIN Frames = 1 .. now /\ Len(Frames) = now /\ \A n \in 1 .. now : Frames[n][1] = n
        /\ \A t \in 1 .. now : Shown(i, t) <=> i \notin Frames[t][2]
        /\ ~Shown(i, 0) /\ ~Shown(i, now + 1)
    BY ShownFrame
  <2>3. result.appear = UNION {Appearances(k) : k \in {j \in Ids : Continuous(j)}}
    BY <2>1 DEF Ended
  <2>4. <<i, from, to>> \in result.appear <=> <<i, from, to>> \in Appearances(i)
    <3>1. \A k : <<i, from, to>> \in Appearances(k) => k = i
      BY DEF Appearances
    <3>2. QED BY <2>3, <3>1
  <2>5. <<i, from, to>> \in Appearances(i) <=>
          <<from, to>> \in Stretches(i) /\ to - from + 1 >= continuous_image_nums(i)
    <3>1. ASSUME NEW r \in Stretches(i)
          PROVE  r = <<r[1], r[2]>> /\ Frames[r[1]][1] = r[1] /\ Frames[r[2]][1] = r[2]
      BY <2>2 DEF Stretches
    <3>2. Frames[from][1] = from /\ Frames[to][1] = to
      BY <2>2
    <3>3. ASSUME <<i, from, to>> \in Appearances(i)
          PROVE  <<from, to>> \in Stretches(i) /\ to - from + 1 >= continuous_image_nums(i)
      <4>1. PICK r \in Stretches(i) :
               /\ r[2] - r[1] + 1 >= continuous_image_nums(i)
               /\ <<i, from, to>> = <<i, Frames[r[1]][1], Frames[r[2]][1]>>
        BY <3>3 DEF Appearances
      <4>2. r = <<from, to>> /\ r[1] = from /\ r[2] = to
        BY <3>1, <4>1
      <4>3. QED BY <4>1, <4>2
    <3>4. ASSUME <<from, to>> \in Stretches(i), to - from + 1 >= continuous_image_nums(i)
          PROVE  <<i, from, to>> \in Appearances(i)
      <4> DEFINE r == <<from, to>>
      <4>1. r[1] = from /\ r[2] = to /\ r \in Stretches(i)
        BY <3>4
      <4> HIDE DEF r
      <4>2. r \in {s \in Stretches(i) : s[2] - s[1] + 1 >= continuous_image_nums(i)}
        BY <3>4, <4>1
      <4>3. <<i, from, to>> = <<i, Frames[r[1]][1], Frames[r[2]][1]>>
        BY <3>2, <4>1
      <4>4. QED BY <4>2, <4>3 DEF Appearances
    <3>5. QED BY <3>3, <3>4
  <2>6. <<from, to>> \in Stretches(i) <=>
          /\ from <= to /\ \A t \in from .. to : i \notin Frames[t][2]
          /\ from = 1 \/ i \in Frames[from - 1][2]
          /\ to = now \/ i \in Frames[to + 1][2]
    BY <2>2 DEF Stretches
  <2>7. from = 1 \/ i \in Frames[from - 1][2] <=> ~Shown(i, from - 1)
    <3>1. CASE from = 1
      BY <2>1, <2>2, <3>1
    <3>2. CASE from # 1
      <4>1. from - 1 \in 1 .. now
        BY <2>1, <3>2
      <4>2. QED BY <2>2, <3>2, <4>1
    <3>3. QED BY <3>1, <3>2
  <2>8. to = now \/ i \in Frames[to + 1][2] <=> ~Shown(i, to + 1)
    <3>1. CASE to = now
      BY <2>1, <2>2, <3>1
    <3>2. CASE to # now
      <4>1. to + 1 \in 1 .. now
        BY <2>1, <3>2
      <4>2. QED BY <2>2, <3>2, <4>1
    <3>3. QED BY <3>1, <3>2
  <2>9. \A t \in from .. to : t \in 1 .. now
    BY <2>1
  <2>10. from <= to =>
           (to - from + 1 >= continuous_image_nums(i) <=> 2 * (to - from + 1) >= Cfg(i).seconds * job.fps - 1)
    <3> SUFFICES ASSUME from <= to
                 PROVE  to - from + 1 >= continuous_image_nums(i)
                          <=> 2 * (to - from + 1) >= Cfg(i).seconds * job.fps - 1
      OBVIOUS
    <3>1. to - from + 1 \in Nat
      BY <2>1
    <3>2. QED BY <2>1, <3>1, AskedLength
  <2>11. (\A t \in from .. to : i \notin Frames[t][2]) <=> \A t \in from .. to : Shown(i, t)
    BY <2>2, <2>9
  <2>12. QED BY <2>4, <2>5, <2>6, <2>7, <2>8, <2>10, <2>11
<1>2. QED BY <1>1, SubtitlesHeld, PTL

-----------------------------------------------------------------------------
(* Where a text stands in another *)

\* The least and the greatest of places are among them.
LEMMA EarliestOf ==
  ASSUME NEW n \in Nat, NEW S \in SUBSET (0 .. n), S # {}
  PROVE  Earliest(S) \in S /\ \A j \in S : Earliest(S) <= j
<1> DEFINE T == {j \in 1 .. n + 1 : j - 1 \in S}
<1>1. \A i \in S : i \in Nat /\ i <= n /\ i + 1 \in T
  OBVIOUS
<1>2. T # {}
  BY <1>1
<1>3. T \in SUBSET (1 .. n + 1) /\ n + 1 \in Nat
  OBVIOUS
<1>4. PICK m \in T : \A j \in T : m <= j
  BY <1>2, <1>3, LeastNumber
<1>5. m \in Int /\ m - 1 \in S
  OBVIOUS
<1>6. ASSUME NEW j \in S PROVE m - 1 <= j
  <2>1. m <= j + 1
    BY <1>1, <1>4
  <2>2. QED BY <1>1, <1>5, <2>1
<1>7. QED BY <1>5, <1>6 DEF Earliest

\* The last of some places.
LEMMA LatestOf ==
  ASSUME NEW n \in Nat, NEW S \in SUBSET (0 .. n), S # {}
  PROVE  \E i \in S : \A j \in S : j <= i
<1> DEFINE T == {j \in 1 .. n + 1 : (n + 1) - j \in S}
<1>1. \A i \in S : i \in Nat /\ i <= n /\ (n + 1) - i \in T
  <2> SUFFICES ASSUME NEW i \in S PROVE i \in Nat /\ i <= n /\ (n + 1) - i \in T
    OBVIOUS
  <2>1. i \in Nat /\ i <= n
    OBVIOUS
  <2>2. (n + 1) - i \in 1 .. n + 1 /\ (n + 1) - ((n + 1) - i) = i
    BY <2>1
  <2>3. QED BY <2>1, <2>2
<1>2. T # {}
  BY <1>1
<1>3. T \in SUBSET (1 .. n + 1) /\ n + 1 \in Nat
  OBVIOUS
<1>4. PICK m \in T : \A j \in T : m <= j
  BY <1>2, <1>3, LeastNumber
<1>5. m \in Int /\ (n + 1) - m \in S
  OBVIOUS
<1>6. ASSUME NEW j \in S PROVE j <= (n + 1) - m
  <2>1. m <= (n + 1) - j
    BY <1>1, <1>4
  <2>2. QED BY <1>1, <1>5, <2>1
<1>7. QED BY <1>5, <1>6

\* w stands in t after its first p members.
StandsAt(t, w, p) == p \in 0 .. Len(t) - Len(w) /\ \A i \in 1 .. Len(w) : t[p + i] = w[i]

\* Which is what Places finds.
LEMMA PlacesOf ==
  ASSUME NEW A, NEW t \in Seq(A), NEW w \in Seq(A), NEW from \in Nat, NEW p
  PROVE  p \in Places(t, from, w) <=> p >= from /\ StandsAt(t, w, p)
<1> SUFFICES ASSUME p \in Nat PROVE p \in Places(t, from, w) <=> p >= from /\ StandsAt(t, w, p)
  BY DEF Places, StandsAt
<1> DEFINE s == SubSeq(t, p + 1, p + Len(w))
<1>1. ASSUME p \in from .. Len(t) - Len(w)
      PROVE  s = w <=> \A i \in 1 .. Len(w) : t[p + i] = w[i]
  <2>1. Len(w) \in Nat /\ Len(t) \in Nat /\ p + Len(w) <= Len(t)
    BY <1>1
  <2>2. s \in Seq(A) /\ Len(s) = Len(w) /\ \A i \in 1 .. Len(w) : s[i] = t[p + i]
    BY <2>1
  <2> HIDE DEF s
  <2>3. s = w <=> \A i \in 1 .. Len(w) : s[i] = w[i]
    BY <2>2, SeqEqual
  <2>4. QED BY <2>2, <2>3
<1>2. QED BY <1>1 DEF Places, StandsAt

\* A text shows another that stands somewhere in it.
LEMMA ShowsAt ==
  ASSUME NEW A, NEW t \in Seq(A), NEW w \in Seq(A)
  PROVE  Shows(t, w) <=> \E p : StandsAt(t, w, p)
<1>1. \A p : StandsAt(t, w, p) => p >= 0
  BY DEF StandsAt
<1>2. \A p : p \in Places(t, 0, w) <=> p >= 0 /\ StandsAt(t, w, p)
  BY PlacesOf
<1>3. QED BY <1>1, <1>2 DEF Shows

\* What stands in x and then y, and starts like nothing in x, stands in y.
LEMMA ShowsAfter ==
  ASSUME NEW A, NEW x \in Seq(A), NEW y \in Seq(A), NEW w \in Seq(A), w # <<>>,
         \A i \in 1 .. Len(x) : x[i] # w[1], Shows(x \o y, w)
  PROVE  Shows(y, w)
<1> DEFINE t == x \o y
           n == Len(w)
<1>1. t \in Seq(A) /\ Len(t) = Len(x) + Len(y) /\ Len(x) \in Nat /\ Len(y) \in Nat /\ n \in Nat /\ n >= 1
  OBVIOUS
<1>2. /\ \A i \in 1 .. Len(x) : t[i] = x[i]
      /\ \A i \in 1 .. Len(y) : t[Len(x) + i] = y[i]
  OBVIOUS
<1> HIDE DEF t, n
<1>3. PICK p : StandsAt(t, w, p)
  BY <1>1, ShowsAt DEF t
<1>4. p \in Nat /\ p + n <= Len(t) /\ \A i \in 1 .. n : t[p + i] = w[i]
  BY <1>1, <1>3 DEF StandsAt, n
<1>5. p >= Len(x)
  <2> SUFFICES ASSUME p < Len(x) PROVE FALSE
    BY <1>1, <1>4
  <2>1. p + 1 \in 1 .. Len(x) /\ 1 \in 1 .. n
    BY <1>1, <1>4
  <2>2. t[p + 1] = w[1]
    BY <1>4, <2>1
  <2>3. x[p + 1] = w[1]
    BY <1>2, <2>1, <2>2
  <2>4. QED BY <2>1, <2>3
<1>6. p - Len(x) \in 0 .. Len(y) - n
  BY <1>1, <1>4, <1>5
<1>7. ASSUME NEW i \in 1 .. n PROVE y[(p - Len(x)) + i] = w[i]
  <2>1. (p - Len(x)) + i \in 1 .. Len(y) /\ Len(x) + ((p - Len(x)) + i) = p + i
    BY <1>1, <1>4, <1>5
  <2>2. t[Len(x) + ((p - Len(x)) + i)] = y[(p - Len(x)) + i]
    BY <1>2, <2>1
  <2>3. QED BY <1>4, <2>1, <2>2
<1>8. StandsAt(y, w, p - Len(x))
  BY <1>6, <1>7 DEF StandsAt, n
<1>9. QED BY <1>8, ShowsAt

\* What stands in x and then y, and ends like nothing in y, stands in x.
LEMMA ShowsBefore ==
  ASSUME NEW A, NEW x \in Seq(A), NEW y \in Seq(A), NEW w \in Seq(A), w # <<>>,
         \A i \in 1 .. Len(y) : y[i] # w[Len(w)], Shows(x \o y, w)
  PROVE  Shows(x, w)
<1> DEFINE t == x \o y
           n == Len(w)
<1>1. t \in Seq(A) /\ Len(t) = Len(x) + Len(y) /\ Len(x) \in Nat /\ Len(y) \in Nat /\ n \in Nat /\ n >= 1
  OBVIOUS
<1>2. /\ \A i \in 1 .. Len(x) : t[i] = x[i]
      /\ \A i \in 1 .. Len(y) : t[Len(x) + i] = y[i]
  OBVIOUS
<1> HIDE DEF t, n
<1>3. PICK p : StandsAt(t, w, p)
  BY <1>1, ShowsAt DEF t
<1>4. p \in Nat /\ p + n <= Len(t) /\ \A i \in 1 .. n : t[p + i] = w[i]
  BY <1>1, <1>3 DEF StandsAt, n
<1>5. p + n <= Len(x)
  <2> SUFFICES ASSUME p + n > Len(x) PROVE FALSE
    BY <1>1, <1>4
  <2>1. (p + n) - Len(x) \in 1 .. Len(y) /\ n \in 1 .. n /\ Len(x) + ((p + n) - Len(x)) = p + n
    BY <1>1, <1>4
  <2>2. t[p + n] = w[n]
    BY <1>4, <2>1
  <2>3. t[Len(x) + ((p + n) - Len(x))] = y[(p + n) - Len(x)]
    BY <1>2, <2>1
  <2>4. QED BY <2>1, <2>2, <2>3 DEF n
<1>6. p \in 0 .. Len(x) - n
  BY <1>1, <1>4, <1>5
<1>7. ASSUME NEW i \in 1 .. n PROVE x[p + i] = w[i]
  <2>1. p + i \in 1 .. Len(x)
    BY <1>1, <1>4, <1>5
  <2>2. QED BY <1>2, <1>4, <2>1
<1>8. StandsAt(x, w, p)
  BY <1>6, <1>7 DEF StandsAt, n
<1>9. QED BY <1>8, ShowsAt

\* What a text shows consists of its members.
LEMMA ShownHas ==
  ASSUME NEW A, NEW t \in Seq(A), NEW w \in Seq(A), Shows(t, w), NEW i \in 1 .. Len(w)
  PROVE  Has(t, w[i])
<1>1. PICK p : StandsAt(t, w, p)
  BY ShowsAt
<1>2. p + i \in 1 .. Len(t) /\ t[p + i] = w[i]
  <2>1. Len(w) \in Nat /\ Len(t) \in Nat
    OBVIOUS
  <2>2. QED BY <1>1, <2>1 DEF StandsAt
<1>3. QED BY <1>2 DEF Has

\* A text and its two parts.
Joins(v, t, u) == v = t \o u

\* The parts of a text before and behind a place.
Parted(t, a, x, y) ==
    /\ Len(x) = a /\ Len(y) = Len(t) - a /\ Joins(t, x, y)
    /\ \A i \in 1 .. a : x[i] = t[i]
    /\ \A i \in 1 .. Len(t) - a : y[i] = t[a + i]

\* A list in two parts.
LEMMA TwoParts ==
  ASSUME NEW A, NEW t \in Seq(A), NEW a \in 0 .. Len(t)
  PROVE  \E x \in Seq(A), y \in Seq(A) : Parted(t, a, x, y)
<1> DEFINE x == SubSeq(t, 1, a)
           y == SubSeq(t, a + 1, Len(t))
<1>1. Len(t) \in Nat /\ a \in Nat /\ a <= Len(t)
  OBVIOUS
<1>2. x \in Seq(A) /\ Len(x) = a /\ \A i \in 1 .. a : x[i] = t[i]
  BY <1>1
<1>3. y \in Seq(A) /\ Len(y) = Len(t) - a /\ \A i \in 1 .. Len(t) - a : y[i] = t[a + i]
  BY <1>1
<1> HIDE DEF x, y
<1>4. x \o y \in Seq(A) /\ Len(x \o y) = Len(t)
  BY <1>1, <1>2, <1>3
<1>5. ASSUME NEW i \in 1 .. Len(t) PROVE (x \o y)[i] = t[i]
  <2>1. CASE i <= a
    BY <1>1, <1>2, <1>3, <2>1
  <2>2. CASE i > a
    <3>1. i - a \in 1 .. Len(t) - a /\ a + (i - a) = i
      BY <1>1, <2>2
    <3>2. (x \o y)[i] = y[i - a]
      BY <1>1, <1>2, <1>3, <2>2
    <3>3. QED BY <1>3, <3>1, <3>2
  <2>3. i <= a \/ i > a
    BY <1>1
  <2>4. QED BY <2>1, <2>2, <2>3
<1> DEFINE z == x \o y
<1> HIDE DEF z
<1>6. z = t
  BY <1>4, <1>5, SeqEqual DEF z
<1>7. Joins(t, x, y)
  BY <1>6 DEF Joins, z
<1>8. Parted(t, a, x, y)
  BY <1>2, <1>3, <1>7 DEF Parted
<1>9. QED BY <1>2, <1>3, <1>8

\* find gives the first place of a character.
LEMMA FirstPlace ==
  ASSUME NEW A, NEW t \in Seq(A), NEW c, Has(t, c)
  PROVE  /\ find(t, c, 0) \in 0 .. Len(t) - 1
         /\ \A i \in 1 .. find(t, c, 0) : t[i] # c
<1> DEFINE S == At(t, c, 0, Len(t))
           n == Len(t)
<1>1. n \in Nat
  OBVIOUS
<1>2. PICK k \in 1 .. n : t[k] = c
  BY DEF Has
<1>3. \A i : i \in S <=> i \in 0 .. n - 1 /\ t[i + 1] = c
  BY DEF At
<1>4. k - 1 \in 0 .. n - 1 /\ (k - 1) + 1 = k /\ n - 1 \in Nat
  BY <1>1
<1> HIDE DEF S, n
<1>5. k - 1 \in S
  BY <1>2, <1>3, <1>4
<1>6. S \in SUBSET (0 .. n - 1) /\ S # {}
  BY <1>3, <1>5
<1>7. find(t, c, 0) = Earliest(S)
  BY <1>6 DEF find, S, n
<1> DEFINE e == Earliest(S)
<1>8. e \in S /\ \A j \in S : e <= j
  BY <1>4, <1>6, EarliestOf
<1> HIDE DEF e
<1>9. e \in 0 .. n - 1
  BY <1>6, <1>8
<1>10. ASSUME NEW i \in 1 .. e, t[i] = c PROVE FALSE
  <2>1. i - 1 \in 0 .. n - 1 /\ (i - 1) + 1 = i /\ i - 1 < e
    BY <1>1, <1>9
  <2>2. i - 1 \in S
    BY <1>3, <1>10, <2>1
  <2>3. e <= i - 1
    BY <1>8, <2>2
  <2>4. QED BY <1>9, <2>1, <2>3
<1>11. QED BY <1>7, <1>9, <1>10 DEF e, n

\* rfind gives the last place of a character before another place, or -1.
LEMMA LastPlace ==
  ASSUME NEW A, NEW t \in Seq(A), NEW c, NEW to \in 0 .. Len(t)
  PROVE  /\ rfind(t, c, to) \in -1 .. to - 1
         /\ \A i \in rfind(t, c, to) + 2 .. to : t[i] # c
         /\ Has(t, c) /\ to = Len(t) => rfind(t, c, to) >= 0 /\ t[rfind(t, c, to) + 1] = c
<1> DEFINE S == At(t, c, 0, to)
           r == rfind(t, c, to)
<1>1. to \in Nat /\ to <= Len(t) /\ Len(t) \in Nat
  OBVIOUS
<1>2. \A i : i \in S <=> i \in 0 .. to - 1 /\ t[i + 1] = c
  BY DEF At
<1>3. r = IF S = {} THEN -1 ELSE CHOOSE i \in S : \A j \in S : j <= i
  BY DEF rfind
<1> HIDE DEF S, r
<1>4. CASE S = {}
  <2>1. r = -1
    BY <1>3, <1>4
  <2>2. ASSUME NEW i \in r + 2 .. to, t[i] = c PROVE FALSE
    <3>1. i - 1 \in 0 .. to - 1 /\ (i - 1) + 1 = i
      BY <1>1, <2>1
    <3>2. i - 1 \in S
      BY <1>2, <2>2, <3>1
    <3>3. QED BY <1>4, <3>2
  <2>3. ASSUME Has(t, c), to = Len(t) PROVE FALSE
    <3>1. PICK k \in 1 .. Len(t) : t[k] = c
      BY <2>3 DEF Has
    <3>2. k \in r + 2 .. to
      BY <1>1, <2>1, <2>3
    <3>3. QED BY <2>2, <3>1, <3>2
  <2>4. -1 \in -1 .. to - 1
    BY <1>1
  <2>5. QED BY <2>1, <2>2, <2>3, <2>4 DEF r
<1>5. CASE S # {}
  <2>1. S \in SUBSET (0 .. to)
    BY <1>1, <1>2
  <2>2. \E i \in S : \A j \in S : j <= i
    BY <1>1, <1>5, <2>1, LatestOf
  <2>3. r \in S /\ \A j \in S : j <= r
    BY <1>3, <1>5, <2>2
  <2>4. r \in 0 .. to - 1 /\ t[r + 1] = c
    BY <1>2, <2>3
  <2>5. ASSUME NEW i \in r + 2 .. to, t[i] = c PROVE FALSE
    <3>1. i - 1 \in 0 .. to - 1 /\ (i - 1) + 1 = i /\ r < i - 1
      BY <1>1, <2>4
    <3>2. i - 1 \in S
      BY <1>2, <2>5, <3>1
    <3>3. i - 1 <= r
      BY <2>3, <3>2
    <3>4. QED BY <2>4, <3>1, <3>3
  <2>6. r \in -1 .. to - 1 /\ r >= 0
    BY <1>1, <2>4
  <2>7. QED BY <2>4, <2>5, <2>6 DEF r
<1>6. QED BY <1>4, <1>5

\* A comma found from a place that has none lies behind it.
LEMMA CommaBehind ==
  ASSUME NEW A, NEW t \in Seq(A), NEW c, NEW from \in 0 .. Len(t) - 1, t[from + 1] # c
  PROVE  find(t, c, from) = -1 \/ find(t, c, from) \in from + 1 .. Len(t) - 1
<1> DEFINE S == At(t, c, from, Len(t))
           r == find(t, c, from)
<1>1. from \in Nat /\ Len(t) \in Nat /\ from < Len(t)
  OBVIOUS
<1>2. \A i : i \in S <=> i \in from .. Len(t) - 1 /\ t[i + 1] = c
  BY DEF At
<1>3. r = IF S = {} THEN -1 ELSE Earliest(S)
  BY DEF find
<1> HIDE DEF S, r
<1>4. CASE S = {}
  BY <1>3, <1>4 DEF r
<1>5. CASE S # {}
  <2>1. S \in SUBSET (0 .. Len(t))
    BY <1>1, <1>2
  <2>2. r \in S
    BY <1>1, <1>3, <1>5, <2>1, EarliestOf
  <2>3. r \in from .. Len(t) - 1 /\ t[r + 1] = c
    BY <1>2, <2>2
  <2>4. r # from
    BY <2>3
  <2>5. r \in from + 1 .. Len(t) - 1
    BY <1>1, <2>3, <2>4
  <2>6. QED BY <2>5 DEF r
<1>6. QED BY <1>4, <1>5

\* The context of a word goes from before its first character's first place to behind its last
\* character's last.
LEMMA ContextAround ==
  ASSUME NEW A, NEW t \in Seq(A), NEW w \in Seq(A), w # <<>>, w[1] # Comma, w[Len(w)] # Comma,
         Has(t, w[1]), Has(t, w[Len(w)])
  PROVE  \E a \in 0 .. Len(t), b \in 0 .. Len(t) :
           /\ Context(t, w) = SubSeq(t, a + 1, b)
           /\ \A i \in 1 .. a : t[i] # w[1]
           /\ \A i \in b + 1 .. Len(t) : t[i] # w[Len(w)]
<1> DEFINE n == Len(t)
           c == w[1]
           d == w[Len(w)]
           first == find(t, c, 0)
           final == rfind(t, d, n)
           left == rfind(t, Comma, first)
           right == find(t, Comma, final)
           b == IF right > 0 THEN right ELSE n
<1>1. n \in Nat /\ Head(w) = c /\ Last(w) = d
  BY DEF Last
<1>2. first \in 0 .. n - 1 /\ \A i \in 1 .. first : t[i] # c
  BY FirstPlace
<1>3. final \in 0 .. n - 1 /\ t[final + 1] = d /\ \A i \in final + 2 .. n : t[i] # d
  <2>1. n \in 0 .. Len(t)
    BY <1>1
  <2>2. final \in -1 .. n - 1 /\ final >= 0 /\ t[final + 1] = d /\ \A i \in final + 2 .. n : t[i] # d
    BY <2>1, LastPlace
  <2> HIDE DEF final, n
  <2>3. QED BY <1>1, <2>2
<1> HIDE DEF first, final
<1>4. left \in -1 .. first - 1
  <2>1. first \in 0 .. Len(t)
    BY <1>1, <1>2
  <2>2. QED BY <2>1, LastPlace
<1>5. right = -1 \/ right \in final + 1 .. n - 1
  BY <1>3, CommaBehind
<1> HIDE DEF left, right
<1>6. left + 1 \in 0 .. n /\ left + 1 <= first /\ (left + 1) + 1 = left + 2
  BY <1>1, <1>2, <1>4
<1>7. b \in 0 .. n /\ b >= final + 1
  BY <1>1, <1>3, <1>5
<1>8. Context(t, w) = SubSeq(t, left + 2, b)
  <2>1. Index(t, first) = first /\ Index(t, final) = final
    BY <1>1, <1>2, <1>3 DEF Index
  <2>2. QED BY <1>1, <2>1 DEF Context, first, final, left, right
<1> HIDE DEF b
<1>9. \A i \in 1 .. left + 1 : t[i] # c
  BY <1>1, <1>2, <1>6
<1>10. \A i \in b + 1 .. n : t[i] # d
  BY <1>1, <1>3, <1>7
<1>11. QED BY <1>6, <1>7, <1>8, <1>9, <1>10

\* What is left of a text without symbols is a text.
LEMMA KeptText ==
  ASSUME NEW t \in Strings, NEW S
  PROVE  Select(t, S) \in Strings
<1>1. t \in Seq(Alphabet)
  BY DEF Strings
<1>2. Select(t, S) \in Seq(Alphabet \cap S)
  BY <1>1, SelectType
<1> DEFINE k == Select(t, S)
<1> HIDE DEF k
<1>3. k \in Seq(Alphabet)
  <2>1. k \in Seq(Alphabet \cap S)
    BY <1>2 DEF k
  <2>2. Len(k) \in Nat /\ k = [i \in 1 .. Len(k) |-> k[i]] /\ \A i \in 1 .. Len(k) : k[i] \in Alphabet
    BY <2>1
  <2>3. QED BY <2>2
<1>4. QED BY <1>3 DEF Strings, k

\* What is left of the two parts of a text is what is left of it.
LEMMA KeptParts ==
  ASSUME NEW t \in Strings, NEW u \in Strings, NEW v, Joins(v, t, u), NEW S
  PROVE  Joins(Select(v, S), Select(t, S), Select(u, S))
<1>1. t \in Seq(Alphabet) /\ u \in Seq(Alphabet)
  BY DEF Strings
<1>2. Select(t \o u, S) = Select(t, S) \o Select(u, S)
  BY <1>1, SelectConcat
<1>3. QED BY <1>2 DEF Joins

\* A text with no capital is only freed of symbols.
LEMMA CleanPlain ==
  ASSUME NEW t \in Strings, \A i \in 1 .. Len(t) : t[i] \notin DOMAIN Lower
  PROVE  clean(t) = Select(t, Alphabet \ Symbols)
<1> DEFINE k == Select(t, Alphabet \ Symbols)
<1>1. k \in Seq(Alphabet)
  BY KeptText DEF Strings
<1>2. \A i \in 1 .. Len(k) : Has(t, k[i])
  <2>1. \A x : Has(k, x) => Has(t, x)
    BY SelectMembers DEF Strings
  <2>2. QED BY <2>1 DEF Has
<1>3. \A i \in 1 .. Len(k) : k[i] \notin DOMAIN Lower
  BY <1>2 DEF Has
<1> HIDE DEF k
<1>4. clean(t) = [i \in DOMAIN k |-> IF k[i] \in DOMAIN Lower THEN Lower[k[i]] ELSE k[i]]
  BY DEF clean, k
<1>5. DOMAIN k = 1 .. Len(k) /\ k = [i \in 1 .. Len(k) |-> k[i]]
  BY <1>1
<1>6. clean(t) = k
  BY <1>3, <1>4, <1>5
<1>7. QED BY <1>6 DEF k

\* A cleaned text is one.
LEMMA CleanType ==
  ASSUME NEW t \in Strings
  PROVE  clean(t) \in Strings
<1> DEFINE k == Select(t, Alphabet \ Symbols)
           f(x) == IF x \in DOMAIN Lower THEN Lower[x] ELSE x
<1>1. k \in Seq(Alphabet)
  BY KeptText DEF Strings
<1> HIDE DEF k
<1>2. clean(t) = [i \in DOMAIN k |-> f(k[i])]
  BY DEF clean, k
<1>3. \A i \in 1 .. Len(k) : f(k[i]) \in Alphabet
  BY <1>1, SpeechAssumption, MemberType
<1> HIDE DEF f
<1>4. DOMAIN k = 1 .. Len(k) /\ Len(k) \in Nat
  BY <1>1
<1>5. QED BY <1>2, <1>3, <1>4 DEF Strings

\* The context of a word that a text shows shows the word, when nothing is said in capitals.
LEMMA ContextShows ==
  ASSUME NEW t \in Strings, NEW w \in Strings, w # <<>>, Shows(clean(t), w),
         \A i \in 1 .. Len(t) : t[i] \notin DOMAIN Lower
  PROVE  Shows(clean(Context(t, w)), w)
<1> DEFINE S == Alphabet \ Symbols
           n == Len(t)
           m == Len(w)
           keep(x) == Select(x, S)
<1>1. clean(t) = keep(t) /\ keep(t) \in Strings
  BY CleanPlain, KeptText
<1>2. m \in Nat /\ 1 \in 1 .. m /\ m \in 1 .. m /\ n \in Nat
  BY DEF Strings
<1>3. \A i \in 1 .. m : Has(t, w[i]) /\ w[i] # Comma
  <2> SUFFICES ASSUME NEW i \in 1 .. m PROVE Has(t, w[i]) /\ w[i] # Comma
    OBVIOUS
  <2>1. Has(keep(t), w[i])
    <3> HIDE DEF keep
    <3>1. QED BY <1>1, ShownHas DEF Strings
  <2>2. w[i] \in S /\ Has(t, w[i])
    BY <2>1, SelectMembers DEF Strings
  <2>3. QED BY <2>2, SpeechAssumption
<1>4. PICK a \in 0 .. n, b \in 0 .. n :
        /\ Context(t, w) = SubSeq(t, a + 1, b)
        /\ \A i \in 1 .. a : t[i] # w[1]
        /\ \A i \in b + 1 .. n : t[i] # w[m]
  BY <1>2, <1>3, ContextAround DEF Strings
<1> DEFINE T == Seq(Alphabet)
<1>5. PICK x \in T, y \in T : Parted(t, a, x, y)
  BY TwoParts DEF Strings
<1>6. /\ x \in Strings /\ y \in Strings /\ Len(x) = a /\ Len(y) = n - a /\ Joins(t, x, y)
      /\ \A i \in 1 .. a : x[i] = t[i]
      /\ \A i \in 1 .. n - a : y[i] = t[a + i]
  BY <1>5 DEF Parted, Strings
<1>7. keep(x) \in Strings /\ keep(y) \in Strings /\ keep(t) = keep(x) \o keep(y)
  <2>2. x \in Strings /\ y \in Strings /\ Joins(t, x, y)
    BY <1>6 DEF Strings
  <2>1. Select(x, S) \in Strings /\ Select(y, S) \in Strings
    BY <2>2, KeptText
  <2>3. Joins(Select(t, S), Select(x, S), Select(y, S))
    BY <2>2, KeptParts
  <2>4. Select(t, S) = Select(x, S) \o Select(y, S)
    BY <2>3 DEF Joins
  <2>5. QED BY <2>1, <2>4
<1>8. \A i \in 1 .. Len(keep(x)) : keep(x)[i] # w[1]
  <2>1. ~Has(x, w[1])
    BY <1>4, <1>6 DEF Has
  <2>2. ~Has(keep(x), w[1])
    BY <1>6, <2>1, SelectMembers DEF Strings
  <2>3. QED BY <2>2 DEF Has
<1>9. Shows(keep(y), w)
  <2> DEFINE kx == keep(x)
             ky == keep(y)
  <2>1. kx \in Seq(Alphabet) /\ ky \in Seq(Alphabet) /\ w \in Seq(Alphabet) /\ w # <<>>
    BY <1>1, <1>7 DEF Strings
  <2>2. Shows(kx \o ky, w) /\ \A i \in 1 .. Len(kx) : kx[i] # w[1]
    BY <1>1, <1>7, <1>8
  <2> HIDE DEF kx, ky
  <2>3. Shows(ky, w)
    BY <2>1, <2>2, ShowsAfter
  <2>4. QED BY <2>3 DEF ky
<1>10. b > a
  <2> SUFFICES ASSUME b <= a PROVE FALSE
    BY <1>2
  <2>1. \A i \in 1 .. n - a : a + i \in b + 1 .. n
    BY <1>2
  <2>2. \A i \in 1 .. Len(y) : y[i] # w[m]
    BY <1>4, <1>6, <2>1
  <2>3. ~Has(y, w[m])
    BY <2>2 DEF Has
  <2>4. ~Has(keep(y), w[m])
    BY <1>6, <2>3, SelectMembers DEF Strings
  <2>5. Has(keep(y), w[m])
    <3> HIDE DEF keep
    <3>1. QED BY <1>2, <1>7, <1>9, ShownHas DEF Strings
  <2>6. QED BY <2>4, <2>5
<1>11. PICK c \in T, d \in T : Parted(y, b - a, c, d)
  <2>1. b - a \in 0 .. Len(y) /\ y \in Seq(Alphabet)
    BY <1>2, <1>6, <1>10 DEF Strings
  <2>2. QED BY <2>1, TwoParts
<1>12. /\ c \in Strings /\ d \in Strings /\ Len(c) = b - a /\ Len(d) = Len(y) - (b - a) /\ Joins(y, c, d)
       /\ \A i \in 1 .. b - a : c[i] = y[i]
       /\ \A i \in 1 .. Len(y) - (b - a) : d[i] = y[(b - a) + i]
  BY <1>11 DEF Parted, Strings
<1>13. keep(c) \in Strings /\ keep(d) \in Strings /\ keep(y) = keep(c) \o keep(d)
  <2>2. c \in Strings /\ d \in Strings /\ Joins(y, c, d)
    BY <1>12 DEF Strings
  <2>1. Select(c, S) \in Strings /\ Select(d, S) \in Strings
    BY <2>2, KeptText
  <2>3. Joins(Select(y, S), Select(c, S), Select(d, S))
    BY <2>2, KeptParts
  <2>4. Select(y, S) = Select(c, S) \o Select(d, S)
    BY <2>3 DEF Joins
  <2>5. QED BY <2>1, <2>4
<1>14. \A i \in 1 .. Len(keep(d)) : keep(d)[i] # w[m]
  <2>1. ASSUME NEW i \in 1 .. Len(d) PROVE d[i] # w[m]
    <3>1. (b - a) + i \in 1 .. n - a /\ a + ((b - a) + i) \in b + 1 .. n
      BY <1>2, <1>6, <1>10, <1>12
    <3>2. d[i] = y[(b - a) + i] /\ y[(b - a) + i] = t[a + ((b - a) + i)]
      BY <1>6, <1>12, <3>1
    <3>3. QED BY <1>4, <3>1, <3>2
  <2>2. ~Has(d, w[m])
    BY <2>1 DEF Has
  <2>3. ~Has(keep(d), w[m])
    BY <1>12, <2>2, SelectMembers DEF Strings
  <2>4. QED BY <2>3 DEF Has
<1>15. Shows(keep(c), w)
  <2> DEFINE kc == keep(c)
             kd == keep(d)
  <2>1. kc \in Seq(Alphabet) /\ kd \in Seq(Alphabet) /\ w \in Seq(Alphabet) /\ w # <<>>
    BY <1>1, <1>13 DEF Strings
  <2>2. Shows(kc \o kd, w) /\ \A i \in 1 .. Len(kd) : kd[i] # w[Len(w)]
    BY <1>9, <1>13, <1>14
  <2> HIDE DEF kc, kd
  <2>3. Shows(kc, w)
    BY <2>1, <2>2, ShowsBefore
  <2>4. QED BY <2>3 DEF kc
<1>16. c = Context(t, w) /\ \A i \in 1 .. Len(c) : c[i] \notin DOMAIN Lower
  <2>1. SubSeq(t, a + 1, b) \in Seq(Alphabet) /\ Len(SubSeq(t, a + 1, b)) = b - a
        /\ \A i \in 1 .. b - a : SubSeq(t, a + 1, b)[i] = t[a + i]
    BY <1>2, <1>10 DEF Strings
  <2>2. ASSUME NEW i \in 1 .. b - a PROVE c[i] = t[a + i] /\ a + i \in 1 .. n
    <3>1. i \in 1 .. n - a /\ a + i \in 1 .. n
      BY <1>2, <1>10
    <3>2. c[i] = y[i] /\ y[i] = t[a + i]
      BY <1>6, <1>12, <3>1
    <3>3. QED BY <3>1, <3>2
  <2>3. c = SubSeq(t, a + 1, b)
    BY <1>12, <2>1, <2>2, SeqEqual DEF Strings
  <2>4. QED BY <1>4, <1>12, <2>2, <2>3
<1>17. clean(c) = keep(c)
  <2>1. c \in Strings /\ \A i \in 1 .. Len(c) : c[i] \notin DOMAIN Lower
    BY <1>12, <1>16
  <2>2. clean(c) = Select(c, Alphabet \ Symbols)
    BY <2>1, CleanPlain
  <2>3. QED BY <2>2
<1>18. QED BY <1>15, <1>16, <1>17

-----------------------------------------------------------------------------
(* What the rules were judged by *)

\* What was transcribed.
Transcribed ==
    \/ dialogue = Silence
    \/ /\ dialogue = Dialogue(task.said, task.offset)
       /\ \A i \in DOMAIN task.said : ~Unreadable(task.said[i])

\* The results of the two modules are those of the dialogue, and the report judges by them.
SpeechInv ==
    /\ task \in Tasks /\ Transcribed
    /\ phase \in {"speech", "rules", "done", "failed"}
    /\ phase = "speech" => matched = None /\ detected = None
    /\ matched # None => matched = <<_short_match(dialogue, task.scripts)>>
    /\ detected # None =>
         /\ ~DetectionRaises(dialogue, task.banned)
         /\ detected = <<[n \in DOMAIN task.banned |-> DetectedWords(dialogue, task.banned[n].words)]>>
    /\ phase = "done" =>
         /\ matched # None
         /\ passed.scripts = {n \in DOMAIN task.scripts : script_passed(task.scripts[n])}

\* It holds at the start.
LEMMA SpeechInvInit ==
  SpeechInit => SpeechInv
BY DEF SpeechInit, SpeechInv, Transcribed, NoDialogue

\* Every step keeps it.
LEMMA SpeechInvNext ==
  SpeechInv /\ [SpeechNext]_speech_vars => SpeechInv'
<1> SUFFICES ASSUME SpeechInv, [SpeechNext]_speech_vars PROVE SpeechInv'
  OBVIOUS
<1>1. CASE Transcribe
  <2>1. matched = None /\ detected = None
    BY <1>1 DEF SpeechInv, Transcribe
  <2>2. QED BY <1>1, <2>1 DEF SpeechInv, Transcribed, Transcribe
<1>2. CASE HearNothing
  <2>1. matched = None /\ detected = None
    BY <1>2 DEF SpeechInv, HearNothing
  <2>2. QED BY <1>2, <2>1 DEF SpeechInv, Transcribed, HearNothing
<1>3. CASE SpeechFails
  BY <1>3 DEF SpeechInv, Transcribed, SpeechFails
<1>4. CASE MatchScripts
  BY <1>4 DEF SpeechInv, Transcribed, MatchScripts
<1>5. CASE DetectBannedWords
  BY <1>5 DEF SpeechInv, Transcribed, DetectBannedWords
<1>6. CASE DetectionFails
  BY <1>6 DEF SpeechInv, Transcribed, DetectionFails
<1>7. CASE Report
  BY <1>7 DEF SpeechInv, Transcribed, Report, script_passed
<1>8. CASE UNCHANGED speech_vars
  BY <1>8 DEF SpeechInv, Transcribed, speech_vars, script_passed
<1>9. QED
  BY <1>1, <1>2, <1>3, <1>4, <1>5, <1>6, <1>7, <1>8 DEF SpeechNext

\* The texts of the dialogue are those the service gave.
LEMMA DialogueTexts ==
  ASSUME NEW t \in Tasks
  PROVE  LET d == Dialogue(t.said, t.offset) IN
           /\ DOMAIN d.utterances = 1 .. Len(t.said)
           /\ \A i \in 1 .. Len(t.said) :
                d.utterances[i].text = t.said[i].text /\ d.utterances[i].text \in Strings
<1> DEFINE d == Dialogue(t.said, t.offset)
<1>1. t.said \in Seq(Utterances)
  BY SpeechAssumption
<1>2. DOMAIN d.utterances = 1 .. Len(t.said)
      /\ \A i \in 1 .. Len(t.said) : d.utterances[i] = Utterance(t.said[i], t.offset)
  BY <1>1 DEF Dialogue
<1>3. ASSUME NEW i \in 1 .. Len(t.said)
      PROVE  Utterance(t.said[i], t.offset).text = t.said[i].text /\ t.said[i].text \in Strings
  <2>1. t.said[i] \in Utterances
    BY <1>1
  <2> DEFINE u == t.said[i]
  <2> HIDE DEF u
  <2>2. u \in Utterances
    BY <2>1 DEF u
  <2>3. u = [text |-> u.text, words |-> u.words, start |-> u.start, end |-> u.end] /\ u.text \in Strings
    BY <2>2 DEF Utterances
  <2>4. ASSUME NEW words PROVE Later([u EXCEPT !.words = words], t.offset).text = u.text
    BY <2>3 DEF Later
  <2>5. Utterance(u, t.offset).text = u.text
    BY <2>4 DEF Utterance
  <2>6. QED BY <2>3, <2>5 DEF u
<1> HIDE DEF d
<1>4. QED BY <1>2, <1>3 DEF d

\* The invariant gives the property.
LEMMA ShownInv ==
  SpeechInv => BannedShown
<1> SUFFICES ASSUME SpeechInv, detected # None,
                    NEW n \in DOMAIN task.banned, NEW hit \in detected[1][n],
                    \A i \in DOMAIN dialogue.utterances :
                      Characters(dialogue.utterances[i].text) \cap DOMAIN Lower = {}
             PROVE  Shows(clean(hit.text), clean(hit.word))
  BY DEF BannedShown
<1> DEFINE words == task.banned[n].words
<1>1. hit \in DetectedWords(dialogue, words)
  <2>1. detected = <<[m \in DOMAIN task.banned |-> DetectedWords(dialogue, task.banned[m].words)]>>
    BY DEF SpeechInv
  <2>2. detected[1] = [m \in DOMAIN task.banned |-> DetectedWords(dialogue, task.banned[m].words)]
    BY <2>1
  <2>3. QED BY <2>2
<1>2. PICK i \in DOMAIN dialogue.utterances, word \in words :
        Shows(clean(dialogue.utterances[i].text), clean(word))
          /\ hit = Detected(dialogue.utterances[i], word)
  BY <1>1 DEF DetectedWords, Heard
<1> DEFINE t == dialogue.utterances[i].text
           w == clean(word)
<1>3. hit.word = word /\ hit.text = Context(t, w)
  BY <1>2 DEF Detected
<1>4. task \in Tasks
  BY DEF SpeechInv
<1>5. t \in Strings
  <2>1. dialogue = Dialogue(task.said, task.offset)
    <3>1. dialogue # Silence
      BY <1>2 DEF Silence
    <3>2. QED BY <3>1 DEF SpeechInv, Transcribed
  <2>2. QED BY <1>2, <1>4, <2>1, DialogueTexts
<1>6. word \in Strings
  <2>1. task.banned \in Seq([id: RuleIds, words: SUBSET Strings])
    BY <1>4, SpeechAssumption
  <2> DEFINE rules == task.banned
             R == [id: RuleIds, words: SUBSET Strings]
  <2> HIDE DEF rules, R
  <2>2. rules \in Seq(R) /\ n \in DOMAIN rules
    BY <2>1 DEF rules, R
  <2>3. rules[n] \in R
    BY <2>2
  <2>4. rules[n].words \subseteq Strings
    BY <2>3 DEF R
  <2>5. QED BY <1>2, <2>4 DEF rules
<1>7. w \in Strings
  BY <1>6, CleanType
<1>8. w # <<>>
  <2>1. ~DetectionRaises(dialogue, task.banned)
    BY DEF SpeechInv
  <2>2. dialogue.utterances # <<>>
    BY <1>2
  <2>3. QED BY <1>2, <2>1, <2>2 DEF DetectionRaises
<1>9. \A j \in 1 .. Len(t) : t[j] \notin DOMAIN Lower
  <2>1. Characters(t) \cap DOMAIN Lower = {}
    BY <1>2
  <2>2. DOMAIN t = 1 .. Len(t)
    BY <1>5 DEF Strings
  <2>3. QED BY <2>1, <2>2 DEF Characters
<1>10. Shows(clean(t), w)
  BY <1>2
<1> HIDE DEF t, w
<1>11. Shows(clean(Context(t, w)), w)
  BY <1>5, <1>7, <1>8, <1>9, <1>10, ContextShows
<1>12. QED BY <1>3, <1>11 DEF w

\* The text a banned word is reported with shows the word.
THEOREM WordsShown ==
  SpeechSpec => []BannedShown
<1>1. QED BY SpeechInvInit, SpeechInvNext, ShownInv, PTL DEF SpeechSpec

-----------------------------------------------------------------------------
(* Strings put together *)

\* A list of what has a text.
Parts(parts) == AList(parts) /\ \A i \in 1 .. Len(parts) : parts[i].text \in Strings

\* f is the text of the parts, part by part.
TextAlong(f, parts) ==
    f[0] = <<>> /\ \A i \in 1 .. Len(parts) : f[i] = f[i - 1] \o parts[i].text

\* Strings put together are one.
LEMMA TextJoined ==
  ASSUME NEW t \in Strings, NEW u \in Strings
  PROVE  t \o u \in Strings /\ <<>> \in Strings /\ t \o <<>> = t /\ <<>> \o t = t
BY DEF Strings

\* The loop of TextOf goes by turns.
LEMMA TextSteps ==
  ASSUME NEW parts, Parts(parts)
  PROVE  \E f \in [0 .. Len(parts) -> Strings] : TextOf(parts) = f[Len(parts)] /\ TextAlong(f, parts)
<1> DEFINE n == Len(parts)
           T == Strings
           step(x, i) == x \o parts[i].text
           Eq(f) == f = [i \in 0 .. n |-> IF i = 0 THEN <<>> ELSE f[i - 1] \o parts[i].text]
           k == CHOOSE f : Eq(f)
           G == [i \in 1 .. n |-> [x \in T |-> step(x, i)]]
<1>1. TextOf(parts) = k[n]
  BY DEF TextOf
<1>2. n \in Nat /\ <<>> \in T /\ \A x \in T, i \in 1 .. n : step(x, i) \in T
  <2>1. n \in Nat /\ \A i \in 1 .. n : parts[i].text \in Strings
    BY ListDomain DEF Parts
  <2>2. <<>> \in Strings
    BY DEF Strings
  <2>3. QED BY <2>1, <2>2, TextJoined
<1> HIDE DEF T
<1>3. G \in [1 .. n -> [T -> T]] /\ \A x \in T, i \in 1 .. n : G[i][x] = step(x, i)
  BY <1>2
<1> HIDE DEF G, n
<1>4. PICK f \in [0 .. n -> T] : Iterates(f, n, <<>>, G)
  BY <1>2, <1>3, Iteration
<1> HIDE DEF step
<1>5. \A i \in 1 .. n : f[i - 1] \in T /\ G[i][f[i - 1]] = step(f[i - 1], i)
  <2>1. \A i \in 1 .. n : f[i - 1] \in T
    BY <1>2
  <2>2. QED BY <1>3, <2>1
<1>6. Eq(f)
  <2>1. f = [i \in 0 .. n |-> IF i = 0 THEN <<>> ELSE G[i][f[i - 1]]]
    BY <1>4 DEF Iterates
  <2>2. ASSUME NEW i \in 0 .. n PROVE f[i] = IF i = 0 THEN <<>> ELSE step(f[i - 1], i)
    <3>1. i # 0 => i \in 1 .. n
      BY <1>2
    <3>2. f[i] = IF i = 0 THEN <<>> ELSE G[i][f[i - 1]]
      BY <2>1
    <3>3. QED BY <1>5, <3>1, <3>2
  <2>3. f = [i \in 0 .. n |-> IF i = 0 THEN <<>> ELSE step(f[i - 1], i)]
    BY <2>2
  <2>4. QED BY <2>3 DEF step
<1>7. Eq(k)
  BY <1>6
<1> HIDE DEF k
<1>8. k = [i \in 0 .. n |-> IF i = 0 THEN <<>> ELSE step(k[i - 1], i)]
  BY <1>7 DEF step
<1>9. k[0] = <<>> /\ \A i \in 1 .. n : k[i] = step(k[i - 1], i)
  <2>1. \A i \in 0 .. n : k[i] = IF i = 0 THEN <<>> ELSE step(k[i - 1], i)
    BY <1>8
  <2>2. 0 \in 0 .. n /\ \A i \in 1 .. n : i \in 0 .. n /\ i # 0
    BY <1>2
  <2>3. QED BY <2>1, <2>2
<1>10. k = [i \in 0 .. n |-> k[i]]
  BY <1>8
<1>11. k \in [0 .. n -> T]
  <2>1. k[0] \in T /\ \A i \in 1 .. n : k[i - 1] \in T => k[i] \in T
    BY <1>2, <1>9
  <2>2. QED BY <1>2, <1>10, <2>1, StaysIn
<1>12. TextAlong(k, parts)
  BY <1>9 DEF TextAlong, step, n
<1>13. QED BY <1>1, <1>11, <1>12 DEF n, T

\* Nothing else goes that way.
LEMMA TextUnique ==
  ASSUME NEW parts, Parts(parts), NEW g, TextAlong(g, parts)
  PROVE  TextOf(parts) = g[Len(parts)]
<1> DEFINE n == Len(parts)
<1>1. n \in Nat
  BY ListDomain DEF Parts
<1>2. PICK f \in [0 .. n -> Strings] : TextOf(parts) = f[n] /\ TextAlong(f, parts)
  BY TextSteps
<1> DEFINE S == {i \in 0 .. n : f[i] = g[i]}
<1>3. 0 \in S
  BY <1>1, <1>2 DEF TextAlong
<1>4. ASSUME NEW i \in 1 .. n, i - 1 \in S PROVE i \in S
  <2>1. f[i] = f[i - 1] \o parts[i].text /\ g[i] = g[i - 1] \o parts[i].text
    BY <1>2 DEF TextAlong
  <2>2. f[i - 1] = g[i - 1] /\ i \in 0 .. n
    BY <1>1, <1>4
  <2>3. QED BY <2>1, <2>2
<1> HIDE DEF S, n
<1>5. 0 .. n \subseteq S
  BY <1>1, <1>3, <1>4, UpTo
<1>6. n \in S
  BY <1>1, <1>5
<1>7. QED BY <1>2, <1>6 DEF S, n

\* The text of nothing, of one part more, and its type.
LEMMA TextEmpty == TextOf(<<>>) = <<>>
<1>1. Parts(<<>>)
  <2>1. <<>> \in Seq({}) /\ Len(<<>>) = 0 /\ Range(<<>>) = {}
    BY DEF Range
  <2>2. QED BY <2>1 DEF Parts, AList
<1> DEFINE g == [i \in {0} |-> <<>>]
<1>2. TextAlong(g, <<>>)
  BY DEF TextAlong
<1>3. QED BY <1>1, <1>2, TextUnique

\* Its type.
LEMMA TextType ==
  ASSUME NEW parts, Parts(parts)
  PROVE  TextOf(parts) \in Strings
<1>1. Len(parts) \in Nat
  BY ListDomain DEF Parts
<1>2. PICK f \in [0 .. Len(parts) -> Strings] : TextOf(parts) = f[Len(parts)]
  BY TextSteps
<1>3. QED BY <1>1, <1>2

\* One part more.
LEMMA TextAppend ==
  ASSUME NEW s, Parts(s), NEW x, x.text \in Strings
  PROVE  Parts(Append(s, x)) /\ TextOf(Append(s, x)) = TextOf(s) \o x.text
<1> DEFINE a == Append(s, x)
           n == Len(s)
<1>1. /\ AList(s) /\ AList(a) /\ n \in Nat /\ Len(a) = n + 1
      /\ a[n + 1] = x /\ \A i \in 1 .. n : a[i] = s[i]
  BY ListAppend DEF Parts
<1> HIDE DEF a, n
<1>2. Parts(a)
  <2> SUFFICES ASSUME NEW i \in 1 .. n + 1 PROVE a[i].text \in Strings
    BY <1>1 DEF Parts
  <2>1. CASE i = n + 1
    BY <1>1, <2>1
  <2>2. CASE i # n + 1
    <3>1. i \in 1 .. n
      BY <1>1, <2>2
    <3>2. QED BY <1>1, <3>1 DEF Parts, n
  <2>3. QED BY <2>1, <2>2
<1>3. PICK f \in [0 .. n + 1 -> Strings] : TextOf(a) = f[n + 1] /\ TextAlong(f, a)
  BY <1>1, <1>2, TextSteps
<1>4. TextAlong(f, s)
  <2>1. f[0] = <<>>
    BY <1>3 DEF TextAlong
  <2>2. ASSUME NEW i \in 1 .. n PROVE f[i] = f[i - 1] \o s[i].text
    <3>1. i \in 1 .. Len(a) /\ a[i] = s[i]
      BY <1>1
    <3>2. f[i] = f[i - 1] \o a[i].text
      BY <1>3, <3>1 DEF TextAlong
    <3>3. QED BY <3>1, <3>2
  <2>3. QED BY <2>1, <2>2 DEF TextAlong, n
<1>5. TextOf(s) = f[n]
  BY <1>4, TextUnique DEF n
<1>6. f[n + 1] = f[n] \o x.text
  <2>1. n + 1 \in 1 .. Len(a) /\ (n + 1) - 1 = n
    BY <1>1
  <2>2. f[n + 1] = f[(n + 1) - 1] \o a[n + 1].text
    BY <1>3, <2>1 DEF TextAlong
  <2>3. QED BY <1>1, <2>1, <2>2
<1>7. QED BY <1>2, <1>3, <1>5, <1>6 DEF a

\* Two lists of parts.
LEMMA TextConcat ==
  ASSUME NEW A, \A x \in A : x.text \in Strings, NEW s \in Seq(A), NEW t \in Seq(A)
  PROVE  Parts(s) /\ Parts(t) /\ Parts(s \o t) /\ TextOf(s \o t) = TextOf(s) \o TextOf(t)
<1>1. \A u \in Seq(A) : Parts(u)
  <2> SUFFICES ASSUME NEW u \in Seq(A) PROVE Parts(u)
    OBVIOUS
  <2>1. AList(u)
    BY ListType
  <2>2. \A i \in 1 .. Len(u) : u[i] \in A
    OBVIOUS
  <2>3. QED BY <2>1, <2>2 DEF Parts
<1> DEFINE P == {u \in Seq(A) : TextOf(s \o u) = TextOf(s) \o TextOf(u)}
<1>2. <<>> \in P
  <2>1. <<>> \in Seq(A) /\ s \o <<>> = s
    OBVIOUS
  <2>2. TextOf(s) \o TextOf(<<>>) = TextOf(s)
    <3>1. TextOf(s) \in Strings
      BY <1>1, TextType
    <3>2. QED BY <3>1, TextEmpty, TextJoined
  <2>3. TextOf(s \o <<>>) = TextOf(s) \o TextOf(<<>>)
    BY <2>1, <2>2
  <2>4. QED BY <2>1, <2>3
<1>3. ASSUME NEW u \in Seq(A), NEW x \in A, u \in P PROVE Append(u, x) \in P
  <2>1. Append(u, x) \in Seq(A) /\ s \o u \in Seq(A)
    OBVIOUS
  <2>2. s \o Append(u, x) = Append(s \o u, x)
    OBVIOUS
  <2> DEFINE su == s \o u
             a == Append(u, x)
             sa == s \o Append(u, x)
  <2>3. TextOf(su) = TextOf(s) \o TextOf(u)
    BY <1>3
  <2>4. TextOf(a) = TextOf(u) \o x.text
    BY <1>1, TextAppend
  <2>5. TextOf(Append(su, x)) = TextOf(su) \o x.text
    BY <1>1, <2>1, TextAppend
  <2>6. TextOf(s) \in Strings /\ TextOf(u) \in Strings /\ x.text \in Strings
    BY <1>1, TextType
  <2>7. (TextOf(s) \o TextOf(u)) \o x.text = TextOf(s) \o (TextOf(u) \o x.text)
    <3> DEFINE p == TextOf(s)
               q == TextOf(u)
               r == x.text
    <3>1. p \in Seq(Alphabet) /\ q \in Seq(Alphabet) /\ r \in Seq(Alphabet)
      BY <2>6 DEF Strings
    <3> HIDE DEF p, q, r
    <3>2. (p \o q) \o r = p \o (q \o r)
      BY <3>1
    <3>3. QED BY <3>2 DEF p, q, r
  <2>8. sa = Append(su, x)
    BY <2>2
  <2> HIDE DEF su, a, sa
  <2>9. TextOf(sa) = TextOf(s) \o TextOf(a)
    BY <2>3, <2>4, <2>5, <2>7, <2>8
  <2>10. QED BY <2>1, <2>9 DEF sa, a
<1> HIDE DEF P
<1>4. Seq(A) \subseteq P
  BY <1>2, <1>3, Growing
<1>5. t \in P /\ s \o t \in Seq(A)
  BY <1>4
<1>6. QED BY <1>1, <1>5 DEF P

\* A text depends on the texts of its parts alone.
LEMMA TextSame ==
  ASSUME NEW s, Parts(s), NEW t, Parts(t), Len(s) = Len(t),
         \A i \in 1 .. Len(s) : s[i].text = t[i].text
  PROVE  TextOf(s) = TextOf(t)
<1>1. PICK f \in [0 .. Len(s) -> Strings] : TextOf(s) = f[Len(s)] /\ TextAlong(f, s)
  BY TextSteps
<1>2. TextAlong(f, t)
  BY <1>1 DEF TextAlong
<1>3. QED BY <1>1, <1>2, TextUnique

\* The characters of a text are those of its parts.
LEMMA TextCharacters ==
  ASSUME NEW parts, Parts(parts), NEW c
  PROVE  c \in Characters(TextOf(parts))
           <=> \E i \in 1 .. Len(parts) : c \in Characters(parts[i].text)
<1> DEFINE n == Len(parts)
<1>1. n \in Nat
  BY ListDomain DEF Parts
<1>2. PICK f \in [0 .. n -> Strings] : TextOf(parts) = f[n] /\ TextAlong(f, parts)
  BY TextSteps
<1> DEFINE S == {m \in 0 .. n : c \in Characters(f[m])
                                  <=> \E i \in 1 .. m : c \in Characters(parts[i].text)}
<1>3. 0 \in S
  BY <1>1, <1>2 DEF TextAlong, Characters
<1>4. \A t \in Strings, u \in Strings : c \in Characters(t \o u) <=> c \in Characters(t) \/ c \in Characters(u)
  <2> SUFFICES ASSUME NEW t \in Strings, NEW u \in Strings
               PROVE  c \in Characters(t \o u) <=> c \in Characters(t) \/ c \in Characters(u)
    OBVIOUS
  <2>1. \A s \in Strings : c \in Characters(s) <=> Has(s, c)
    BY DEF Strings, Characters, Has
  <2>2. Has(t \o u, c) <=> Has(t, c) \/ Has(u, c)
    BY HasConcat DEF Strings
  <2>3. QED BY <2>1, <2>2, TextJoined
<1>5. ASSUME NEW m \in 1 .. n, m - 1 \in S PROVE m \in S
  <2>1. f[m] = f[m - 1] \o parts[m].text
    BY <1>2 DEF TextAlong
  <2>2. f[m - 1] \in Strings /\ parts[m].text \in Strings
    BY <1>1 DEF Parts
  <2>3. c \in Characters(f[m]) <=> c \in Characters(f[m - 1]) \/ c \in Characters(parts[m].text)
    BY <1>4, <2>1, <2>2
  <2>4. 1 .. m = (1 .. m - 1) \cup {m} /\ m \in 0 .. n
    BY <1>1
  <2>5. c \in Characters(f[m - 1]) <=> \E i \in 1 .. m - 1 : c \in Characters(parts[i].text)
    BY <1>5
  <2>6. QED BY <2>3, <2>4, <2>5
<1> HIDE DEF S, n
<1>6. 0 .. n \subseteq S
  BY <1>1, <1>3, <1>5, UpTo
<1>7. n \in S
  BY <1>1, <1>6
<1>8. QED BY <1>2, <1>7 DEF S, n

-----------------------------------------------------------------------------
(* What the rules hit *)

\* What has been hit of the pieces.
HitsIn(D) == [used: SUBSET D, hits: Seq(D)]

\* The places of the pieces.
AllOf(D, pieces) == DOMAIN pieces = D /\ \E n \in Nat : D = 1 .. n

\* What a sentence does: nothing when no free piece is like it, else it takes one.
Takes(next, acc, pieces, D, sentence) ==
    \/ next = acc /\ \A p \in D : Alike(sentence, pieces[p]) => p \in acc.used
    \/ \E p \in D \ acc.used : next = Hitting(acc.used \cup {p}, Append(acc.hits, p))

\* A sentence hits a free piece that is like it, or nothing when there is none.
LEMMA HitStep ==
  ASSUME NEW pieces, NEW D, AllOf(D, pieces),
         NEW acc \in HitsIn(D), NEW sentence
  PROVE  /\ Hit(pieces, acc, sentence) \in HitsIn(D)
         /\ Takes(Hit(pieces, acc, sentence), acc, pieces, D, sentence)
<1> DEFINE free == {i \in DOMAIN pieces \ acc.used : Alike(sentence, pieces[i])}
           e == Earliest(free)
<1> PICK n \in Nat : D = 1 .. n /\ DOMAIN pieces = 1 .. n
  BY DEF AllOf
<1>1. Hit(pieces, acc, sentence) =
        IF free = {} THEN acc ELSE Hitting(acc.used \cup {e}, Append(acc.hits, e))
  BY DEF Hit
<1>2. CASE free = {}
  <2>1. \A p \in D : Alike(sentence, pieces[p]) => p \in acc.used
    BY <1>2
  <2>2. QED BY <1>1, <1>2, <2>1 DEF Takes
<1>3. CASE free # {}
  <2>1. free \in SUBSET (0 .. n)
    OBVIOUS
  <2>2. e \in free
    <3> HIDE DEF free
    <3>1. QED BY <1>3, <2>1, EarliestOf
  <2>3. e \in D \ acc.used
    BY <2>2
  <2>4. acc.used \in SUBSET D /\ acc.hits \in Seq(D)
    BY DEF HitsIn
  <2> DEFINE after == Hitting(acc.used \cup {e}, Append(acc.hits, e))
  <2>5. Hit(pieces, acc, sentence) = after
    BY <1>1, <1>3
  <2> HIDE DEF e, free
  <2>6. after \in HitsIn(D)
    <3>1. acc.used \cup {e} \in SUBSET D /\ Append(acc.hits, e) \in Seq(D)
      BY <2>3, <2>4
    <3>2. QED BY <3>1 DEF HitsIn, Hitting
  <2>7. QED BY <2>3, <2>5, <2>6 DEF Takes, after
<1>4. QED BY <1>2, <1>3

\* f is what is hit, sentence by sentence.
HitsBy(f, pieces, used, script) ==
    /\ f[0] = Hitting(used, <<>>)
    /\ \A i \in 1 .. Len(script) : f[i] = Hit(pieces, f[i - 1], script[i])

\* The loop over the sentences of a script goes by turns.
LEMMA HitsSteps ==
  ASSUME NEW pieces, NEW D, AllOf(D, pieces),
         NEW used \in SUBSET D, NEW script, Len(script) \in Nat
  PROVE  \E f \in [0 .. Len(script) -> HitsIn(D)] :
           HitsOf(pieces, used, script) = f[Len(script)] /\ HitsBy(f, pieces, used, script)
<1> DEFINE m == Len(script)
           T == HitsIn(D)
           a == Hitting(used, <<>>)
           step(x, i) == Hit(pieces, x, script[i])
           Eq(f) == f = [i \in 0 .. m |-> IF i = 0 THEN Hitting(used, <<>>)
                                          ELSE Hit(pieces, f[i - 1], script[i])]
           k == CHOOSE f : Eq(f)
           G == [i \in 1 .. m |-> [x \in T |-> step(x, i)]]
<1>1. HitsOf(pieces, used, script) = k[m]
  BY DEF HitsOf
<1>2. m \in Nat /\ a \in T /\ \A x \in T, i \in 1 .. m : step(x, i) \in T
  <2>1. a \in T
    BY DEF Hitting, HitsIn
  <2>2. \A x \in T, i \in 1 .. m : step(x, i) \in T
    BY HitStep
  <2>3. QED BY <2>1, <2>2
<1> HIDE DEF T, a
<1>3. G \in [1 .. m -> [T -> T]] /\ \A x \in T, i \in 1 .. m : G[i][x] = step(x, i)
  BY <1>2
<1> HIDE DEF G, m
<1>4. PICK f \in [0 .. m -> T] : Iterates(f, m, a, G)
  BY <1>2, <1>3, Iteration
<1> HIDE DEF step
<1>5. \A i \in 1 .. m : f[i - 1] \in T /\ G[i][f[i - 1]] = step(f[i - 1], i)
  <2>1. \A i \in 1 .. m : f[i - 1] \in T
    BY <1>2
  <2>2. QED BY <1>3, <2>1
<1>6. Eq(f)
  <2>1. f = [i \in 0 .. m |-> IF i = 0 THEN a ELSE G[i][f[i - 1]]]
    BY <1>4 DEF Iterates
  <2>2. ASSUME NEW i \in 0 .. m PROVE f[i] = IF i = 0 THEN a ELSE step(f[i - 1], i)
    <3>1. i # 0 => i \in 1 .. m
      BY <1>2
    <3>2. f[i] = IF i = 0 THEN a ELSE G[i][f[i - 1]]
      BY <2>1
    <3>3. QED BY <1>5, <3>1, <3>2
  <2>3. f = [i \in 0 .. m |-> IF i = 0 THEN a ELSE step(f[i - 1], i)]
    BY <2>2
  <2>4. QED BY <2>3 DEF step, a
<1>7. Eq(k)
  BY <1>6
<1> HIDE DEF k
<1>8. k = [i \in 0 .. m |-> IF i = 0 THEN a ELSE step(k[i - 1], i)]
  BY <1>7 DEF step, a
<1>9. k[0] = a /\ \A i \in 1 .. m : k[i] = step(k[i - 1], i)
  <2>1. \A i \in 0 .. m : k[i] = IF i = 0 THEN a ELSE step(k[i - 1], i)
    BY <1>8
  <2>2. 0 \in 0 .. m /\ \A i \in 1 .. m : i \in 0 .. m /\ i # 0
    BY <1>2
  <2>3. QED BY <2>1, <2>2
<1>10. k = [i \in 0 .. m |-> k[i]]
  BY <1>8
<1>11. k \in [0 .. m -> T]
  <2>1. k[0] \in T /\ \A i \in 1 .. m : k[i - 1] \in T => k[i] \in T
    BY <1>2, <1>9
  <2>2. QED BY <1>2, <1>10, <2>1, StaysIn
<1>12. QED BY <1>1, <1>9, <1>11 DEF m, T, a, step, HitsBy

\* A script hits what was free, each piece once, and hits nothing only when nothing free is
\* like a sentence of it.
Hitted(acc, pieces, D, used, script, m) ==
    /\ acc.used = used \cup Range(acc.hits)
    /\ Range(acc.hits) \cap used = {}
    /\ Distinct(acc.hits)
    /\ acc.hits = <<>> => \A s \in 1 .. m, p \in D : Alike(script[s], pieces[p]) => p \in used

\* The loop keeps this.
LEMMA HittedStep ==
  ASSUME NEW pieces, NEW D, AllOf(D, pieces),
         NEW used \in SUBSET D, NEW script, NEW m \in Nat \ {0},
         NEW acc \in HitsIn(D), Hitted(acc, pieces, D, used, script, m - 1)
  PROVE  Hitted(Hit(pieces, acc, script[m]), pieces, D, used, script, m)
<1> DEFINE next == Hit(pieces, acc, script[m])
<1>1. acc.used \in SUBSET D /\ acc.hits \in Seq(D)
  BY DEF HitsIn
<1>2. \/ next = acc /\ \A p \in D : Alike(script[m], pieces[p]) => p \in acc.used
      \/ \E p \in D \ acc.used : next = Hitting(acc.used \cup {p}, Append(acc.hits, p))
  <2>1. Takes(next, acc, pieces, D, script[m])
    BY HitStep
  <2>2. QED BY <2>1 DEF Takes
<1> HIDE DEF next
<1>3. CASE next = acc /\ \A p \in D : Alike(script[m], pieces[p]) => p \in acc.used
  <2>1. ASSUME acc.hits = <<>>, NEW s \in 1 .. m, NEW p \in D, Alike(script[s], pieces[p])
        PROVE  p \in used
    <3>1. Range(acc.hits) = {}
      BY <2>1 DEF Range
    <3>2. acc.used = used
      BY <3>1 DEF Hitted
    <3>3. CASE s = m
      BY <1>3, <2>1, <3>2, <3>3
    <3>4. CASE s # m
      <4>1. s \in 1 .. m - 1
        BY <3>4
      <4>2. QED BY <2>1, <4>1 DEF Hitted
    <3>5. QED BY <3>3, <3>4
  <2>2. Hitted(acc, pieces, D, used, script, m)
    BY <2>1 DEF Hitted
  <2>3. QED BY <1>3, <2>2 DEF next
<1>4. CASE \E p \in D \ acc.used : next = Hitting(acc.used \cup {p}, Append(acc.hits, p))
  <2>1. PICK p \in D \ acc.used : next = Hitting(acc.used \cup {p}, Append(acc.hits, p))
    BY <1>4
  <2> DEFINE more == Append(acc.hits, p)
  <2>2. next.used = acc.used \cup {p} /\ next.hits = more
    BY <2>1 DEF Hitting
  <2>3. \A x : Has(acc.hits, x) <=> x \in Range(acc.hits)
    BY <1>1, ListType, HasRange
  <2>4. more \in Seq(D) /\ more # <<>>
    BY <1>1
  <2>5. \A x : Has(more, x) <=> x \in Range(more)
    BY <2>4, ListType, HasRange
  <2>6. \A x : Has(more, x) <=> Has(acc.hits, x) \/ p = x
    BY <1>1, HasAppend
  <2>7. Range(more) = Range(acc.hits) \cup {p}
    BY <2>3, <2>5, <2>6
  <2>8. p \notin Range(acc.hits) /\ p \notin used
    BY <2>1 DEF Hitted
  <2>9. Distinct(more)
    <3>1. ~Has(acc.hits, p) /\ Distinct(acc.hits)
      BY <2>3, <2>8 DEF Hitted
    <3>2. QED BY <1>1, <3>1, DistinctAppend
  <2> HIDE DEF more
  <2>10. /\ next.used = used \cup Range(next.hits) /\ Range(next.hits) \cap used = {}
         /\ Distinct(next.hits) /\ next.hits # <<>>
    BY <2>2, <2>4, <2>7, <2>8, <2>9 DEF Hitted
  <2>11. Hitted(next, pieces, D, used, script, m)
    BY <2>10 DEF Hitted
  <2>12. QED BY <2>11 DEF next
<1>5. QED BY <1>2, <1>3, <1>4

\* So it is of a whole script.
LEMMA ScriptHits ==
  ASSUME NEW pieces, NEW D, AllOf(D, pieces),
         NEW used \in SUBSET D, NEW script, Len(script) \in Nat
  PROVE  /\ HitsOf(pieces, used, script) \in HitsIn(D)
         /\ Hitted(HitsOf(pieces, used, script), pieces, D, used, script, Len(script))
<1> DEFINE m == Len(script)
<1>1. PICK f \in [0 .. m -> HitsIn(D)] :
        HitsOf(pieces, used, script) = f[m] /\ HitsBy(f, pieces, used, script)
  BY HitsSteps
<1> DEFINE S == {i \in 0 .. m : Hitted(f[i], pieces, D, used, script, i)}
<1>2. 0 \in S
  <2>1. f[0].used = used /\ f[0].hits = <<>>
    BY <1>1 DEF Hitting, HitsBy
  <2>2. Range(<<>>) = {} /\ Distinct(<<>>)
    BY DEF Range, Distinct
  <2>3. 0 \in 0 .. m /\ 1 .. 0 = {}
    OBVIOUS
  <2>4. Hitted(f[0], pieces, D, used, script, 0)
    BY <2>1, <2>2, <2>3 DEF Hitted
  <2>5. QED BY <2>3, <2>4
<1>3. ASSUME NEW i \in 1 .. m, i - 1 \in S PROVE i \in S
  <2>1. f[i] = Hit(pieces, f[i - 1], script[i])
    BY <1>1 DEF HitsBy
  <2>2. f[i - 1] \in HitsIn(D) /\ i \in Nat \ {0} /\ i \in 0 .. m
    OBVIOUS
  <2>3. Hitted(f[i - 1], pieces, D, used, script, i - 1)
    BY <1>3
  <2>4. Hitted(Hit(pieces, f[i - 1], script[i]), pieces, D, used, script, i)
    BY <2>2, <2>3, HittedStep
  <2>5. QED BY <2>1, <2>2, <2>4
<1> HIDE DEF S
<1>4. 0 .. m \subseteq S
  BY <1>2, <1>3, UpTo
<1>5. m \in S /\ m \in 0 .. m
  BY <1>4
<1>6. QED BY <1>1, <1>5 DEF S

\* f is what is hit, script by script.
AlongBy(f, pieces, scripts) ==
    /\ f[0] = Hitting({}, <<>>)
    /\ \A n \in 1 .. Len(scripts) : f[n] = HitsOf(pieces, f[n - 1].used, scripts[n].script)

\* Every script is a list.
ListsOf(scripts) ==
    Len(scripts) \in Nat /\ \A n \in 1 .. Len(scripts) : Len(scripts[n].script) \in Nat

\* The loop over the scripts goes by turns.
LEMMA AlongSteps ==
  ASSUME NEW pieces, NEW D, AllOf(D, pieces), NEW scripts, ListsOf(scripts)
  PROVE  /\ HitsAlong(pieces, scripts) \in [0 .. Len(scripts) -> HitsIn(D)]
         /\ AlongBy(HitsAlong(pieces, scripts), pieces, scripts)
<1> DEFINE m == Len(scripts)
           T == HitsIn(D)
           a == Hitting({}, <<>>)
           step(x, i) == HitsOf(pieces, x.used, scripts[i].script)
           Eq(f) == f = [i \in 0 .. m |-> IF i = 0 THEN Hitting({}, <<>>)
                                          ELSE HitsOf(pieces, f[i - 1].used, scripts[i].script)]
           k == CHOOSE f : Eq(f)
           G == [i \in 1 .. m |-> [x \in T |-> step(x, i)]]
<1>1. HitsAlong(pieces, scripts) = k
  BY DEF HitsAlong
<1>2. m \in Nat /\ a \in T /\ \A x \in T, i \in 1 .. m : step(x, i) \in T
  <2>1. a \in T
    BY DEF Hitting, HitsIn
  <2>2. ASSUME NEW x \in T, NEW i \in 1 .. m PROVE step(x, i) \in T
    <3> DEFINE used == x.used
               script == scripts[i].script
    <3>1. used \in SUBSET D
      BY DEF HitsIn
    <3>2. Len(script) \in Nat
      BY DEF ListsOf
    <3> HIDE DEF used, script
    <3>3. HitsOf(pieces, used, script) \in HitsIn(D)
      BY <3>1, <3>2, ScriptHits
    <3>4. QED BY <3>3 DEF used, script
  <2>3. QED BY <2>1, <2>2 DEF ListsOf
<1> HIDE DEF T, a
<1>3. G \in [1 .. m -> [T -> T]] /\ \A x \in T, i \in 1 .. m : G[i][x] = step(x, i)
  BY <1>2
<1> HIDE DEF G, m
<1>4. PICK f \in [0 .. m -> T] : Iterates(f, m, a, G)
  BY <1>2, <1>3, Iteration
<1> HIDE DEF step
<1>5. \A i \in 1 .. m : f[i - 1] \in T /\ G[i][f[i - 1]] = step(f[i - 1], i)
  <2>1. \A i \in 1 .. m : f[i - 1] \in T
    BY <1>2
  <2>2. QED BY <1>3, <2>1
<1>6. Eq(f)
  <2>1. f = [i \in 0 .. m |-> IF i = 0 THEN a ELSE G[i][f[i - 1]]]
    BY <1>4 DEF Iterates
  <2>2. ASSUME NEW i \in 0 .. m PROVE f[i] = IF i = 0 THEN a ELSE step(f[i - 1], i)
    <3>1. i # 0 => i \in 1 .. m
      BY <1>2
    <3>2. f[i] = IF i = 0 THEN a ELSE G[i][f[i - 1]]
      BY <2>1
    <3>3. QED BY <1>5, <3>1, <3>2
  <2>3. f = [i \in 0 .. m |-> IF i = 0 THEN a ELSE step(f[i - 1], i)]
    BY <2>2
  <2>4. QED BY <2>3 DEF step, a
<1>7. Eq(k)
  BY <1>6
<1> HIDE DEF k
<1>8. k = [i \in 0 .. m |-> IF i = 0 THEN a ELSE step(k[i - 1], i)]
  BY <1>7 DEF step, a
<1>9. k[0] = a /\ \A i \in 1 .. m : k[i] = step(k[i - 1], i)
  <2>1. \A i \in 0 .. m : k[i] = IF i = 0 THEN a ELSE step(k[i - 1], i)
    BY <1>8
  <2>2. 0 \in 0 .. m /\ \A i \in 1 .. m : i \in 0 .. m /\ i # 0
    BY <1>2
  <2>3. QED BY <2>1, <2>2
<1>10. k = [i \in 0 .. m |-> k[i]]
  BY <1>8
<1>11. k \in [0 .. m -> T]
  <2>1. k[0] \in T /\ \A i \in 1 .. m : k[i - 1] \in T => k[i] \in T
    BY <1>2, <1>9
  <2>2. QED BY <1>2, <1>10, <2>1, StaysIn
<1>12. QED BY <1>1, <1>9, <1>11 DEF m, T, a, step, AlongBy

\* Script after script, what is hit was free before, and is used from then on.
LEMMA AlongHits ==
  ASSUME NEW pieces, NEW D, AllOf(D, pieces), NEW scripts, ListsOf(scripts)
  PROVE  LET a == HitsAlong(pieces, scripts) IN
           \A n \in 1 .. Len(scripts) :
             /\ a[n] \in HitsIn(D)
             /\ Hitted(a[n], pieces, D, a[n - 1].used, scripts[n].script, Len(scripts[n].script))
             /\ \A m \in 1 .. n - 1 : Range(a[m].hits) \subseteq a[n - 1].used
             /\ \A p \in a[n - 1].used : \E m \in 1 .. n - 1 : p \in Range(a[m].hits)
<1> DEFINE a == HitsAlong(pieces, scripts)
           k == Len(scripts)
<1>1. k \in Nat /\ a \in [0 .. k -> HitsIn(D)] /\ AlongBy(a, pieces, scripts)
  BY AlongSteps DEF ListsOf
<1> HIDE DEF a, k
<1>2. ASSUME NEW n \in 1 .. k
      PROVE  /\ a[n] \in HitsIn(D) /\ a[n - 1] \in HitsIn(D)
             /\ Hitted(a[n], pieces, D, a[n - 1].used, scripts[n].script, Len(scripts[n].script))
  <2>1. a[n] \in HitsIn(D) /\ a[n - 1] \in HitsIn(D)
    BY <1>1
  <2> DEFINE used == a[n - 1].used
             script == scripts[n].script
  <2>2. used \in SUBSET D
    BY <2>1 DEF HitsIn
  <2>3. Len(script) \in Nat
    BY DEF ListsOf, k
  <2>4. a[n] = HitsOf(pieces, used, script)
    BY <1>1 DEF AlongBy, k
  <2> HIDE DEF used, script
  <2>5. Hitted(HitsOf(pieces, used, script), pieces, D, used, script, Len(script))
    BY <2>2, <2>3, ScriptHits
  <2>6. Hitted(a[n], pieces, D, used, script, Len(script))
    BY <2>4, <2>5
  <2>7. QED BY <2>1, <2>6 DEF used, script
<1> DEFINE S == {n \in 0 .. k : /\ \A m \in 1 .. n : Range(a[m].hits) \subseteq a[n].used
                                /\ \A p \in a[n].used : \E m \in 1 .. n : p \in Range(a[m].hits)}
<1>3. 0 \in S
  <2>1. a[0].used = {}
    BY <1>1 DEF AlongBy, Hitting
  <2>2. 0 \in 0 .. k /\ 1 .. 0 = {}
    BY <1>1
  <2>3. QED BY <2>1, <2>2
<1>4. ASSUME NEW n \in 1 .. k, n - 1 \in S PROVE n \in S
  <2>1. a[n].used = a[n - 1].used \cup Range(a[n].hits)
    BY <1>2 DEF Hitted
  <2>2. 1 .. n = (1 .. n - 1) \cup {n} /\ n \in 0 .. k
    BY <1>1
  <2>3. /\ \A m \in 1 .. n - 1 : Range(a[m].hits) \subseteq a[n - 1].used
        /\ \A p \in a[n - 1].used : \E m \in 1 .. n - 1 : p \in Range(a[m].hits)
    BY <1>4
  <2>4. \A m \in 1 .. n : Range(a[m].hits) \subseteq a[n].used
    BY <2>1, <2>2, <2>3
  <2>5. \A p \in a[n].used : \E m \in 1 .. n : p \in Range(a[m].hits)
    BY <2>1, <2>2, <2>3
  <2>6. QED BY <2>2, <2>4, <2>5
<1> HIDE DEF S
<1>5. 0 .. k \subseteq S
  BY <1>1, <1>3, <1>4, UpTo
<1>6. ASSUME NEW n \in 1 .. k
      PROVE  /\ \A m \in 1 .. n - 1 : Range(a[m].hits) \subseteq a[n - 1].used
             /\ \A p \in a[n - 1].used : \E m \in 1 .. n - 1 : p \in Range(a[m].hits)
  <2>1. n - 1 \in S
    BY <1>1, <1>5
  <2>2. QED BY <2>1 DEF S
<1>7. QED BY <1>2, <1>6 DEF a, k

\* No piece is hit for two scripts.
LEMMA AlongOnce ==
  ASSUME NEW pieces, NEW D, AllOf(D, pieces), NEW scripts, ListsOf(scripts)
  PROVE  LET a == HitsAlong(pieces, scripts) IN
           \A m, n \in 1 .. Len(scripts) : \A p :
             p \in Range(a[m].hits) /\ p \in Range(a[n].hits) => m = n
<1> DEFINE a == HitsAlong(pieces, scripts)
           k == Len(scripts)
<1>1. \A n \in 1 .. k :
        /\ Hitted(a[n], pieces, D, a[n - 1].used, scripts[n].script, Len(scripts[n].script))
        /\ \A m \in 1 .. n - 1 : Range(a[m].hits) \subseteq a[n - 1].used
  BY AlongHits
<1>2. k \in Nat
  BY DEF ListsOf
<1> HIDE DEF a, k
<1>3. ASSUME NEW m \in 1 .. k, NEW n \in 1 .. k, m < n, NEW p \in Range(a[m].hits), p \in Range(a[n].hits)
      PROVE  FALSE
  <2>1. m \in 1 .. n - 1
    BY <1>2, <1>3
  <2>2. p \in a[n - 1].used
    BY <1>1, <2>1
  <2>3. Range(a[n].hits) \cap a[n - 1].used = {}
    BY <1>1 DEF Hitted
  <2>4. QED BY <1>3, <2>2, <2>3
<1>4. ASSUME NEW m \in 1 .. k, NEW n \in 1 .. k, NEW p, p \in Range(a[m].hits), p \in Range(a[n].hits)
      PROVE  m = n
  <2>1. m < n \/ n < m \/ m = n
    BY <1>2
  <2>2. QED BY <1>3, <1>4, <2>1
<1>5. QED BY <1>4 DEF a, k

\* The rules with their own ids.
Rules == Seq([id: RuleIds, script: Seq(Strings), threshold: Int])

\* No two rules have the same id.
OwnIds(scripts) == \A m, n \in DOMAIN scripts : scripts[m].id = scripts[n].id => m = n

\* A rule has a result exactly when its script hit something, and it is its own.
ResultsFrom(M, d, pieces, scripts, along) ==
    /\ \A r \in DOMAIN M : \E n \in DOMAIN scripts :
         scripts[n].id = r /\ along[n].hits # <<>> /\ M[r] = Result(d, pieces, along[n].hits)
    /\ \A n \in DOMAIN scripts : along[n].hits # <<>> =>
         scripts[n].id \in DOMAIN M /\ M[scripts[n].id] = Result(d, pieces, along[n].hits)

\* This is how the results are made.
LEMMA ResultsAre ==
  ASSUME NEW d, NEW pieces, NEW scripts, OwnIds(scripts), NEW along
  PROVE  ResultsFrom(Results(d, pieces, scripts, along), d, pieces, scripts, along)
<1> DEFINE M == Results(d, pieces, scripts, along)
           found == {n \in DOMAIN scripts : along[n].hits # <<>>}
           of(id) == CHOOSE n \in found : scripts[n].id = id
<1>1. M = [id \in {scripts[n].id : n \in found} |-> Result(d, pieces, along[of(id)].hits)]
  BY DEF Results
<1>2. ASSUME NEW n \in found PROVE of(scripts[n].id) = n
  <2>1. of(scripts[n].id) \in found /\ scripts[of(scripts[n].id)].id = scripts[n].id
    OBVIOUS
  <2> HIDE DEF of
  <2>2. QED BY <2>1 DEF OwnIds
<1> HIDE DEF M, of
<1>3. ASSUME NEW n \in found
      PROVE  scripts[n].id \in DOMAIN M /\ M[scripts[n].id] = Result(d, pieces, along[n].hits)
  <2>1. scripts[n].id \in {scripts[m].id : m \in found}
    OBVIOUS
  <2> HIDE DEF found
  <2>2. scripts[n].id \in DOMAIN M
        /\ M[scripts[n].id] = Result(d, pieces, along[of(scripts[n].id)].hits)
    BY <1>1, <2>1
  <2>3. QED BY <1>2, <2>2
<1>4. ASSUME NEW r \in DOMAIN M PROVE \E n \in found : scripts[n].id = r
  <2>1. r \in {scripts[m].id : m \in found}
    BY <1>1
  <2>2. QED BY <2>1
<1>5. \A r \in DOMAIN M : \E n \in found :
        scripts[n].id = r /\ M[r] = Result(d, pieces, along[n].hits)
  BY <1>3, <1>4
<1>6. \A n : n \in found <=> n \in DOMAIN scripts /\ along[n].hits # <<>>
  OBVIOUS
<1> HIDE DEF found
<1>7. QED BY <1>3, <1>5, <1>6 DEF M, ResultsFrom

\* The rules are lists of sentences.
LEMMA RulesListed ==
  ASSUME NEW scripts \in Rules
  PROVE  ListsOf(scripts) /\ DOMAIN scripts = 1 .. Len(scripts)
<1> DEFINE R == [id: RuleIds, script: Seq(Strings), threshold: Int]
<1>1. scripts \in Seq(R)
  BY DEF Rules
<1>2. \A x \in R : Len(x.script) \in Nat
  OBVIOUS
<1> HIDE DEF R
<1>3. \A n \in 1 .. Len(scripts) : scripts[n] \in R
  BY <1>1
<1>4. QED BY <1>1, <1>2, <1>3 DEF ListsOf

\* What a result says it hit are pieces, and its times and score are theirs.
LEMMA ResultHits ==
  ASSUME NEW d, NEW pieces, NEW D, AllOf(D, pieces), NEW scripts \in Rules, OwnIds(scripts),
         NEW r \in DOMAIN MatchesOf(d, pieces, scripts)
  PROVE  LET M == MatchesOf(d, pieces, scripts) IN
           /\ M[r].hits \in Seq(D) /\ M[r].hits # <<>> /\ Distinct(M[r].hits)
           /\ M[r] = Result(d, pieces, M[r].hits)
           /\ \E n \in 1 .. Len(scripts) :
                scripts[n].id = r /\ M[r].hits = HitsAlong(pieces, scripts)[n].hits
<1> DEFINE M == MatchesOf(d, pieces, scripts)
           along == HitsAlong(pieces, scripts)
<1>1. ListsOf(scripts) /\ DOMAIN scripts = 1 .. Len(scripts)
  BY RulesListed
<1>2. M = Results(d, pieces, scripts, along)
  BY DEF MatchesOf
<1>3. \A n \in 1 .. Len(scripts) :
        /\ along[n] \in HitsIn(D)
        /\ Hitted(along[n], pieces, D, along[n - 1].used, scripts[n].script, Len(scripts[n].script))
  BY <1>1, AlongHits
<1> HIDE DEF along, M
<1>4. PICK n \in DOMAIN scripts :
        scripts[n].id = r /\ along[n].hits # <<>> /\ M[r] = Result(d, pieces, along[n].hits)
  <2>1. ResultsFrom(Results(d, pieces, scripts, along), d, pieces, scripts, along)
    BY ResultsAre
  <2>2. ResultsFrom(M, d, pieces, scripts, along) /\ r \in DOMAIN M
    BY <1>2, <2>1 DEF M
  <2>3. QED BY <2>2 DEF ResultsFrom
<1>5. M[r].hits = along[n].hits
  <2> DEFINE h == along[n].hits
  <2>1. M[r] = Result(d, pieces, h)
    BY <1>4
  <2> HIDE DEF h
  <2>2. Result(d, pieces, h).hits = h
    BY DEF Result
  <2>3. QED BY <2>1, <2>2 DEF h
<1>6. along[n].hits \in Seq(D) /\ Distinct(along[n].hits)
  BY <1>1, <1>3 DEF HitsIn, Hitted
<1>7. QED BY <1>1, <1>4, <1>5, <1>6 DEF M, along

\* One piece counts for one sentence of one rule.
LEMMA ResultsOnce ==
  ASSUME NEW d, NEW pieces, NEW D, AllOf(D, pieces), NEW scripts \in Rules, OwnIds(scripts)
  PROVE  LET M == MatchesOf(d, pieces, scripts) IN
           \A r \in DOMAIN M, s \in DOMAIN M :
             \A i \in DOMAIN M[r].hits, j \in DOMAIN M[s].hits :
               M[r].hits[i] = M[s].hits[j] => r = s /\ i = j
<1> DEFINE M == MatchesOf(d, pieces, scripts)
           along == HitsAlong(pieces, scripts)
<1> SUFFICES ASSUME NEW r \in DOMAIN M, NEW s \in DOMAIN M,
                    NEW i \in DOMAIN M[r].hits, NEW j \in DOMAIN M[s].hits,
                    M[r].hits[i] = M[s].hits[j]
             PROVE  r = s /\ i = j
  OBVIOUS
<1>1. /\ M[r].hits \in Seq(D) /\ Distinct(M[r].hits)
      /\ \E n \in 1 .. Len(scripts) : scripts[n].id = r /\ M[r].hits = along[n].hits
  BY ResultHits
<1>2. /\ M[s].hits \in Seq(D) /\ Distinct(M[s].hits)
      /\ \E n \in 1 .. Len(scripts) : scripts[n].id = s /\ M[s].hits = along[n].hits
  BY ResultHits
<1>3. ListsOf(scripts)
  BY RulesListed
<1>4. \A m, n \in 1 .. Len(scripts) : \A p :
        p \in Range(along[m].hits) /\ p \in Range(along[n].hits) => m = n
  BY <1>3, AlongOnce
<1> HIDE DEF M, along
<1>5. PICK m \in 1 .. Len(scripts) : scripts[m].id = r /\ M[r].hits = along[m].hits
  BY <1>1
<1>6. PICK n \in 1 .. Len(scripts) : scripts[n].id = s /\ M[s].hits = along[n].hits
  BY <1>2
<1> DEFINE p == M[r].hits[i]
<1>7. p \in Range(along[m].hits) /\ p \in Range(along[n].hits)
  BY <1>5, <1>6 DEF Range
<1> HIDE DEF p
<1>8. m = n
  BY <1>4, <1>7
<1>9. r = s
  BY <1>5, <1>6, <1>8
<1>10. i = j
  <2>1. i \in 1 .. Len(M[r].hits) /\ j \in 1 .. Len(M[r].hits) /\ M[r].hits[i] = M[r].hits[j]
    BY <1>1, <1>9
  <2>2. QED BY <1>1, <2>1 DEF Distinct
<1>11. QED BY <1>9, <1>10

\* What is like a rule without a result was counted for another.
LEMMA ResultsLeave ==
  ASSUME NEW d, NEW pieces, NEW D, AllOf(D, pieces), NEW scripts \in Rules, OwnIds(scripts),
         NEW n \in DOMAIN scripts, scripts[n].id \notin DOMAIN MatchesOf(d, pieces, scripts),
         NEW s \in DOMAIN scripts[n].script, NEW p \in D, Alike(scripts[n].script[s], pieces[p])
  PROVE  LET M == MatchesOf(d, pieces, scripts) IN
           \E r \in DOMAIN M : \E i \in DOMAIN M[r].hits : M[r].hits[i] = p
<1> DEFINE M == MatchesOf(d, pieces, scripts)
           along == HitsAlong(pieces, scripts)
           k == Len(scripts)
<1>1. ListsOf(scripts) /\ DOMAIN scripts = 1 .. k /\ k \in Nat
  BY RulesListed DEF ListsOf
<1>2. M = Results(d, pieces, scripts, along)
  BY DEF MatchesOf
<1>3. \A m \in 1 .. k :
        /\ along[m] \in HitsIn(D)
        /\ Hitted(along[m], pieces, D, along[m - 1].used, scripts[m].script, Len(scripts[m].script))
        /\ \A q \in along[m - 1].used : \E l \in 1 .. m - 1 : q \in Range(along[l].hits)
  BY <1>1, AlongHits
<1>4. \A m \in DOMAIN scripts : along[m].hits # <<>> =>
        scripts[m].id \in DOMAIN M /\ M[scripts[m].id] = Result(d, pieces, along[m].hits)
  <2>1. ResultsFrom(Results(d, pieces, scripts, along), d, pieces, scripts, along)
    BY ResultsAre
  <2> HIDE DEF M, along
  <2>2. ResultsFrom(M, d, pieces, scripts, along)
    BY <1>2, <2>1
  <2>3. QED BY <2>2 DEF ResultsFrom
<1> HIDE DEF M, along, k
<1>5. along[n].hits = <<>>
  BY <1>4 DEF M
<1>6. DOMAIN scripts[n].script = 1 .. Len(scripts[n].script)
  <2> DEFINE R == [id: RuleIds, script: Seq(Strings), threshold: Int]
  <2>1. \A x \in R : DOMAIN x.script = 1 .. Len(x.script)
    OBVIOUS
  <2>2. scripts \in Seq(R)
    BY DEF Rules
  <2> HIDE DEF R
  <2>3. scripts[n] \in R
    BY <2>2
  <2>4. QED BY <2>1, <2>3
<1>7. p \in along[n - 1].used
  <2>1. Hitted(along[n], pieces, D, along[n - 1].used, scripts[n].script, Len(scripts[n].script))
    BY <1>1, <1>3
  <2>2. QED BY <1>5, <1>6, <2>1 DEF Hitted
<1>8. PICK l \in 1 .. n - 1 : p \in Range(along[l].hits)
  BY <1>1, <1>3, <1>7
<1>9. l \in DOMAIN scripts
  BY <1>1
<1>10. PICK i \in DOMAIN along[l].hits : along[l].hits[i] = p
  BY <1>8 DEF Range
<1>11. along[l].hits # <<>>
  BY <1>10
<1>12. scripts[l].id \in DOMAIN M /\ M[scripts[l].id].hits = along[l].hits
  <2> DEFINE h == along[l].hits
  <2>1. scripts[l].id \in DOMAIN M /\ M[scripts[l].id] = Result(d, pieces, h)
    BY <1>4, <1>9, <1>11
  <2> HIDE DEF h
  <2>2. Result(d, pieces, h).hits = h
    BY DEF Result
  <2>3. QED BY <2>1, <2>2 DEF h
<1>13. QED BY <1>10, <1>12 DEF M

-----------------------------------------------------------------------------
(* What the words leave out of a text *)

\* What is said, with its times.
Timed == [text: Strings, start: Int, end: Int]

\* Said between two times.
Within(lo, hi) == {x \in Timed : x.start \in lo .. hi /\ x.end \in lo .. hi}

\* Two neighbouring parts of a list make one.
LEMMA SubJoin ==
  ASSUME NEW A, NEW t \in Seq(A), NEW a \in 0 .. Len(t), NEW b \in a .. Len(t), NEW c \in b .. Len(t)
  PROVE  /\ SubSeq(t, a + 1, b) \in Seq(A) /\ SubSeq(t, b + 1, c) \in Seq(A)
         /\ SubSeq(t, a + 1, b) \o SubSeq(t, b + 1, c) = SubSeq(t, a + 1, c)
<1> DEFINE x == SubSeq(t, a + 1, b)
           y == SubSeq(t, b + 1, c)
           z == SubSeq(t, a + 1, c)
<1>1. /\ Len(t) \in Nat /\ a \in Nat /\ b \in Nat /\ c \in Nat
      /\ a <= b /\ b <= c /\ c <= Len(t) /\ t \in Seq(A)
  OBVIOUS
<1>2. x \in Seq(A) /\ Len(x) = b - a /\ \A i \in 1 .. b - a : x[i] = t[a + i]
  BY <1>1
<1>3. y \in Seq(A) /\ Len(y) = c - b /\ \A i \in 1 .. c - b : y[i] = t[b + i]
  BY <1>1
<1>4. z \in Seq(A) /\ Len(z) = c - a /\ \A i \in 1 .. c - a : z[i] = t[a + i]
  BY <1>1
<1> HIDE DEF x, y, z
<1>5. x \o y \in Seq(A) /\ Len(x \o y) = c - a
  <2>1. x \o y \in Seq(A) /\ Len(x \o y) = Len(x) + Len(y)
    <3>1. x \in Seq(A) /\ y \in Seq(A)
      BY <1>2, <1>3
    <3>2. QED BY ONLY <3>1
  <2>2. (b - a) + (c - b) = c - a
    BY <1>1
  <2>3. QED BY <1>2, <1>3, <2>1, <2>2
<1>6. ASSUME NEW i \in 1 .. c - a PROVE (x \o y)[i] = t[a + i]
  <2>1. CASE i <= b - a
    <3>1. i \in 1 .. b - a
      BY <1>1, <2>1
    <3>2. (x \o y)[i] = x[i]
      BY <1>2, <1>3, <3>1
    <3>3. QED BY <1>2, <3>1, <3>2
  <2>2. CASE i > b - a
    <3>1. i - (b - a) \in 1 .. c - b /\ b + (i - (b - a)) = a + i
      BY <1>1, <2>2
    <3>2. (x \o y)[i] = y[i - (b - a)]
      BY <1>1, <1>2, <1>3, <2>2
    <3>3. QED BY <1>3, <3>1, <3>2
  <2>3. i <= b - a \/ i > b - a
    BY <1>1
  <2>4. QED BY <2>1, <2>2, <2>3
<1> DEFINE v == x \o y
<1> HIDE DEF v
<1>7. v = z
  BY <1>4, <1>5, <1>6, SeqEqual DEF v
<1>8. QED BY <1>2, <1>3, <1>7 DEF x, y, z, v

\* Two neighbouring parts of a text make one.
LEMMA PartsJoin ==
  ASSUME NEW t \in Strings, NEW a \in 0 .. Len(t), NEW b \in a .. Len(t), NEW c \in b .. Len(t)
  PROVE  /\ SubSeq(t, a + 1, b) \in Strings /\ SubSeq(t, b + 1, c) \in Strings
         /\ SubSeq(t, a + 1, b) \o SubSeq(t, b + 1, c) = SubSeq(t, a + 1, c)
BY SubJoin DEF Strings

\* Characters of a text, one by one.
OneByOne(g, t, a, k) ==
    g = [i \in 1 .. k |-> g[i]] /\ \A i \in 1 .. k : g[i].text = <<t[a + i]>>

\* One character after the other makes the part of the text.
LEMMA Singles ==
  ASSUME NEW t \in Strings, NEW a \in 0 .. Len(t), NEW k \in 0 .. Len(t) - a,
         NEW g, OneByOne(g, t, a, k)
  PROVE  Parts(g) /\ Len(g) = k /\ TextOf(g) = SubSeq(t, a + 1, a + k)
<1>1. Len(t) \in Nat /\ a \in Nat /\ k \in Nat /\ a + k <= Len(t) /\ t \in Seq(Alphabet)
  BY DEF Strings
<1>2. Len(g) = k /\ AList(g)
  BY <1>1, FunctionList DEF OneByOne
<1>3. \A i \in 1 .. k : <<t[a + i]>> \in Strings
  BY <1>1 DEF Strings
<1>4. Parts(g)
  BY <1>2, <1>3 DEF Parts, OneByOne
<1> DEFINE h == [i \in 0 .. k |-> SubSeq(t, a + 1, a + i)]
<1>5. ASSUME NEW i \in 1 .. k PROVE h[i] = h[i - 1] \o g[i].text
  <2>1. a + (i - 1) \in a .. Len(t) /\ a + i \in a + (i - 1) .. Len(t) /\ (a + (i - 1)) + 1 = a + i
    BY <1>1
  <2>2. SubSeq(t, a + 1, a + (i - 1)) \o SubSeq(t, (a + (i - 1)) + 1, a + i) = SubSeq(t, a + 1, a + i)
    BY <2>1, PartsJoin
  <2>3. SubSeq(t, a + i, a + i) = <<t[a + i]>>
    <3>1. a + i \in 1 .. Len(t) /\ a + i \in Nat
      BY <1>1
    <3> DEFINE j == a + i
    <3> HIDE DEF j
    <3>2. j \in 1 .. Len(t)
      BY <3>1 DEF j
    <3>3. SubSeq(t, j, j) \in Seq(Alphabet) /\ Len(SubSeq(t, j, j)) = 1 /\ SubSeq(t, j, j)[1] = t[j]
      BY <1>1, <3>2
    <3> DEFINE x == SubSeq(t, j, j)
               y == <<t[j]>>
    <3>6. x \in Seq(Alphabet) /\ y \in Seq(Alphabet) /\ Len(x) = 1 /\ Len(y) = 1 /\ x[1] = y[1]
      BY <1>1, <3>2, <3>3
    <3> HIDE DEF x, y
    <3>7. \A m \in 1 .. 1 : x[m] = y[m]
      BY <3>6
    <3>4. x = y
      BY <3>6, <3>7, SeqEqual
    <3>5. QED BY <3>4 DEF j, x, y
  <2>4. h[i] = SubSeq(t, a + 1, a + i) /\ h[i - 1] = SubSeq(t, a + 1, a + (i - 1))
    <3>1. i \in 0 .. k /\ i - 1 \in 0 .. k
      BY <1>1
    <3> DEFINE part(j) == SubSeq(t, a + 1, a + j)
    <3>2. h = [j \in 0 .. k |-> part(j)]
      OBVIOUS
    <3> HIDE DEF h, part
    <3>3. h[i] = part(i) /\ h[i - 1] = part(i - 1)
      BY <3>1, <3>2
    <3>4. QED BY <3>3 DEF part
  <2>5. QED BY <2>1, <2>2, <2>3, <2>4 DEF OneByOne
<1>6. h[0] = <<>> /\ h[k] = SubSeq(t, a + 1, a + k)
  BY <1>1
<1> HIDE DEF h
<1>7. TextAlong(h, g)
  BY <1>2, <1>5, <1>6 DEF TextAlong
<1>8. TextOf(g) = h[k]
  BY <1>2, <1>4, <1>7, TextUnique
<1>9. QED BY <1>2, <1>4, <1>6, <1>8

\* The words so far and how far they go.
FillIn(W, t) == [words: Seq(W), at: 0 .. Len(t)]

\* They are the text up to there.
FilledSo(acc, t) == TextOf(acc.words) = SubSeq(t, 1, acc.at)

\* A word that the text shows goes on from there.
LEMMA FillStep ==
  ASSUME NEW t \in Strings, NEW hi \in Nat, NEW W, W = Within(0, hi),
         NEW acc \in FillIn(W, t), NEW word \in W
  PROVE  /\ FillUpTo(t, acc, word) \in FillIn(W, t)
         /\ Places(t, acc.at, word.text) # {} /\ FilledSo(acc, t) =>
              FilledSo(FillUpTo(t, acc, word), t) /\ FillUpTo(t, acc, word).words # <<>>
<1> DEFINE places == Places(t, acc.at, word.text)
           next == Earliest(places)
           end == IF acc.words = <<>> THEN 0 ELSE Last(acc.words).end
           k == next - acc.at
           gap == [i \in 1 .. k |->
                     Word(<<t[acc.at + i]>>, IF i = 1 THEN end ELSE word.start, word.start)]
           after == Filling(acc.words \o Append(gap, word), next + Len(word.text))
<1>1. FillUpTo(t, acc, word) = IF places = {} THEN acc ELSE after
  BY DEF FillUpTo
<1> SUFFICES ASSUME places # {}
             PROVE  after \in FillIn(W, t)
                    /\ (FilledSo(acc, t) => FilledSo(after, t) /\ after.words # <<>>)
  BY <1>1
<1>2. acc.words \in Seq(W) /\ acc.at \in 0 .. Len(t) /\ Len(t) \in Nat /\ t \in Seq(Alphabet)
  BY DEF FillIn, Strings
<1>3. word.text \in Strings /\ word.start \in 0 .. hi /\ Len(word.text) \in Nat
      /\ \A x \in W : x.text \in Strings /\ x.end \in 0 .. hi
  BY DEF Within, Timed, Strings
<1>4. next \in acc.at .. Len(t) - Len(word.text)
      /\ SubSeq(t, next + 1, next + Len(word.text)) = word.text
  <2>1. places \in SUBSET (0 .. Len(t))
    BY <1>2, <1>3 DEF Places
  <2> HIDE DEF places
  <2>2. next \in places
    BY <1>2, <2>1, EarliestOf
  <2> HIDE DEF next
  <2>3. QED BY <2>2 DEF Places, places
<1> HIDE DEF next, places
<1>5. end \in 0 .. hi
  <2>1. CASE acc.words = <<>>
    BY <2>1
  <2>2. CASE acc.words # <<>>
    <3>1. acc.words[Len(acc.words)] \in W
      BY <1>2, <2>2, MemberType
    <3>2. QED BY <1>3, <2>2, <3>1 DEF Last
  <2>3. QED BY <2>1, <2>2
<1> HIDE DEF end
<1>6. k \in 0 .. Len(t) - acc.at /\ acc.at + k = next
  BY <1>2, <1>3, <1>4
<1> HIDE DEF k
<1>7. ASSUME NEW i \in 1 .. k
      PROVE  gap[i] \in W /\ gap[i].text = <<t[acc.at + i]>>
  <2>1. acc.at + i \in 1 .. Len(t)
    BY <1>2, <1>6
  <2>2. <<t[acc.at + i]>> \in Strings
    BY <1>2, <2>1 DEF Strings
  <2> DEFINE c == <<t[acc.at + i]>>
             s == IF i = 1 THEN end ELSE word.start
  <2>3. s \in 0 .. hi
    BY <1>3, <1>5
  <2>4. gap[i] = [text |-> c, start |-> s, end |-> word.start]
    BY DEF Word
  <2> HIDE DEF c, s, gap
  <2>5. gap[i] \in Timed /\ gap[i].start \in 0 .. hi /\ gap[i].end \in 0 .. hi /\ gap[i].text = c
    BY <1>3, <2>2, <2>3, <2>4 DEF Timed, c
  <2>6. QED BY <2>5 DEF Within, c
<1>8. gap = [i \in 1 .. k |-> gap[i]] /\ k \in Nat
  BY <1>6
<1> HIDE DEF gap
<1>9. gap \in Seq(W)
  BY <1>7, <1>8
<1>10. Parts(gap) /\ TextOf(gap) = SubSeq(t, acc.at + 1, next)
  <2>1. Parts(gap) /\ TextOf(gap) = SubSeq(t, acc.at + 1, acc.at + k)
    <3> DEFINE a == acc.at
    <3>1. a \in 0 .. Len(t) /\ k \in 0 .. Len(t) - a /\ \A i \in 1 .. k : gap[i].text = <<t[a + i]>>
      BY <1>2, <1>6, <1>7
    <3> HIDE DEF a
    <3>2. OneByOne(gap, t, a, k)
      BY <1>8, <3>1 DEF OneByOne
    <3>3. Parts(gap) /\ TextOf(gap) = SubSeq(t, a + 1, a + k)
      BY <3>1, <3>2, Singles
    <3>4. QED BY <3>3 DEF a
  <2>2. QED BY <1>6, <2>1
<1> DEFINE more == Append(gap, word)
<1>11. more \in Seq(W) /\ more # <<>>
  BY <1>9
<1>12. TextOf(more) = TextOf(gap) \o word.text
  BY <1>3, <1>10, TextAppend
<1> HIDE DEF more
<1>13. TextOf(acc.words \o more) = TextOf(acc.words) \o TextOf(more)
  BY <1>2, <1>3, <1>11, TextConcat
<1>14. acc.words \o more \in Seq(W) /\ acc.words \o more # <<>>
  BY <1>2, <1>11
<1> DEFINE words == acc.words \o more
           to == next + Len(word.text)
<1>15. to \in next .. Len(t) /\ next \in acc.at .. Len(t) /\ to \in 0 .. Len(t)
  BY <1>2, <1>3, <1>4
<1>16. after.words = words /\ after.at = to /\ after = [words |-> words, at |-> to]
  BY DEF Filling, more
<1> HIDE DEF words, to, after
<1>17. after \in FillIn(W, t)
  BY <1>14, <1>15, <1>16 DEF FillIn, words
<1>18. SubSeq(t, acc.at + 1, next) \o word.text = SubSeq(t, acc.at + 1, to)
  <2>1. SubSeq(t, acc.at + 1, next) \o SubSeq(t, next + 1, to) = SubSeq(t, acc.at + 1, to)
    BY <1>2, <1>15, PartsJoin
  <2>2. QED BY <1>4, <2>1 DEF to
<1>19. SubSeq(t, 1, acc.at) \o SubSeq(t, acc.at + 1, to) = SubSeq(t, 1, to)
  <2>1. 0 \in 0 .. Len(t) /\ acc.at \in 0 .. Len(t) /\ to \in acc.at .. Len(t) /\ 0 + 1 = 1
    BY <1>2, <1>15
  <2>2. SubSeq(t, 0 + 1, acc.at) \o SubSeq(t, acc.at + 1, to) = SubSeq(t, 0 + 1, to)
    BY <2>1, PartsJoin
  <2>3. QED BY <2>1, <2>2
<1>20. ASSUME FilledSo(acc, t) PROVE FilledSo(after, t)
  <2>1. TextOf(acc.words) = SubSeq(t, 1, acc.at)
    BY <1>20 DEF FilledSo
  <2>2. TextOf(words) = SubSeq(t, 1, to)
    BY <1>10, <1>12, <1>13, <1>18, <1>19, <2>1 DEF words
  <2>3. QED BY <1>16, <2>2 DEF FilledSo
<1>21. QED BY <1>14, <1>16, <1>17, <1>20 DEF words

\* f is what is filled, word by word.
FillAlong(f, t, words) ==
    /\ f[0] = Filling(<<>>, 0)
    /\ \A i \in 1 .. Len(words) : f[i] = FillUpTo(t, f[i - 1], words[i])

\* The loop over the words goes by turns.
LEMMA FillSteps ==
  ASSUME NEW t \in Strings, NEW hi \in Nat, NEW W, W = Within(0, hi), NEW words \in Seq(W)
  PROVE  /\ FilledTo(t, words) \in [0 .. Len(words) -> FillIn(W, t)]
         /\ FillAlong(FilledTo(t, words), t, words)
<1> DEFINE n == Len(words)
           T == FillIn(W, t)
           a == Filling(<<>>, 0)
           step(x, i) == FillUpTo(t, x, words[i])
           Eq(f) == f = [i \in 0 .. n |-> IF i = 0 THEN Filling(<<>>, 0)
                                          ELSE FillUpTo(t, f[i - 1], words[i])]
           k == CHOOSE f : Eq(f)
           G == [i \in 1 .. n |-> [x \in T |-> step(x, i)]]
<1>1. FilledTo(t, words) = k
  BY DEF FilledTo
<1>2. n \in Nat /\ a \in T /\ \A x \in T, i \in 1 .. n : step(x, i) \in T
  <2>1. a \in T
    <3>1. Len(t) \in Nat /\ 0 \in 0 .. Len(t) /\ <<>> \in Seq(W)
      BY DEF Strings
    <3>2. QED BY <3>1 DEF Filling, FillIn
  <2>2. \A i \in 1 .. n : words[i] \in W
    BY MemberType
  <2>3. ASSUME NEW x \in T, NEW i \in 1 .. n PROVE step(x, i) \in T
    <3> DEFINE word == words[i]
    <3>1. word \in W
      BY <2>2
    <3> HIDE DEF word
    <3>2. FillUpTo(t, x, word) \in FillIn(W, t)
      BY <3>1, FillStep
    <3>3. QED BY <3>2 DEF word
  <2>4. QED BY <2>1, <2>3
<1> HIDE DEF T, a
<1>3. G \in [1 .. n -> [T -> T]] /\ \A x \in T, i \in 1 .. n : G[i][x] = step(x, i)
  BY <1>2
<1> HIDE DEF G, n
<1>4. PICK f \in [0 .. n -> T] : Iterates(f, n, a, G)
  BY <1>2, <1>3, Iteration
<1> HIDE DEF step
<1>5. \A i \in 1 .. n : f[i - 1] \in T /\ G[i][f[i - 1]] = step(f[i - 1], i)
  <2>1. \A i \in 1 .. n : f[i - 1] \in T
    BY <1>2
  <2>2. QED BY <1>3, <2>1
<1>6. Eq(f)
  <2>1. f = [i \in 0 .. n |-> IF i = 0 THEN a ELSE G[i][f[i - 1]]]
    BY <1>4 DEF Iterates
  <2>2. ASSUME NEW i \in 0 .. n PROVE f[i] = IF i = 0 THEN a ELSE step(f[i - 1], i)
    <3>1. i # 0 => i \in 1 .. n
      BY <1>2
    <3>2. f[i] = IF i = 0 THEN a ELSE G[i][f[i - 1]]
      BY <2>1
    <3>3. QED BY <1>5, <3>1, <3>2
  <2>3. f = [i \in 0 .. n |-> IF i = 0 THEN a ELSE step(f[i - 1], i)]
    BY <2>2
  <2>4. QED BY <2>3 DEF step, a
<1>7. Eq(k)
  BY <1>6
<1> HIDE DEF k
<1>8. k = [i \in 0 .. n |-> IF i = 0 THEN a ELSE step(k[i - 1], i)]
  BY <1>7 DEF step, a
<1>9. k[0] = a /\ \A i \in 1 .. n : k[i] = step(k[i - 1], i)
  <2>1. \A i \in 0 .. n : k[i] = IF i = 0 THEN a ELSE step(k[i - 1], i)
    BY <1>8
  <2>2. 0 \in 0 .. n /\ \A i \in 1 .. n : i \in 0 .. n /\ i # 0
    BY <1>2
  <2>3. QED BY <2>1, <2>2
<1>10. k = [i \in 0 .. n |-> k[i]]
  BY <1>8
<1>11. k \in [0 .. n -> T]
  <2>1. k[0] \in T /\ \A i \in 1 .. n : k[i - 1] \in T => k[i] \in T
    BY <1>2, <1>9
  <2>2. QED BY <1>2, <1>10, <2>1, StaysIn
<1>12. QED BY <1>1, <1>9, <1>11 DEF n, T, a, step, FillAlong

\* Every word stands in the text where it is looked for.
Readable(t, words) ==
    \A i \in 1 .. Len(words) : Places(t, FilledTo(t, words)[i - 1].at, words[i].text) # {}

\* The words filled up with what they leave out are the text.
LEMMA FilledText ==
  ASSUME NEW t \in Strings, NEW hi \in Nat, NEW W, W = Within(0, hi), NEW words \in Seq(W),
         words # <<>>, Readable(t, words)
  PROVE  Filled(t, words) \in Seq(W) /\ Filled(t, words) # <<>> /\ TextOf(Filled(t, words)) = t
<1> DEFINE n == Len(words)
           f == FilledTo(t, words)
<1>1. n \in Nat /\ n >= 1
  OBVIOUS
<1>2. f \in [0 .. n -> FillIn(W, t)] /\ FillAlong(f, t, words)
  BY FillSteps
<1>3. \A i \in 1 .. n : words[i] \in W
  BY MemberType
<1> DEFINE S == {i \in 0 .. n : FilledSo(f[i], t) /\ (i > 0 => f[i].words # <<>>)}
<1>4. 0 \in S
  <2>1. f[0].words = <<>> /\ f[0].at = 0
    BY <1>2 DEF FillAlong, Filling
  <2>2. SubSeq(t, 1, 0) = <<>>
    OBVIOUS
  <2>3. FilledSo(f[0], t)
    BY <2>1, <2>2, TextEmpty DEF FilledSo
  <2>4. QED BY <1>1, <2>3
<1>5. ASSUME NEW i \in 1 .. n, i - 1 \in S PROVE i \in S
  <2> DEFINE acc == f[i - 1]
             word == words[i]
  <2>1. acc \in FillIn(W, t) /\ word \in W
    BY <1>1, <1>2, <1>3
  <2>2. f[i] = FillUpTo(t, acc, word)
    BY <1>2 DEF FillAlong
  <2>3. Places(t, acc.at, word.text) # {}
    BY DEF Readable
  <2>4. FilledSo(acc, t)
    BY <1>5
  <2> HIDE DEF acc, word
  <2>5. FilledSo(FillUpTo(t, acc, word), t) /\ FillUpTo(t, acc, word).words # <<>>
    BY <2>1, <2>3, <2>4, FillStep
  <2>6. i \in 0 .. n
    BY <1>1
  <2>7. QED BY <2>2, <2>5, <2>6
<1> HIDE DEF S
<1>6. 0 .. n \subseteq S
  BY <1>1, <1>4, <1>5, UpTo
<1> DEFINE done == f[n]
<1>7. FilledSo(done, t) /\ done.words # <<>> /\ done \in FillIn(W, t)
  <2>1. n \in S /\ n > 0 /\ n \in 0 .. n
    BY <1>1, <1>6
  <2>2. QED BY <1>2, <2>1 DEF S
<1> DEFINE k == Len(t) - done.at
           word == Last(words)
           tail == [i \in 1 .. k |-> Word(<<t[done.at + i]>>, word.end, word.start)]
<1>8. Filled(t, words) = done.words \o tail
  BY DEF Filled
<1> HIDE DEF f, done
<1>9. done.words \in Seq(W) /\ done.at \in 0 .. Len(t) /\ Len(t) \in Nat /\ t \in Seq(Alphabet)
  BY <1>7 DEF FillIn, Strings
<1>10. k \in Nat /\ k \in 0 .. Len(t) - done.at /\ done.at + k = Len(t)
  BY <1>9
<1>11. word.end \in 0 .. hi /\ word.start \in 0 .. hi
  <2>1. word \in W
    BY <1>1, <1>3 DEF Last
  <2>2. QED BY <2>1 DEF Within
<1> HIDE DEF k, word
<1>12. ASSUME NEW i \in 1 .. k
       PROVE  tail[i] \in W /\ tail[i].text = <<t[done.at + i]>>
  <2> DEFINE c == <<t[done.at + i]>>
  <2>1. done.at + i \in 1 .. Len(t)
    BY <1>9, <1>10
  <2>2. c \in Strings
    BY <1>9, <2>1 DEF Strings
  <2>3. tail[i] = [text |-> c, start |-> word.end, end |-> word.start]
    BY DEF Word
  <2> HIDE DEF c, tail
  <2>4. tail[i] \in Timed /\ tail[i].start \in 0 .. hi /\ tail[i].end \in 0 .. hi /\ tail[i].text = c
    BY <1>11, <2>2, <2>3 DEF Timed
  <2>5. QED BY <2>4 DEF Within, c
<1>13. tail = [i \in 1 .. k |-> tail[i]]
  OBVIOUS
<1> HIDE DEF tail
<1>14. tail \in Seq(W)
  BY <1>10, <1>12, <1>13
<1>15. TextOf(tail) = SubSeq(t, done.at + 1, Len(t))
  <2> DEFINE a == done.at
  <2>1. a \in 0 .. Len(t) /\ k \in 0 .. Len(t) - a /\ a + k = Len(t)
    BY <1>9, <1>10
  <2>2. OneByOne(tail, t, a, k)
    BY <1>12, <1>13 DEF OneByOne
  <2> HIDE DEF a
  <2>3. TextOf(tail) = SubSeq(t, a + 1, a + k)
    BY <2>1, <2>2, Singles
  <2>4. QED BY <2>1, <2>3 DEF a
<1>16. \A x \in W : x.text \in Strings
  BY DEF Within, Timed
<1>17. TextOf(done.words \o tail) = TextOf(done.words) \o TextOf(tail)
  BY <1>9, <1>14, <1>16, TextConcat
<1>18. SubSeq(t, 1, done.at) \o SubSeq(t, done.at + 1, Len(t)) = t
  <2>1. 0 \in 0 .. Len(t) /\ done.at \in 0 .. Len(t) /\ Len(t) \in done.at .. Len(t) /\ 0 + 1 = 1
    BY <1>9
  <2>2. SubSeq(t, 0 + 1, done.at) \o SubSeq(t, done.at + 1, Len(t)) = SubSeq(t, 0 + 1, Len(t))
    BY <2>1, PartsJoin
  <2>3. SubSeq(t, 1, Len(t)) = t
    BY <1>9
  <2>4. QED BY <2>1, <2>2, <2>3
<1>19. TextOf(done.words) = SubSeq(t, 1, done.at)
  BY <1>7 DEF FilledSo
<1>20. done.words \o tail \in Seq(W) /\ done.words \o tail # <<>>
  BY <1>7, <1>9, <1>14
<1>21. QED BY <1>8, <1>15, <1>17, <1>18, <1>19, <1>20

\* An utterance as the service gives it: its words are said before it ends.
GivenUtterance(r) ==
    r \in Utterances /\ \A w \in Range(r.words) : w.start <= r.end /\ w.end <= r.end

\* Moving changes the times alone.
LEMMA LaterMoved ==
  ASSUME NEW off \in Nat, NEW hi \in Int, NEW x \in Within(0, hi)
  PROVE  Later(x, off) \in Within(off, hi + off) /\ Later(x, off).text = x.text
<1>1. x \in Timed /\ x.start \in Int /\ x.end \in Int /\ x.start \in 0 .. hi /\ x.end \in 0 .. hi
  BY DEF Within, Timed
<1> DEFINE y == Later(x, off)
<1>2. y \in Timed /\ y.text = x.text /\ y.start = x.start + off /\ y.end = x.end + off
  <2>1. DOMAIN x = {"text", "start", "end"} /\ x = [f \in {"text", "start", "end"} |-> x[f]]
        /\ x.text \in Strings
    BY <1>1 DEF Timed
  <2>2. y = [x EXCEPT !.start = x.start + off, !.end = x.end + off]
    BY DEF Later
  <2>3. y.text = x.text
    BY <2>1, <2>2
  <2>4. y.start = x.start + off
    BY <2>1, <2>2
  <2>5. y.end = x.end + off
    BY <2>1, <2>2
  <2>6. y = [text |-> y.text, start |-> y.start, end |-> y.end]
    BY <2>1, <2>2
  <2> HIDE DEF y
  <2>7. y.start \in Int /\ y.end \in Int
    BY <1>1, <2>4, <2>5
  <2>8. QED BY <2>1, <2>3, <2>4, <2>5, <2>6, <2>7 DEF Timed
<1> HIDE DEF y
<1>3. y.start \in off .. hi + off /\ y.end \in off .. hi + off
  BY <1>1, <1>2
<1>4. y \in Within(off, hi + off) /\ y.text = x.text
  BY <1>2, <1>3 DEF Within
<1>5. QED BY <1>4 DEF y

\* What the service gave as words is the utterance's text again, between its times.
LEMMA UtteranceSaid ==
  ASSUME NEW r, GivenUtterance(r), ~Unreadable(r), NEW off \in Nat
  PROVE  /\ Utterance(r, off).text = r.text /\ r.text \in Strings
         /\ Utterance(r, off).words \in Seq(Within(off, r.end + off))
         /\ Utterance(r, off).words # <<>> => TextOf(Utterance(r, off).words) = r.text
<1> DEFINE u == Utterance(r, off)
           filled == Filled(r.text, r.words)
           moved == [i \in DOMAIN filled |-> Later(filled[i], off)]
           hi == r.end
           W == Within(0, hi)
<1>1. /\ r = [text |-> r.text, words |-> r.words, start |-> r.start, end |-> r.end]
      /\ r.text \in Strings /\ r.words \in Seq(WordsSaid) /\ r.start \in Int /\ hi \in Int
  BY DEF GivenUtterance, Utterances
<1>2. u.text = r.text /\ u.words = moved
  <2>1. ASSUME NEW words
        PROVE  /\ Later([r EXCEPT !.words = words], off).text = r.text
               /\ Later([r EXCEPT !.words = words], off).words = words
    BY <1>1 DEF Later
  <2> HIDE DEF moved
  <2>2. u = Later([r EXCEPT !.words = moved], off)
    BY DEF Utterance, moved
  <2>3. QED BY <2>1, <2>2
<1> HIDE DEF u
<1>3. CASE r.words = <<>>
  <2>1. filled = <<>>
    BY <1>3 DEF Filled
  <2>2. moved = <<>>
    BY <2>1
  <2>3. moved \in Seq(Within(off, hi + off))
    BY <2>2
  <2>4. QED BY <1>1, <1>2, <2>2, <2>3 DEF u
<1>4. CASE r.words # <<>>
  <2> DEFINE words == r.words
  <2>1. \A i \in 1 .. Len(words) : words[i] \in WordsSaid /\ words[i].start <= hi /\ words[i].end <= hi
    <3>1. words \in Seq(WordsSaid) /\ DOMAIN words = 1 .. Len(words)
      BY <1>1
    <3>2. \A i \in 1 .. Len(words) : words[i] \in Range(words)
      BY <3>1 DEF Range
    <3>3. \A i \in 1 .. Len(words) : words[i] \in WordsSaid
      BY <3>1
    <3>4. QED BY <3>2, <3>3 DEF GivenUtterance
  <2>2. Len(words) \in Nat /\ Len(words) >= 1 /\ words = [i \in 1 .. Len(words) |-> words[i]]
    BY <1>1, <1>4
  <2> HIDE DEF words
  <2>3. hi \in Nat
    <3>1. words[1] \in WordsSaid /\ words[1].start <= hi
      BY <2>1, <2>2
    <3>2. words[1].start \in Nat
      BY <3>1 DEF WordsSaid
    <3>3. QED BY <1>1, <3>1, <3>2
  <2>4. \A i \in 1 .. Len(words) : words[i] \in W
    <3> SUFFICES ASSUME NEW i \in 1 .. Len(words) PROVE words[i] \in W
      OBVIOUS
    <3> DEFINE w == words[i]
    <3>1. w \in WordsSaid /\ w.start <= hi /\ w.end <= hi
      BY <2>1
    <3> HIDE DEF w
    <3>2. w \in Timed /\ w.start \in 0 .. hi /\ w.end \in 0 .. hi
      BY <1>1, <3>1 DEF WordsSaid, Timed
    <3>3. w \in W
      BY <3>2 DEF Within
    <3>4. QED BY <3>3 DEF w
  <2> HIDE DEF W, hi
  <2>5. words \in Seq(W)
    BY <2>2, <2>4
  <2>6. Readable(r.text, words)
    <3>1. DOMAIN words = 1 .. Len(words)
      BY <2>2
    <3>2. QED BY <3>1 DEF Unreadable, Readable, words
  <2>7. words # <<>> /\ W = Within(0, hi)
    BY <1>4 DEF W, words
  <2>8. Filled(r.text, words) \in Seq(W) /\ TextOf(Filled(r.text, words)) = r.text
    BY <1>1, <2>3, <2>5, <2>6, <2>7, FilledText
  <2>9. filled \in Seq(W) /\ TextOf(filled) = r.text
    BY <2>8 DEF words
  <2> HIDE DEF filled
  <2>10. DOMAIN filled = 1 .. Len(filled) /\ Len(filled) \in Nat /\ \A i \in 1 .. Len(filled) : filled[i] \in W
    BY <2>9
  <2>11. \A i \in 1 .. Len(filled) :
           moved[i] \in Within(off, hi + off) /\ moved[i].text = filled[i].text
    <3> SUFFICES ASSUME NEW i \in 1 .. Len(filled)
                 PROVE  moved[i] \in Within(off, hi + off) /\ moved[i].text = filled[i].text
      OBVIOUS
    <3> DEFINE x == filled[i]
    <3>1. x \in Within(0, hi) /\ moved[i] = Later(x, off)
      BY <2>7, <2>10
    <3> HIDE DEF x, moved
    <3>2. Later(x, off) \in Within(off, hi + off) /\ Later(x, off).text = x.text
      BY <2>3, <3>1, LaterMoved
    <3>3. QED BY <3>1, <3>2 DEF x
  <2>12. moved = [i \in 1 .. Len(filled) |-> moved[i]]
    BY <2>10
  <2> HIDE DEF moved
  <2>13. moved \in Seq(Within(off, hi + off)) /\ Len(moved) = Len(filled)
    BY <2>10, <2>11, <2>12
  <2>14. Parts(filled) /\ Parts(moved)
    <3>1. \A x \in W : x.text \in Strings
      BY <2>7 DEF Within, Timed
    <3>2. \A x \in Within(off, hi + off) : x.text \in Strings
      BY DEF Within, Timed
    <3>3. Parts(filled)
      BY <2>9, <3>1, TextConcat
    <3>4. Parts(moved)
      BY <2>13, <3>2, TextConcat
    <3>5. QED BY <3>3, <3>4
  <2>15. TextOf(moved) = TextOf(filled)
    BY <2>11, <2>13, <2>14, TextSame
  <2>16. QED BY <1>1, <1>2, <2>9, <2>13, <2>15 DEF u, hi
<1>5. QED BY <1>3, <1>4

-----------------------------------------------------------------------------
(* What an utterance is cut into *)

\* The pieces so far, and where the last of them ends.
CutIn(W, n) == [pieces: Seq(W), cursor: 0 .. n, last_comma: 0 .. n]

\* f is the cutting, word by word.
CutAlong(f, u) ==
    f[0] = Cutting(<<>>, 0, 0) /\ \A i \in 1 .. Len(u.words) : f[i] = Cut(u, f[i - 1], i)

\* A part of the words with its text and times.
LEMMA SliceSaid ==
  ASSUME NEW lo, NEW hi, NEW W, W = Within(lo, hi), NEW u, u.words \in Seq(W),
         NEW i \in 1 .. Len(u.words), NEW j \in i .. Len(u.words)
  PROVE  Slice(u, i, j) \in W /\ Slice(u, i, j).text = TextOf(SubSeq(u.words, i, j))
<1> DEFINE words == u.words
           part == SubSeq(words, i, j)
<1>1. words[i] \in W /\ words[j] \in W /\ part \in Seq(W)
  <2>1. Len(words) \in Nat /\ i \in 1 .. Len(words) /\ j \in 1 .. Len(words)
    OBVIOUS
  <2> HIDE DEF words
  <2>2. words \in Seq(W)
    BY DEF words
  <2>3. QED BY <2>1, <2>2
<1>2. \A x \in W : /\ x.text \in Strings /\ x.start \in Int /\ x.end \in Int
                   /\ x.start \in lo .. hi /\ x.end \in lo .. hi
  BY DEF Within, Timed
<1>3. Slice(u, i, j) = [text |-> TextOf(part), start |-> words[i].start, end |-> words[j].end]
  BY DEF Slice
<1> HIDE DEF words, part
<1>4. TextOf(part) \in Strings
  <2>1. Parts(part)
    BY <1>1, <1>2, TextConcat
  <2>2. QED BY <2>1, TextType
<1>5. Slice(u, i, j).text = TextOf(part)
  BY <1>3
<1>6. Slice(u, i, j) \in W
  BY <1>1, <1>2, <1>3, <1>4 DEF Within, Timed
<1>7. QED BY <1>5, <1>6 DEF part, words

\* The words up to a place and those from there on.
LEMMA WordsJoin ==
  ASSUME NEW A, \A x \in A : x.text \in Strings, NEW words \in Seq(A),
         NEW a \in 0 .. Len(words), NEW b \in a .. Len(words)
  PROVE  TextOf(SubSeq(words, 1, b)) = TextOf(SubSeq(words, 1, a)) \o TextOf(SubSeq(words, a + 1, b))
<1> DEFINE x == SubSeq(words, 1, a)
           y == SubSeq(words, a + 1, b)
           z == SubSeq(words, 1, b)
<1>1. x \in Seq(A) /\ y \in Seq(A) /\ x \o y = z
  <2>1. 0 \in 0 .. Len(words) /\ a \in 0 .. Len(words) /\ b \in a .. Len(words) /\ 0 + 1 = 1
    OBVIOUS
  <2>2. /\ SubSeq(words, 0 + 1, a) \in Seq(A) /\ SubSeq(words, a + 1, b) \in Seq(A)
        /\ SubSeq(words, 0 + 1, a) \o SubSeq(words, a + 1, b) = SubSeq(words, 0 + 1, b)
    BY <2>1, SubJoin
  <2>3. QED BY <2>1, <2>2
<1> HIDE DEF x, y, z
<1>2. TextOf(x \o y) = TextOf(x) \o TextOf(y)
  BY <1>1, TextConcat
<1>3. QED BY <1>1, <1>2 DEF x, y, z

\* What has been cut off is the words up to the cursor.
CutSo(acc, u) == TextOf(acc.pieces) = TextOf(SubSeq(u.words, 1, acc.cursor))

\* A cut keeps this.
LEMMA CutStep ==
  ASSUME NEW lo, NEW hi, NEW W, W = Within(lo, hi), NEW u, u.words \in Seq(W),
         NEW acc \in CutIn(W, Len(u.words)), NEW i \in 1 .. Len(u.words), acc.cursor < i
  PROVE  /\ Cut(u, acc, i) \in CutIn(W, Len(u.words)) /\ Cut(u, acc, i).cursor <= i
         /\ CutSo(acc, u) => CutSo(Cut(u, acc, i), u)
<1> DEFINE words == u.words
           n == Len(words)
           c == acc.cursor
           new == Slice(u, c + 1, i)
           after == Cutting(Append(acc.pieces, new), i, i - 1)
           later == Cutting(acc.pieces, c, i - 1)
<1>1. Cut(u, acc, i) \in {acc, later, after}
  BY DEF Cut
<1>2. /\ n \in Nat /\ acc.pieces \in Seq(W) /\ c \in 0 .. n /\ acc.last_comma \in 0 .. n
      /\ i \in 1 .. n /\ c < i /\ i - 1 \in 0 .. n /\ words \in Seq(W)
  BY DEF CutIn
<1>3. \A x \in W : x.text \in Strings
  BY DEF Within, Timed
<1>4. new \in W /\ new.text = TextOf(SubSeq(words, c + 1, i))
  <2>1. c + 1 \in 1 .. Len(u.words) /\ i \in c + 1 .. Len(u.words)
    BY <1>2
  <2> DEFINE k == c + 1
  <2> HIDE DEF k
  <2>2. Slice(u, k, i) \in W /\ Slice(u, k, i).text = TextOf(SubSeq(u.words, k, i))
    BY <2>1, SliceSaid DEF k
  <2>3. QED BY <2>2 DEF k
<1>5. ASSUME Cut(u, acc, i) = acc PROVE Cut(u, acc, i).cursor <= i
  BY <1>2, <1>5
<1>6. later \in CutIn(W, n) /\ later.cursor = c /\ later.pieces = acc.pieces
  BY <1>2 DEF Cutting, CutIn
<1> HIDE DEF new
<1>7. after \in CutIn(W, n) /\ after.cursor = i /\ after.pieces = Append(acc.pieces, new)
  <2>1. Append(acc.pieces, new) \in Seq(W) /\ i \in 0 .. n
    BY <1>2, <1>4
  <2>2. QED BY <1>2, <2>1 DEF Cutting, CutIn
<1> HIDE DEF later, after
<1>8. ASSUME CutSo(acc, u) PROVE CutSo(after, u)
  <2>1. TextOf(acc.pieces) = TextOf(SubSeq(words, 1, c))
    BY <1>8 DEF CutSo
  <2>2. TextOf(Append(acc.pieces, new)) = TextOf(acc.pieces) \o new.text
    <3>1. Parts(acc.pieces)
      BY <1>2, <1>3, TextConcat
    <3>2. QED BY <1>3, <1>4, <3>1, TextAppend
  <2>3. TextOf(SubSeq(words, 1, i)) = TextOf(SubSeq(words, 1, c)) \o TextOf(SubSeq(words, c + 1, i))
    <3>1. c \in 0 .. Len(words) /\ i \in c .. Len(words) /\ words \in Seq(W)
      BY <1>2
    <3> HIDE DEF c, words
    <3>2. QED BY <1>3, <3>1, WordsJoin
  <2>4. TextOf(after.pieces) = TextOf(SubSeq(words, 1, i))
    BY <1>4, <1>7, <2>1, <2>2, <2>3
  <2>5. QED BY <1>7, <2>4 DEF CutSo
<1>9. ASSUME CutSo(acc, u) PROVE CutSo(later, u)
  BY <1>6, <1>9 DEF CutSo
<1>10. CASE Cut(u, acc, i) = acc
  BY <1>5, <1>10
<1>11. CASE Cut(u, acc, i) = later
  BY <1>2, <1>6, <1>9, <1>11
<1>12. CASE Cut(u, acc, i) = after
  BY <1>2, <1>7, <1>8, <1>12
<1>13. QED BY <1>1, <1>10, <1>11, <1>12

\* The loop over the words goes by turns, and never beyond the word it has come to.
LEMMA CutSteps ==
  ASSUME NEW lo, NEW hi, NEW W, W = Within(lo, hi), NEW u, u.words \in Seq(W)
  PROVE  \E f \in [0 .. Len(u.words) -> CutIn(W, Len(u.words))] :
           /\ CutUpTo(u) = f[Len(u.words)] /\ CutAlong(f, u)
           /\ \A i \in 0 .. Len(u.words) : f[i].cursor <= i
<1> DEFINE n == Len(u.words)
           T == CutIn(W, n)
           a == Cutting(<<>>, 0, 0)
           step(x, i) == Cut(u, x, i)
           Eq(f) == f = [i \in 0 .. n |-> IF i = 0 THEN Cutting(<<>>, 0, 0) ELSE Cut(u, f[i - 1], i)]
           k == CHOOSE f : Eq(f)
           guarded(x, i) == IF x.cursor < i THEN step(x, i) ELSE x
           G == [i \in 1 .. n |-> [x \in T |-> guarded(x, i)]]
<1>1. CutUpTo(u) = k[n]
  BY DEF CutUpTo
<1>2. /\ n \in Nat /\ a \in T /\ a.cursor = 0
      /\ \A x \in T, i \in 1 .. n : x.cursor < i => step(x, i) \in T /\ step(x, i).cursor <= i
  <2>1. a \in T /\ a.cursor = 0
    BY DEF Cutting, CutIn
  <2>2. \A x \in T, i \in 1 .. n : x.cursor < i => step(x, i) \in T /\ step(x, i).cursor <= i
    BY CutStep
  <2>3. QED BY <2>1, <2>2
<1>3. \A x \in T : x.cursor \in Int
  BY DEF CutIn
<1> HIDE DEF T, a, step
<1>4. G \in [1 .. n -> [T -> T]] /\ \A x \in T, i \in 1 .. n : G[i][x] = guarded(x, i)
  BY <1>2
<1> HIDE DEF G, n
<1>5. PICK f \in [0 .. n -> T] : Iterates(f, n, a, G)
  BY <1>2, <1>4, Iteration
<1>6. \A i \in 1 .. n : f[i - 1] \in T /\ f[i] = guarded(f[i - 1], i)
  <2>1. \A i \in 1 .. n : f[i - 1] \in T /\ i \in 0 .. n /\ i # 0
    BY <1>2
  <2>2. \A i \in 1 .. n : f[i] = G[i][f[i - 1]]
    BY <1>5, <2>1 DEF Iterates
  <2> HIDE DEF guarded
  <2>3. QED BY <1>4, <2>1, <2>2
<1>7. f[0] = a
  BY <1>2, <1>5 DEF Iterates
<1> DEFINE S == {i \in 0 .. n : f[i].cursor <= i}
<1>8. 0 .. n \subseteq S
  <2>1. 0 \in S
    BY <1>2, <1>7
  <2>2. ASSUME NEW i \in 1 .. n, i - 1 \in S PROVE i \in S
    <3>1. f[i - 1].cursor <= i - 1 /\ f[i - 1].cursor \in Int
      BY <1>3, <1>6, <2>2
    <3>2. f[i - 1].cursor < i /\ i \in 0 .. n
      BY <1>2, <3>1
    <3>3. f[i] = step(f[i - 1], i)
      BY <1>6, <3>2
    <3>4. f[i].cursor <= i
      BY <1>2, <1>6, <3>2, <3>3
    <3>5. QED BY <3>2, <3>4
  <2> HIDE DEF S
  <2>3. QED BY <1>2, <2>1, <2>2, UpTo
<1>9. \A i \in 1 .. n : f[i] = step(f[i - 1], i)
  <2> SUFFICES ASSUME NEW i \in 1 .. n PROVE f[i] = step(f[i - 1], i)
    OBVIOUS
  <2>1. i - 1 \in 0 .. n
    BY <1>2
  <2>2. f[i - 1].cursor <= i - 1 /\ f[i - 1].cursor \in Int
    BY <1>3, <1>6, <1>8, <2>1
  <2>3. f[i - 1].cursor < i
    BY <1>2, <2>2
  <2>4. QED BY <1>6, <2>3
<1>10. Eq(f)
  <2>1. ASSUME NEW i \in 0 .. n PROVE f[i] = IF i = 0 THEN a ELSE step(f[i - 1], i)
    <3>1. i # 0 => i \in 1 .. n
      BY <1>2
    <3>2. QED BY <1>7, <1>9, <3>1
  <2>2. f = [i \in 0 .. n |-> IF i = 0 THEN a ELSE step(f[i - 1], i)]
    BY <2>1
  <2>3. QED BY <2>2 DEF step, a
<1>11. Eq(k)
  BY <1>10
<1> HIDE DEF k
<1>12. k = [i \in 0 .. n |-> IF i = 0 THEN a ELSE step(k[i - 1], i)]
  BY <1>11 DEF step, a
<1> DEFINE R == {i \in 0 .. n : k[i] = f[i]}
<1>13. 0 .. n \subseteq R
  <2>1. 0 \in R
    BY <1>2, <1>7, <1>12
  <2>2. ASSUME NEW i \in 1 .. n, i - 1 \in R PROVE i \in R
    <3>1. i \in 0 .. n /\ i # 0
      BY <1>2
    <3>2. k[i] = step(k[i - 1], i)
      BY <1>12, <3>1
    <3>3. k[i - 1] = f[i - 1] /\ f[i] = step(f[i - 1], i)
      BY <1>9, <2>2
    <3>4. QED BY <3>1, <3>2, <3>3
  <2> HIDE DEF R
  <2>3. QED BY <1>2, <2>1, <2>2, UpTo
<1>14. k[n] = f[n]
  <2>1. n \in 0 .. n
    BY <1>2
  <2>2. QED BY <1>13, <2>1
<1>15. CutAlong(f, u)
  BY <1>7, <1>9 DEF CutAlong, n, a, step
<1>16. \A i \in 0 .. n : f[i].cursor <= i
  BY <1>8
<1>17. QED BY <1>1, <1>14, <1>15, <1>16 DEF n, T

\* Cutting an utterance loses and doubles nothing of it, and keeps to its times.
LEMMA PiecesSaid ==
  ASSUME NEW lo, NEW hi, NEW W, W = Within(lo, hi), NEW u, u.words \in Seq(W)
  PROVE  PiecesOf(u) \in Seq(W) /\ TextOf(PiecesOf(u)) = TextOf(u.words)
<1> DEFINE words == u.words
           n == Len(words)
<1>1. n \in Nat /\ words \in Seq(W)
  OBVIOUS
<1>2. \A x \in W : x.text \in Strings
  BY DEF Within, Timed
<1>3. PICK f \in [0 .. n -> CutIn(W, n)] :
        /\ CutUpTo(u) = f[n] /\ CutAlong(f, u)
        /\ \A i \in 0 .. n : f[i].cursor <= i
  BY CutSteps
<1> DEFINE S == {i \in 0 .. n : CutSo(f[i], u)}
<1>4. 0 \in S
  <2>1. f[0].pieces = <<>> /\ f[0].cursor = 0
    BY <1>3 DEF CutAlong, Cutting
  <2>2. SubSeq(words, 1, 0) = <<>>
    BY <1>1
  <2>3. CutSo(f[0], u)
    BY <2>1, <2>2 DEF CutSo
  <2>4. QED BY <1>1, <2>3
<1>5. ASSUME NEW i \in 1 .. n, i - 1 \in S PROVE i \in S
  <2> DEFINE acc == f[i - 1]
  <2>1. i - 1 \in 0 .. n /\ i \in 0 .. n
    BY <1>1
  <2>2. acc \in CutIn(W, Len(u.words)) /\ acc.cursor <= i - 1 /\ CutSo(acc, u)
    BY <1>3, <1>5, <2>1
  <2>3. acc.cursor < i
    <3>1. acc.cursor \in Int
      BY <2>2 DEF CutIn
    <3>2. QED BY <1>1, <2>2, <3>1
  <2>4. f[i] = Cut(u, acc, i)
    BY <1>3 DEF CutAlong
  <2> HIDE DEF acc
  <2>5. CutSo(Cut(u, acc, i), u)
    BY <2>2, <2>3, CutStep
  <2>6. QED BY <2>1, <2>4, <2>5
<1> HIDE DEF S
<1>6. 0 .. n \subseteq S
  BY <1>1, <1>4, <1>5, UpTo
<1> DEFINE acc == CutUpTo(u)
           c == acc.cursor
           rest == Slice(u, c + 1, n)
<1>7. acc \in CutIn(W, n) /\ CutSo(acc, u)
  <2>1. n \in S /\ n \in 0 .. n
    BY <1>1, <1>6
  <2>2. QED BY <1>3, <2>1 DEF S
<1> HIDE DEF acc
<1>8. acc.pieces \in Seq(W) /\ c \in 0 .. n /\ TextOf(acc.pieces) = TextOf(SubSeq(words, 1, c))
  BY <1>7 DEF CutIn, CutSo
<1>9. PiecesOf(u) = IF c < n /\ rest.text # <<>> THEN Append(acc.pieces, rest) ELSE acc.pieces
  BY DEF PiecesOf, WithRest, acc
<1>10. SubSeq(words, 1, n) = words
  BY <1>1
<1>11. CASE c < n
  <2>1. c + 1 \in 1 .. Len(u.words) /\ n \in c + 1 .. Len(u.words)
    BY <1>1, <1>8, <1>11
  <2>2. rest \in W /\ rest.text = TextOf(SubSeq(words, c + 1, n))
    <3> DEFINE k == c + 1
    <3> HIDE DEF k
    <3>1. Slice(u, k, n) \in W /\ Slice(u, k, n).text = TextOf(SubSeq(u.words, k, n))
      BY <2>1, SliceSaid DEF k
    <3>2. QED BY <3>1 DEF k
  <2>3. TextOf(SubSeq(words, 1, n)) = TextOf(SubSeq(words, 1, c)) \o TextOf(SubSeq(words, c + 1, n))
    <3>1. c \in 0 .. Len(words) /\ n \in c .. Len(words)
      BY <1>1, <1>8, <1>11
    <3> HIDE DEF c, n, words
    <3>2. QED BY <1>1, <1>2, <3>1, WordsJoin
  <2> HIDE DEF rest, c, n, words
  <2>4. TextOf(words) = TextOf(acc.pieces) \o rest.text
    BY <1>8, <1>10, <2>2, <2>3
  <2>5. Parts(acc.pieces)
    BY <1>2, <1>8, TextConcat
  <2>6. TextOf(acc.pieces) \in Strings /\ TextOf(acc.pieces) \o <<>> = TextOf(acc.pieces)
    BY <2>5, TextType, TextJoined
  <2>7. CASE rest.text = <<>>
    BY <1>8, <1>9, <2>4, <2>6, <2>7 DEF words
  <2>8. CASE rest.text # <<>>
    <3>1. PiecesOf(u) = Append(acc.pieces, rest)
      BY <1>9, <1>11, <2>8
    <3>2. Append(acc.pieces, rest) \in Seq(W)
      BY <1>8, <2>2
    <3>3. TextOf(Append(acc.pieces, rest)) = TextOf(acc.pieces) \o rest.text
      BY <1>2, <2>2, <2>5, TextAppend
    <3>4. QED BY <2>4, <3>1, <3>2, <3>3 DEF words
  <2>9. QED BY <2>7, <2>8
<1>12. CASE ~(c < n)
  <2>1. c = n
    BY <1>1, <1>8, <1>12
  <2>2. PiecesOf(u) = acc.pieces
    BY <1>9, <1>12
  <2>3. TextOf(acc.pieces) = TextOf(words)
    BY <1>8, <1>10, <2>1
  <2>4. QED BY <1>8, <2>2, <2>3
<1>13. QED BY <1>11, <1>12

-----------------------------------------------------------------------------
(* What a dialogue is cut into *)

\* f is the pieces, utterance by utterance.
SubAlong(f, us) ==
    f[0] = <<>> /\ \A i \in 1 .. Len(us) : f[i] = f[i - 1] \o PiecesOf(us[i])

\* The loop over the utterances goes by turns.
LEMMA SubSteps ==
  ASSUME NEW d, AList(d.utterances), NEW A,
         \A i \in 1 .. Len(d.utterances) : PiecesOf(d.utterances[i]) \in Seq(A)
  PROVE  \E f \in [0 .. Len(d.utterances) -> Seq(A)] :
           sub_utterances(d) = f[Len(d.utterances)] /\ SubAlong(f, d.utterances)
<1> DEFINE us == d.utterances
           n == Len(us)
           T == Seq(A)
           a == <<>>
           step(x, i) == x \o PiecesOf(us[i])
           Eq(f) == f = [i \in 0 .. n |-> IF i = 0 THEN <<>> ELSE f[i - 1] \o PiecesOf(us[i])]
           k == CHOOSE f : Eq(f)
           G == [i \in 1 .. n |-> [x \in T |-> step(x, i)]]
<1>1. sub_utterances(d) = k[n]
  BY DEF sub_utterances
<1>2. n \in Nat /\ a \in T /\ \A x \in T, i \in 1 .. n : step(x, i) \in T
  <2>1. n \in Nat
    BY ListDomain
  <2>2. ASSUME NEW x \in T, NEW i \in 1 .. n PROVE step(x, i) \in T
    <3> DEFINE y == PiecesOf(us[i])
    <3>1. y \in Seq(A) /\ x \in Seq(A)
      OBVIOUS
    <3> HIDE DEF y
    <3>2. x \o y \in Seq(A)
      BY ONLY <3>1
    <3>3. QED BY <3>2 DEF y
  <2>3. QED BY <2>1, <2>2
<1> HIDE DEF T, a
<1>3. G \in [1 .. n -> [T -> T]] /\ \A x \in T, i \in 1 .. n : G[i][x] = step(x, i)
  BY <1>2
<1> HIDE DEF G, n
<1>4. PICK f \in [0 .. n -> T] : Iterates(f, n, a, G)
  BY <1>2, <1>3, Iteration
<1> HIDE DEF step
<1>5. \A i \in 1 .. n : f[i - 1] \in T /\ G[i][f[i - 1]] = step(f[i - 1], i)
  <2>1. \A i \in 1 .. n : f[i - 1] \in T
    BY <1>2
  <2>2. QED BY <1>3, <2>1
<1>6. Eq(f)
  <2>1. f = [i \in 0 .. n |-> IF i = 0 THEN a ELSE G[i][f[i - 1]]]
    BY <1>4 DEF Iterates
  <2>2. ASSUME NEW i \in 0 .. n PROVE f[i] = IF i = 0 THEN a ELSE step(f[i - 1], i)
    <3>1. i # 0 => i \in 1 .. n
      BY <1>2
    <3>2. f[i] = IF i = 0 THEN a ELSE G[i][f[i - 1]]
      BY <2>1
    <3>3. QED BY <1>5, <3>1, <3>2
  <2>3. f = [i \in 0 .. n |-> IF i = 0 THEN a ELSE step(f[i - 1], i)]
    BY <2>2
  <2>4. QED BY <2>3 DEF step, a
<1>7. Eq(k)
  BY <1>6
<1> HIDE DEF k
<1>8. k = [i \in 0 .. n |-> IF i = 0 THEN a ELSE step(k[i - 1], i)]
  BY <1>7 DEF step, a
<1>9. k[0] = a /\ \A i \in 1 .. n : k[i] = step(k[i - 1], i)
  <2>1. \A i \in 0 .. n : k[i] = IF i = 0 THEN a ELSE step(k[i - 1], i)
    BY <1>8
  <2>2. 0 \in 0 .. n /\ \A i \in 1 .. n : i \in 0 .. n /\ i # 0
    BY <1>2
  <2>3. QED BY <2>1, <2>2
<1>10. k = [i \in 0 .. n |-> k[i]]
  BY <1>8
<1>11. k \in [0 .. n -> T]
  <2>1. k[0] \in T /\ \A i \in 1 .. n : k[i - 1] \in T => k[i] \in T
    BY <1>2, <1>9
  <2>2. QED BY <1>2, <1>10, <2>1, StaysIn
<1>12. SubAlong(k, us)
  BY <1>9 DEF SubAlong, n, a, step
<1>13. QED BY <1>1, <1>11, <1>12 DEF n, T

\* A dialogue whose words are its texts, cut into pieces of A.
Speaks(d, A) ==
    /\ AList(d.utterances) /\ d.text = TextOf(d.utterances) /\ \A x \in A : x.text \in Strings
    /\ \A i \in 1 .. Len(d.utterances) :
         /\ d.utterances[i].text \in Strings
         /\ PiecesOf(d.utterances[i]) \in Seq(A)
         /\ TextOf(PiecesOf(d.utterances[i])) = TextOf(d.utterances[i].words)
         /\ d.utterances[i].words # <<>> =>
              TextOf(d.utterances[i].words) = d.utterances[i].text

\* The utterances that have words.
Worded(us) == {u \in Range(us) : u.words # <<>>}

\* Cutting a dialogue loses and doubles nothing of what has words.
LEMMA SubSaid ==
  ASSUME NEW d, NEW A, Speaks(d, A)
  PROVE  /\ sub_utterances(d) \in Seq(A)
         /\ Parts(Select(d.utterances, Worded(d.utterances)))
         /\ TextOf(sub_utterances(d)) = TextOf(Select(d.utterances, Worded(d.utterances)))
<1> DEFINE us == d.utterances
           n == Len(us)
           U == Range(us)
           S == Worded(us)
<1>1. n \in Nat /\ us \in Seq(U) /\ DOMAIN us = 1 .. n
  BY ListDomain DEF Speaks, AList
<1>2. \A x \in A : x.text \in Strings
  BY DEF Speaks
<1>3. \A x \in U : x.text \in Strings
  <2>1. \A x \in U : \E i \in 1 .. n : x = us[i]
    BY <1>1 DEF Range
  <2>2. QED BY <2>1 DEF Speaks
<1>4. PICK f \in [0 .. n -> Seq(A)] : sub_utterances(d) = f[n] /\ SubAlong(f, us)
  BY SubSteps DEF Speaks
<1>5. PICK g \in [0 .. n -> Seq(U)] : Select(us, S) = g[n] /\ SelectsAlong(g, us, S)
  <2>1. us \in Seq(U)
    BY <1>1
  <2> HIDE DEF us, U, S
  <2>2. QED BY <2>1, SelectSteps DEF n
<1>6. \A x \in Seq(A) : Parts(x)
  BY <1>2, TextConcat
<1>7. \A x \in Seq(U) : Parts(x)
  <2> HIDE DEF U
  <2>1. QED BY <1>3, TextConcat
<1> DEFINE R == {i \in 0 .. n : TextOf(f[i]) = TextOf(g[i])}
<1>8. 0 \in R
  BY <1>1, <1>4, <1>5 DEF SubAlong, SelectsAlong
<1>9. ASSUME NEW i \in 1 .. n, i - 1 \in R PROVE i \in R
  <2> DEFINE u == us[i]
             pieces == PiecesOf(u)
  <2>1. i - 1 \in 0 .. n /\ i \in 0 .. n
    BY <1>1
  <2>2. f[i - 1] \in Seq(A) /\ g[i - 1] \in Seq(U)
    BY <2>1
  <2>3. f[i] = f[i - 1] \o pieces
    BY <1>4 DEF SubAlong
  <2>4. g[i] = IF u \in S THEN Append(g[i - 1], u) ELSE g[i - 1]
    BY <1>5 DEF SelectsAlong
  <2>5. u \in S <=> u.words # <<>>
    BY <1>1 DEF Worded, Range
  <2>6. /\ u.text \in Strings /\ pieces \in Seq(A) /\ TextOf(pieces) = TextOf(u.words)
        /\ u.words # <<>> => TextOf(u.words) = u.text
    BY DEF Speaks
  <2> HIDE DEF u, pieces, S, U
  <2>7. TextOf(f[i - 1] \o pieces) = TextOf(f[i - 1]) \o TextOf(pieces)
    BY <1>2, <2>2, <2>6, TextConcat
  <2>8. TextOf(f[i]) = TextOf(g[i - 1]) \o TextOf(u.words)
    BY <1>9, <2>3, <2>6, <2>7
  <2>9. CASE u.words = <<>>
    <3>1. TextOf(g[i - 1]) \in Strings
      BY <1>7, <2>2, TextType
    <3>2. TextOf(g[i - 1]) \o <<>> = TextOf(g[i - 1])
      BY <3>1, TextJoined
    <3>3. TextOf(u.words) = <<>>
      BY <2>9, TextEmpty
    <3>4. QED BY <2>1, <2>4, <2>5, <2>8, <2>9, <3>2, <3>3
  <2>10. CASE u.words # <<>>
    <3>1. TextOf(Append(g[i - 1], u)) = TextOf(g[i - 1]) \o u.text
      BY <1>7, <2>2, <2>6, TextAppend
    <3>2. QED BY <2>1, <2>4, <2>5, <2>6, <2>8, <2>10, <3>1
  <2>11. QED BY <2>9, <2>10
<1> HIDE DEF R
<1>10. 0 .. n \subseteq R
  BY <1>1, <1>8, <1>9, UpTo
<1>11. n \in R /\ n \in 0 .. n
  BY <1>1, <1>10
<1>12. TextOf(f[n]) = TextOf(g[n]) /\ f[n] \in Seq(A) /\ g[n] \in Seq(U)
  BY <1>11 DEF R
<1>13. Parts(Select(us, S))
  BY <1>5, <1>7, <1>12
<1>14. QED BY <1>4, <1>5, <1>12, <1>13

-----------------------------------------------------------------------------
(* What passes *)

\* Two texts of the same characters are as similar as can be.
LEMMA SameReaches ==
  ASSUME NEW a \in Strings, NEW b \in Strings, \A c : c \in Characters(a) <=> c \in Characters(b),
         NEW tenths \in Int, tenths <= 10
  PROVE  Reaches(Similarity(a, b), tenths)
<1> DEFINE C == Characters(a)
           k == Cardinality(C)
<1>1. Characters(b) = C
  OBVIOUS
<1>2. Similarity(a, b).shared = k /\ Similarity(a, b).all = k
  <2>1. C \cap C = C /\ C \cup C = C
    OBVIOUS
  <2> HIDE DEF C
  <2>2. QED BY <1>1, <2>1 DEF Similarity, C
<1>3. IsFiniteSet(C)
  <2>1. DOMAIN a = 1 .. Len(a) /\ Len(a) \in Int /\ 1 \in Int
    BY DEF Strings
  <2>2. IsFiniteSet(DOMAIN a)
    BY <2>1, FS_Interval
  <2>3. C = {a[i] : i \in DOMAIN a}
    BY DEF Characters
  <2>4. a \in Surjection(DOMAIN a, C)
    <3>1. a = [i \in DOMAIN a |-> a[i]]
      BY DEF Strings
    <3>2. a \in [DOMAIN a -> C]
      BY <2>3, <3>1
    <3>3. \A c \in C : \E i \in DOMAIN a : a[i] = c
      BY <2>3
    <3>4. QED BY <3>2, <3>3 DEF Surjection
  <2>5. QED BY <2>2, <2>4, FS_Surjection
<1>4. k \in Nat
  <2> HIDE DEF C
  <2>1. QED BY <1>3, FS_CardinalityType
<1> HIDE DEF k, C
<1>5. tenths * k <= 10 * k
  <2>1. (10 - tenths) * k >= 0
    BY <1>4
  <2>2. (10 - tenths) * k = 10 * k - tenths * k
    BY <1>4
  <2>3. tenths * k \in Int /\ 10 * k \in Int
    BY <1>4
  <2>4. QED BY <2>1, <2>2, <2>3
<1>6. 10 * Similarity(a, b).shared >= tenths * Similarity(a, b).all
  <2>1. tenths * k \in Int /\ 10 * k \in Int
    BY <1>4
  <2>2. QED BY <1>2, <1>5, <2>1
<1>7. QED BY <1>6 DEF Reaches

\* What hits all pieces of a dialogue that has words everywhere has all its characters.
LEMMA AllSimilar ==
  ASSUME NEW d, NEW A, Speaks(d, A), NEW hits \in Seq(DOMAIN sub_utterances(d)),
         Range(hits) = DOMAIN sub_utterances(d),
         \A i \in DOMAIN d.utterances : d.utterances[i].words # <<>>,
         NEW tenths \in Int, tenths <= 10
  PROVE  Reaches(Result(d, sub_utterances(d), hits).score, tenths)
<1> DEFINE P == sub_utterances(d)
           us == d.utterances
           kept == Select(us, Worded(us))
           H == [i \in DOMAIN hits |-> P[hits[i]]]
<1>1. P \in Seq(A) /\ Parts(kept) /\ TextOf(P) = TextOf(kept)
  BY SubSaid
<1>2. Parts(P)
  <2>1. \A x \in A : x.text \in Strings
    BY DEF Speaks
  <2> HIDE DEF P
  <2>2. QED BY <1>1, <2>1, TextConcat
<1>3. Parts(us) /\ DOMAIN us = 1 .. Len(us) /\ d.text = TextOf(us)
  BY ListDomain DEF Speaks, Parts
<1> HIDE DEF P
<1>4. DOMAIN P = 1 .. Len(P) /\ \A i \in DOMAIN P : P[i].text \in Strings
  BY <1>1, <1>2 DEF Parts
<1>5. Len(hits) \in Nat /\ DOMAIN hits = 1 .. Len(hits) /\ \A i \in 1 .. Len(hits) : hits[i] \in DOMAIN P
  BY DEF P
<1>6. H = [i \in 1 .. Len(hits) |-> H[i]] /\ \A i \in 1 .. Len(hits) : H[i] = P[hits[i]]
  BY <1>5
<1> HIDE DEF H
<1>7. AList(H) /\ Len(H) = Len(hits)
  BY <1>5, <1>6, FunctionList
<1>8. Parts(H)
  BY <1>4, <1>5, <1>6, <1>7 DEF Parts
<1>9. ASSUME NEW c PROVE c \in Characters(TextOf(H)) <=> c \in Characters(TextOf(P))
  <2>1. c \in Characters(TextOf(H)) <=> \E i \in 1 .. Len(H) : c \in Characters(H[i].text)
    BY <1>8, TextCharacters
  <2>2. c \in Characters(TextOf(P)) <=> \E i \in 1 .. Len(P) : c \in Characters(P[i].text)
    BY <1>2, TextCharacters
  <2>3. \A i \in 1 .. Len(P) : \E j \in 1 .. Len(hits) : hits[j] = i
    BY <1>4, <1>5 DEF Range, P
  <2>4. QED BY <1>4, <1>5, <1>6, <1>7, <2>1, <2>2, <2>3
<1>10. ASSUME NEW c PROVE c \in Characters(TextOf(kept)) <=> c \in Characters(TextOf(us))
  <2>1. c \in Characters(TextOf(kept)) <=> \E i \in 1 .. Len(kept) : c \in Characters(kept[i].text)
    BY <1>1, TextCharacters
  <2>2. c \in Characters(TextOf(us)) <=> \E i \in 1 .. Len(us) : c \in Characters(us[i].text)
    BY <1>3, TextCharacters
  <2>3. \A x : Has(kept, x) <=> Has(us, x)
    <3> SUFFICES ASSUME NEW x PROVE Has(kept, x) <=> Has(us, x)
      OBVIOUS
    <3>1. us \in Seq(Range(us))
      BY <1>3 DEF Parts, AList
    <3> DEFINE S == Worded(us)
    <3>2. Has(us, x) => x \in S
      BY <1>3 DEF Has, Worded, Range
    <3> HIDE DEF S, us
    <3>3. Has(Select(us, S), x) <=> x \in S /\ Has(us, x)
      BY <3>1, SelectMembers
    <3>4. QED BY <3>2, <3>3 DEF S
  <2> HIDE DEF kept
  <2>4. (\E i \in 1 .. Len(kept) : c \in Characters(kept[i].text))
          <=> \E x : Has(kept, x) /\ c \in Characters(x.text)
    BY DEF Has
  <2>5. (\E i \in 1 .. Len(us) : c \in Characters(us[i].text))
          <=> \E x : Has(us, x) /\ c \in Characters(x.text)
    BY DEF Has
  <2>6. QED BY <2>1, <2>2, <2>3, <2>4, <2>5
<1>11. \A c : c \in Characters(TextOf(H)) <=> c \in Characters(d.text)
  BY <1>1, <1>3, <1>9, <1>10
<1>12. TextOf(H) \in Strings /\ d.text \in Strings
  BY <1>3, <1>8, TextType
<1>13. Reaches(Similarity(TextOf(H), d.text), tenths)
  BY <1>11, <1>12, SameReaches
<1>14. Result(d, P, hits).score = Similarity(TextOf(H), d.text)
  BY DEF Result, H
<1>15. QED BY <1>13, <1>14 DEF P

-----------------------------------------------------------------------------
(* What the rules hear *)

\* A time in the part of the video the sound was taken from.
Inside(time, t) ==
    time >= t.offset /\ \E end \in {t.said[i].end : i \in DOMAIN t.said} : time <= end + t.offset

\* What is said there.
SaidInside(t) == {x \in Timed : Inside(x.start, t) /\ Inside(x.end, t)}

\* What SpeechAssumption says of a task.
LEMMA TaskSaid ==
  ASSUME NEW t \in Tasks
  PROVE  /\ t.said \in Seq(Utterances) /\ t.offset \in Nat
         /\ \A i \in 1 .. Len(t.said) : GivenUtterance(t.said[i])
         /\ t.scripts \in Rules /\ OwnIds(t.scripts)
         /\ \A n \in DOMAIN t.scripts : t.scripts[n].threshold \in Int /\ t.scripts[n].threshold <= 10
<1>1. t.said \in Seq(Utterances) /\ t.offset \in Nat /\ t.scripts \in Rules
  BY SpeechAssumption DEF Rules
<1>2. /\ \A i \in DOMAIN t.said : \A w \in Range(t.said[i].words) :
           w.start <= t.said[i].end /\ w.end <= t.said[i].end
      /\ \A m, n \in DOMAIN t.scripts :
           t.scripts[m].threshold <= 10 /\ (t.scripts[m].id = t.scripts[n].id => m = n)
  BY SpeechAssumption
<1>3. \A i \in 1 .. Len(t.said) : GivenUtterance(t.said[i])
  <2>1. DOMAIN t.said = 1 .. Len(t.said) /\ \A i \in 1 .. Len(t.said) : t.said[i] \in Utterances
    BY <1>1
  <2>2. QED BY <1>2, <2>1 DEF GivenUtterance
<1>4. \A n \in DOMAIN t.scripts : t.scripts[n].threshold \in Int
  <2> DEFINE R == [id: RuleIds, script: Seq(Strings), threshold: Int]
             scripts == t.scripts
  <2>1. scripts \in Seq(R) /\ \A x \in R : x.threshold \in Int
    BY <1>1 DEF Rules
  <2> HIDE DEF R, scripts
  <2>2. \A n \in DOMAIN scripts : scripts[n] \in R
    BY <2>1
  <2>3. QED BY <2>1, <2>2 DEF scripts
<1>5. QED BY <1>1, <1>2, <1>3, <1>4 DEF OwnIds

\* What is between the offset and the moved end of an utterance is in the video.
LEMMA InsideEnds ==
  ASSUME NEW t, NEW e \in {t.said[j].end : j \in DOMAIN t.said}, e \in Int, t.offset \in Nat,
         NEW time \in t.offset .. e + t.offset
  PROVE  Inside(time, t)
<1>1. time >= t.offset /\ time <= e + t.offset
  OBVIOUS
<1>2. QED BY <1>1 DEF Inside

\* What was transcribed of a task speaks, inside its times.
LEMMA DialogueSpeaks ==
  ASSUME NEW t \in Tasks, \A i \in DOMAIN t.said : ~Unreadable(t.said[i])
  PROVE  Speaks(Dialogue(t.said, t.offset), SaidInside(t))
<1> DEFINE d == Dialogue(t.said, t.offset)
           us == d.utterances
           said == t.said
           n == Len(said)
           A == SaidInside(t)
<1>1. /\ said \in Seq(Utterances) /\ t.offset \in Nat /\ n \in Nat /\ DOMAIN said = 1 .. n
      /\ \A i \in 1 .. n : GivenUtterance(said[i])
  BY TaskSaid
<1>2. d.text = TextOf(said) /\ us = [i \in 1 .. n |-> Utterance(said[i], t.offset)]
  BY <1>1 DEF Dialogue
<1> HIDE DEF us, d
<1>3. AList(us) /\ Len(us) = n /\ \A i \in 1 .. n : us[i] = Utterance(said[i], t.offset)
  <2>1. \A i \in 1 .. n : us[i] = Utterance(said[i], t.offset)
    BY <1>2
  <2>2. us = [i \in 1 .. n |-> us[i]]
    BY <1>2
  <2>3. AList(us) /\ Len(us) = n
    <3> HIDE DEF n
    <3>1. QED BY <1>1, <2>2, FunctionList
  <2>4. QED BY <2>1, <2>3
<1>4. \A x \in A : x.text \in Strings
  BY DEF SaidInside, Timed
<1>5. ASSUME NEW i \in 1 .. n
      PROVE  /\ us[i].text = said[i].text /\ us[i].text \in Strings
             /\ PiecesOf(us[i]) \in Seq(A)
             /\ TextOf(PiecesOf(us[i])) = TextOf(us[i].words)
             /\ us[i].words # <<>> => TextOf(us[i].words) = us[i].text
  <2> DEFINE r == said[i]
             u == us[i]
             lo == t.offset
             hi == r.end + t.offset
             W == Within(lo, hi)
  <2>1. GivenUtterance(r) /\ ~Unreadable(r) /\ u = Utterance(r, t.offset)
    BY <1>1, <1>3
  <2> HIDE DEF r
  <2>2. /\ u.text = r.text /\ r.text \in Strings
        /\ u.words \in Seq(W)
        /\ u.words # <<>> => TextOf(u.words) = r.text
    <3>1. /\ Utterance(r, t.offset).text = r.text /\ r.text \in Strings
          /\ Utterance(r, t.offset).words \in Seq(Within(t.offset, r.end + t.offset))
          /\ Utterance(r, t.offset).words # <<>> => TextOf(Utterance(r, t.offset).words) = r.text
      BY <1>1, <2>1, UtteranceSaid
    <3> HIDE DEF u
    <3>2. QED BY <2>1, <3>1
  <2> HIDE DEF u, W, lo, hi
  <2>3. PiecesOf(u) \in Seq(W) /\ TextOf(PiecesOf(u)) = TextOf(u.words)
    BY <2>2, PiecesSaid DEF W
  <2>4. W \subseteq A
    <3> SUFFICES ASSUME NEW x \in W PROVE x \in A
      OBVIOUS
    <3>1. x \in Timed /\ x.start \in lo .. hi /\ x.end \in lo .. hi
      BY DEF W, Within
    <3>2. r.end \in {said[j].end : j \in DOMAIN said}
      BY <1>1 DEF r
    <3>3. r.end \in Int
      BY <2>1 DEF GivenUtterance, Utterances
    <3>4. Inside(x.start, t) /\ Inside(x.end, t)
      <4>1. x.start \in t.offset .. r.end + t.offset /\ x.end \in t.offset .. r.end + t.offset
        BY <3>1 DEF lo, hi
      <4>2. t.offset \in Nat /\ r.end \in {t.said[j].end : j \in DOMAIN t.said}
        BY <1>1, <3>2
      <4> HIDE DEF r
      <4>3. QED BY <3>3, <4>1, <4>2, InsideEnds
    <3>5. QED BY <3>1, <3>4 DEF SaidInside
  <2> DEFINE pieces == PiecesOf(u)
  <2>5. pieces \in Seq(A)
    <3>1. pieces \in Seq(W)
      BY <2>3
    <3> HIDE DEF pieces, A
    <3>2. pieces = [j \in 1 .. Len(pieces) |-> pieces[j]] /\ Len(pieces) \in Nat
          /\ \A j \in 1 .. Len(pieces) : pieces[j] \in W
      BY <3>1
    <3>3. \A j \in 1 .. Len(pieces) : pieces[j] \in A
      BY <2>4, <3>2
    <3>4. QED BY <3>2, <3>3
  <2>6. QED BY <2>2, <2>3, <2>5 DEF u, r
<1>6. d.text = TextOf(us)
  <2>1. Parts(us)
    BY <1>3, <1>5 DEF Parts
  <2>2. AList(said)
    BY <1>1, ListType
  <2>3. Parts(said)
    BY <1>5, <2>2 DEF Parts
  <2>4. TextOf(us) = TextOf(said)
    BY <1>3, <1>5, <2>1, <2>3, TextSame
  <2>5. QED BY <1>2, <2>4
<1> HIDE DEF A, n
<1>7. Speaks(d, A)
  BY <1>3, <1>4, <1>5, <1>6 DEF Speaks, us
<1>8. QED BY <1>7 DEF d, A

\* Silence speaks nothing.
LEMMA SilenceSpeaks ==
  ASSUME NEW A, \A x \in A : x.text \in Strings
  PROVE  Speaks(Silence, A)
<1>1. Silence.utterances = <<>> /\ Silence.text = <<>>
  BY DEF Silence
<1>2. AList(<<>>) /\ Len(<<>>) = 0
  BY DEF AList, Range
<1>3. QED BY <1>1, <1>2, TextEmpty DEF Speaks

\* So the dialogue does, in every state.
LEMMA StateSpeaks ==
  SpeechInv => Speaks(dialogue, SaidInside(task))
<1> SUFFICES ASSUME SpeechInv PROVE Speaks(dialogue, SaidInside(task))
  OBVIOUS
<1>1. task \in Tasks /\ Transcribed
  BY DEF SpeechInv
<1>2. CASE dialogue = Silence
  <2>1. \A x \in SaidInside(task) : x.text \in Strings
    BY DEF SaidInside, Timed
  <2>2. QED BY <1>2, <2>1, SilenceSpeaks
<1>3. CASE dialogue # Silence
  BY <1>1, <1>3, DialogueSpeaks DEF Transcribed
<1>4. QED BY <1>2, <1>3

\* What the rules heard is placed, counted once, and leaves nothing.
LEMMA HeardInv ==
  SpeechInv => ScriptsHeard
<1> SUFFICES ASSUME SpeechInv PROVE ScriptsHeard
  OBVIOUS
<1> DEFINE A == SaidInside(task)
           P == sub_utterances(dialogue)
           D == DOMAIN P
           scripts == task.scripts
           M == MatchesOf(dialogue, P, scripts)
<1>1. Speaks(dialogue, A) /\ P \in Seq(A)
  <2>1. Speaks(dialogue, A)
    BY StateSpeaks
  <2>2. QED BY <2>1, SubSaid
<1>2. WholeTextCut
  BY <1>1, SubSaid DEF WholeTextCut, Worded
<1>3. task \in Tasks
  BY DEF SpeechInv
<1>4. /\ scripts \in Rules /\ OwnIds(scripts)
      /\ \A n \in DOMAIN scripts : scripts[n].threshold \in Int /\ scripts[n].threshold <= 10
  BY <1>3, TaskSaid
<1> HIDE DEF A
<1>5. AllOf(D, P)
  <2> HIDE DEF P
  <2>1. D = 1 .. Len(P) /\ Len(P) \in Nat
    BY <1>1
  <2>2. QED BY <2>1 DEF AllOf
<1>6. ASSUME matched # None PROVE matched[1] = M
  <2>1. matched = <<_short_match(dialogue, task.scripts)>>
    BY <1>6 DEF SpeechInv
  <2>2. matched[1] = _short_match(dialogue, task.scripts)
    BY <2>1
  <2>3. QED BY <2>2 DEF _short_match
<1> HIDE DEF scripts
<1>7. ASSUME matched # None PROVE CountedOnce
  <2>1. \A r \in DOMAIN M, s \in DOMAIN M :
          \A i \in DOMAIN M[r].hits, j \in DOMAIN M[s].hits :
            M[r].hits[i] = M[s].hits[j] => r = s /\ i = j
    <3> HIDE DEF P, D
    <3>1. QED BY <1>4, <1>5, ResultsOnce
  <2> HIDE DEF M
  <2>2. QED BY <1>6, <1>7, <2>1 DEF CountedOnce
<1>8. ASSUME matched # None PROVE LeftOverUnlike
  <2>1. ASSUME NEW n \in DOMAIN scripts, scripts[n].id \notin DOMAIN M,
               NEW s \in DOMAIN scripts[n].script, NEW p \in DOMAIN P, Alike(scripts[n].script[s], P[p])
        PROVE  \E r \in DOMAIN M : \E i \in DOMAIN M[r].hits : M[r].hits[i] = p
    <3>1. p \in D
      OBVIOUS
    <3> HIDE DEF P, D
    <3>2. QED BY <1>4, <1>5, <2>1, <3>1, ResultsLeave
  <2>2. ASSUME NEW n \in DOMAIN scripts, scripts[n].id \notin DOMAIN M,
               NEW s \in DOMAIN scripts[n].script, NEW p \in DOMAIN P, Alike(scripts[n].script[s], P[p])
        PROVE  \E hits \in {M[r].hits : r \in DOMAIN M} : \E i \in DOMAIN hits : hits[i] = p
    <3>1. PICK r \in DOMAIN M : \E i \in DOMAIN M[r].hits : M[r].hits[i] = p
      BY <2>1, <2>2
    <3> HIDE DEF M
    <3>2. QED BY <3>1
  <2> HIDE DEF M
  <2>3. matched[1] = M
    BY <1>6, <1>8
  <2> HIDE DEF P
  <2>4. QED BY <2>2, <2>3 DEF LeftOverUnlike, scripts, P
<1>9. ASSUME NEW r \in DOMAIN M
      PROVE  /\ M[r].hits \in Seq(D) /\ M[r].hits # <<>>
             /\ M[r] = Result(dialogue, P, M[r].hits)
  <2> HIDE DEF P, D
  <2>1. QED BY <1>4, <1>5, ResultHits
<1>10. ASSUME matched # None PROVE TimesMoved
  <2>1. ASSUME NEW r \in DOMAIN M PROVE Inside(M[r].start_time, task) /\ Inside(M[r].end_time, task)
    <3> DEFINE hits == M[r].hits
    <3>1. hits \in Seq(D) /\ hits # <<>> /\ M[r] = Result(dialogue, P, hits)
      BY <1>9
    <3> HIDE DEF hits, M, P, D
    <3>2. M[r].start_time = P[hits[1]].start /\ M[r].end_time = P[Last(hits)].end
      BY <3>1 DEF Result
    <3>3. hits[1] \in D /\ Last(hits) \in D
      <4>1. hits[1] \in D /\ hits[Len(hits)] \in D
        BY <3>1
      <4>2. QED BY <3>1, <4>1 DEF Last
    <3>4. \A p \in D : P[p] \in A
      BY <1>1 DEF D
    <3>5. P[hits[1]] \in A /\ P[Last(hits)] \in A
      BY <3>3, <3>4
    <3>6. QED BY <3>2, <3>5 DEF A, SaidInside
  <2> HIDE DEF M
  <2>2. QED BY <1>6, <1>10, <2>1 DEF TimesMoved, Inside
<1>11. ASSUME phase = "done" PROVE AllOfItPasses
  <2>1. matched # None /\ passed.scripts = {n \in DOMAIN scripts : script_passed(scripts[n])}
    BY <1>11 DEF SpeechInv, scripts
  <2>2. matched[1] = M
    BY <1>6, <2>1
  <2>3. ASSUME NEW n \in DOMAIN scripts, scripts[n].id \in DOMAIN M,
               Range(M[scripts[n].id].hits) = D,
               \A i \in DOMAIN dialogue.utterances : dialogue.utterances[i].words # <<>>
        PROVE  n \in passed.scripts
    <3> DEFINE id == scripts[n].id
               hits == M[id].hits
               tenths == scripts[n].threshold
    <3>1. hits \in Seq(D) /\ M[id] = Result(dialogue, P, hits) /\ Range(hits) = D
      BY <1>9, <2>3
    <3>2. tenths \in Int /\ tenths <= 10
      BY <1>4
    <3> HIDE DEF hits, tenths, M
    <3>3. Reaches(Result(dialogue, P, hits).score, tenths)
      BY <1>1, <2>3, <3>1, <3>2, AllSimilar
    <3> HIDE DEF P, D
    <3>4. Reaches(M[id].score, tenths)
      BY <3>1, <3>3
    <3>5. script_passed(scripts[n])
      BY <2>2, <2>3, <3>4 DEF script_passed, tenths
    <3>6. QED BY <2>1, <3>5
  <2> HIDE DEF M, P
  <2>4. QED BY <2>2, <2>3 DEF AllOfItPasses, scripts, P, D
<1>12. QED BY <1>2, <1>7, <1>8, <1>10, <1>11 DEF ScriptsHeard

\* "No script detected" is said only when nothing of the script is left in what was said.
THEOREM NothingUnheard ==
  SpeechSpec => []ScriptsHeard
BY SpeechInvInit, SpeechInvNext, HeardInv, PTL DEF SpeechSpec
================================================================================
