---------------------------- MODULE Tracking_proofs ----------------------------
(***************************************************************************)
(* Theorems about TimePatches, Tracking and PersonReport, for lists of any *)
(* length, any number of frames, humans and participants, and any gap:     *)
(* what the loops that merge, reverse and count intervals compute, turn by *)
(* turn and as a whole; that the patches of the sequences stay apart; that *)
(* no time at which a face was seen is lost; that merge leaves one         *)
(* sequence for each face; that the report gives each sequence to one      *)
(* person, answers for everybody who had to appear, and says of each unit  *)
(* of the video who is on screen.                                          *)
(***************************************************************************)
EXTENDS Tracking, PersonReport, Selection_proofs

\* Patches with whole numbers.
PatchType == [start_time: Int, end_time: Int]

\* A patch does not end before it starts.
Ordered(p) == p.start_time <= p.end_time

\* More than gap lies between each patch and the next.
Apart(ps, gap) ==
    /\ \A n \in 1 .. Len(ps) : Ordered(ps[n])
    /\ \A n \in 1 .. Len(ps) - 1 : ps[n + 1].start_time - ps[n].end_time > gap

\* t is in one of the patches.
InSome(ps, t) == \E n \in 1 .. Len(ps) : is_in(ps[n], t)

\* p comes in the order of starts.
Follows(ps, p) == ps # <<>> => ps[Len(ps)].start_time <= p.start_time

\* The last patch reaches up to where p ends, if it did not before.
Stretched(ps, p) ==
    [ps EXCEPT ![Len(ps)] =
        update_end_time(@, IF p.end_time > @.end_time THEN p.end_time ELSE @.end_time)]

-----------------------------------------------------------------------------
(* The two things a turn does *)

\* A list that is stretched is still apart, and loses no time.
LEMMA Stretching ==
  ASSUME NEW ps \in Seq(PatchType), NEW p \in PatchType, NEW gap \in Nat,
         ps # <<>>, Apart(ps, gap), Ordered(p), Follows(ps, p)
  PROVE  /\ Stretched(ps, p) \in Seq(PatchType) /\ Apart(Stretched(ps, p), gap)
         /\ Follows(Stretched(ps, p), p)
         /\ \A t \in Int : InSome(ps, t) \/ is_in(p, t) => InSome(Stretched(ps, p), t)
         /\ \A t \in Int : InSome(Stretched(ps, p), t) =>
              InSome(ps, t) \/ is_in(p, t) \/ (ps[Len(ps)].end_time < t /\ t < p.start_time)
<1> DEFINE k == Len(ps)
           last == ps[k]
           top == IF p.end_time > last.end_time THEN p.end_time ELSE last.end_time
           qs == [ps EXCEPT ![k] = update_end_time(last, top)]
<1>1. k \in Nat /\ k >= 1 /\ last \in PatchType
  OBVIOUS
<1>2. top \in Int /\ top >= last.end_time /\ top >= p.end_time /\ top \in {last.end_time, p.end_time}
  BY <1>1 DEF PatchType
<1>3. Stretched(ps, p) = qs
  BY DEF Stretched
<1> HIDE DEF top
<1>4. update_end_time(last, top) = [start_time |-> last.start_time, end_time |-> top]
  BY <1>1 DEF update_end_time, PatchType
<1>5. /\ qs \in Seq(PatchType) /\ Len(qs) = k
      /\ qs[k] = [start_time |-> last.start_time, end_time |-> top]
      /\ \A n \in 1 .. k : n # k => qs[n] = ps[n]
  BY <1>1, <1>2, <1>4 DEF PatchType
<1> HIDE DEF qs
<1>6. last.start_time <= last.end_time /\ last.start_time <= p.start_time /\ last.start_time \in Int
      /\ last.end_time \in Int /\ p.start_time \in Int /\ p.end_time \in Int /\ p.start_time <= p.end_time
  BY <1>1 DEF Apart, Follows, Ordered, PatchType
<1> HIDE DEF last
<1>7. qs[k].start_time = last.start_time /\ qs[k].end_time = top
  BY <1>5
<1>8. Apart(qs, gap)
  <2>1. ASSUME NEW n \in 1 .. k PROVE Ordered(qs[n])
    BY <1>1, <1>2, <1>5, <1>6, <1>7 DEF Apart, Ordered
  <2>2. ASSUME NEW n \in 1 .. k - 1 PROVE qs[n + 1].start_time - qs[n].end_time > gap
    <3>1. qs[n] = ps[n] /\ n + 1 \in 1 .. k /\ n \in 1 .. k
      BY <1>1, <1>5
    <3>2. qs[n + 1].start_time = ps[n + 1].start_time
      BY <1>5, <1>7, <3>1 DEF last
    <3>3. QED BY <3>1, <3>2 DEF Apart
  <2>3. QED BY <1>5, <2>1, <2>2 DEF Apart
<1>9. Follows(qs, p)
  BY <1>5, <1>6, <1>7 DEF Follows
<1>10. ASSUME NEW t \in Int, InSome(ps, t) \/ is_in(p, t) PROVE InSome(qs, t)
  <2>1. CASE is_in(p, t)
    <3>1. is_in(qs[k], t)
      BY <1>2, <1>6, <1>7, <2>1 DEF is_in
    <3>2. QED BY <1>1, <1>5, <3>1 DEF InSome
  <2>2. CASE InSome(ps, t)
    <3>1. PICK n \in 1 .. k : is_in(ps[n], t)
      BY <2>2 DEF InSome
    <3>2. is_in(qs[n], t)
      <4>1. CASE n = k
        BY <1>2, <1>6, <1>7, <3>1, <4>1 DEF is_in, last
      <4>2. CASE n # k
        BY <1>5, <3>1, <4>2
      <4>3. QED BY <4>1, <4>2
    <3>3. QED BY <1>5, <3>2 DEF InSome
  <2>3. QED BY <1>10, <2>1, <2>2
<1>11. ASSUME NEW t \in Int, InSome(qs, t)
       PROVE  InSome(ps, t) \/ is_in(p, t) \/ (last.end_time < t /\ t < p.start_time)
  <2>1. PICK n \in 1 .. k : is_in(qs[n], t)
    BY <1>5, <1>11 DEF InSome
  <2>2. CASE n # k
    BY <1>5, <2>1, <2>2 DEF InSome
  <2>3. CASE n = k
    <3>1. last.start_time <= t /\ t <= top
      BY <1>7, <2>1, <2>3 DEF is_in
    <3>2. CASE t <= last.end_time
      <4>1. is_in(ps[k], t)
        BY <3>1, <3>2 DEF is_in, last
      <4>2. QED BY <1>1, <4>1 DEF InSome
    <3>3. CASE t > last.end_time
      BY <1>2, <1>6, <3>1, <3>3 DEF is_in
    <3>4. QED BY <1>6, <3>2, <3>3
  <2>4. QED BY <2>2, <2>3
<1>12. QED BY <1>3, <1>5, <1>8, <1>9, <1>10, <1>11 DEF last

\* So is one a patch is added to that starts more than the gap later; it gains no other time.
LEMMA Appending ==
  ASSUME NEW ps \in Seq(PatchType), NEW p \in PatchType, NEW gap \in Nat,
         Apart(ps, gap), Ordered(p),
         ps # <<>> => p.start_time - ps[Len(ps)].end_time > gap
  PROVE  /\ Append(ps, p) \in Seq(PatchType) /\ Apart(Append(ps, p), gap)
         /\ Follows(Append(ps, p), p)
         /\ \A t \in Int : InSome(Append(ps, p), t) <=> InSome(ps, t) \/ is_in(p, t)
<1> DEFINE k == Len(ps)
           qs == Append(ps, p)
<1>1. /\ k \in Nat /\ qs \in Seq(PatchType) /\ Len(qs) = k + 1 /\ qs[k + 1] = p
      /\ \A n \in 1 .. k : qs[n] = ps[n]
  OBVIOUS
<1>2. k >= 1 <=> ps # <<>>
  OBVIOUS
<1> HIDE DEF qs
<1>3. Apart(qs, gap)
  <2>1. ASSUME NEW n \in 1 .. k + 1 PROVE Ordered(qs[n])
    <3>1. CASE n = k + 1
      BY <1>1, <3>1
    <3>2. CASE n # k + 1
      <4>1. n \in 1 .. k
        BY <1>1, <3>2
      <4>2. QED BY <1>1, <4>1 DEF Apart
    <3>3. QED BY <3>1, <3>2
  <2>2. ASSUME NEW n \in 1 .. k PROVE qs[n + 1].start_time - qs[n].end_time > gap
    <3>1. CASE n = k
      <4>1. qs[n + 1] = p /\ qs[n] = ps[k] /\ ps # <<>>
        BY <1>1, <1>2, <3>1
      <4>2. QED BY <4>1
    <3>2. CASE n # k
      <4>1. n \in 1 .. k - 1 /\ n + 1 \in 1 .. k
        BY <1>1, <3>2
      <4>2. QED BY <1>1, <4>1 DEF Apart
    <3>3. QED BY <3>1, <3>2
  <2>3. k = Len(qs) - 1
    BY <1>1
  <2>4. QED BY <1>1, <2>1, <2>2, <2>3 DEF Apart
<1>4. Follows(qs, p)
  BY <1>1 DEF Follows, PatchType
<1>5. ASSUME NEW t \in Int PROVE InSome(qs, t) <=> InSome(ps, t) \/ is_in(p, t)
  <2>1. ASSUME InSome(qs, t) PROVE InSome(ps, t) \/ is_in(p, t)
    <3>1. PICK n \in 1 .. k + 1 : is_in(qs[n], t)
      BY <1>1, <2>1 DEF InSome
    <3>2. n = k + 1 \/ n \in 1 .. k
      BY <1>1
    <3>3. QED BY <1>1, <3>1, <3>2 DEF InSome
  <2>2. ASSUME InSome(ps, t) PROVE InSome(qs, t)
    <3>1. PICK n \in 1 .. k : is_in(ps[n], t)
      BY <2>2 DEF InSome
    <3>2. n \in 1 .. k + 1 /\ is_in(qs[n], t)
      BY <1>1, <3>1
    <3>3. QED BY <1>1, <3>2 DEF InSome
  <2>3. ASSUME is_in(p, t) PROVE InSome(qs, t)
    <3>1. k + 1 \in 1 .. k + 1 /\ is_in(qs[k + 1], t)
      BY <1>1, <2>3
    <3>2. QED BY <1>1, <3>1 DEF InSome
  <2>4. QED BY <2>1, <2>2, <2>3
<1>6. QED BY <1>1, <1>3, <1>4, <1>5 DEF qs

-----------------------------------------------------------------------------
(* merge_intervals *)

\* One turn of _merge_intervals takes a patch in the order of starts into a list of patches
\* that do not touch, and leaves such a list, of exactly the times there were: nothing is
\* lost, nothing is bridged, and the next patch in order still finds its place.
THEOREM AdjoinedExact ==
  ASSUME NEW merged \in Seq(PatchType), NEW p \in PatchType,
         Apart(merged, 0), Ordered(p), Follows(merged, p)
  PROVE  /\ Adjoined(merged, p) \in Seq(PatchType) /\ Apart(Adjoined(merged, p), 0)
         /\ Follows(Adjoined(merged, p), p)
         /\ \A t \in Int : InSome(Adjoined(merged, p), t) <=> InSome(merged, t) \/ is_in(p, t)
<1> DEFINE last == merged[Len(merged)]
<1>1. merged # <<>> => last \in PatchType
  OBVIOUS
<1>2. CASE merged = <<>> \/ last.end_time < p.start_time
  <2>1. Adjoined(merged, p) = Append(merged, p)
    BY <1>2 DEF Adjoined
  <2>2. merged # <<>> => p.start_time - last.end_time > 0
    BY <1>1, <1>2 DEF PatchType
  <2>3. QED BY <2>1, <2>2, Appending
<1>3. CASE ~(merged = <<>> \/ last.end_time < p.start_time)
  <2>1. Adjoined(merged, p) = Stretched(merged, p)
    BY <1>3 DEF Adjoined, Stretched
  <2>2. merged # <<>> /\ ~(\E t \in Int : last.end_time < t /\ t < p.start_time)
    BY <1>1, <1>3 DEF PatchType
  <2>3. QED BY <2>1, <2>2, Stretching
<1>4. QED BY <1>2, <1>3

-----------------------------------------------------------------------------
(* merge_time_patch *)

\* One turn of _merge_time_patch, for any gap: what comes out is apart by more than the gap,
\* has all the times there were, and adds at most times inside a silence no longer than it.
THEOREM JoinedApart ==
  ASSUME NEW merged \in Seq(PatchType), NEW p \in PatchType, NEW gap \in Nat,
         Apart(merged, gap), Ordered(p), Follows(merged, p)
  PROVE  /\ Joined(gap, merged, p) \in Seq(PatchType) /\ Apart(Joined(gap, merged, p), gap)
         /\ Follows(Joined(gap, merged, p), p)
         /\ \A t \in Int : InSome(merged, t) \/ is_in(p, t) => InSome(Joined(gap, merged, p), t)
         /\ \A t \in Int : InSome(Joined(gap, merged, p), t) =>
              \/ InSome(merged, t) \/ is_in(p, t)
              \/ /\ merged # <<>> /\ p.start_time - merged[Len(merged)].end_time <= gap
                 /\ merged[Len(merged)].end_time < t /\ t < p.start_time
<1> DEFINE last == merged[Len(merged)]
           near == is_overlap(p, last.start_time, last.end_time) \/ p.start_time - last.end_time <= gap
<1>1. merged # <<>> => last \in PatchType /\ Ordered(last) /\ last.start_time <= p.start_time
  BY DEF Apart, Follows
<1>2. merged # <<>> => (near <=> p.start_time - last.end_time <= gap)
  BY <1>1 DEF is_overlap, PatchType, Ordered
<1>3. CASE merged # <<>> /\ near
  <2>1. Joined(gap, merged, p) = Stretched(merged, p)
    BY <1>3 DEF Joined, Stretched
  <2>2. QED BY <1>2, <1>3, <2>1, Stretching
<1>4. CASE ~(merged # <<>> /\ near)
  <2>1. Joined(gap, merged, p) = Append(merged, p)
    BY <1>4 DEF Joined
  <2>2. merged # <<>> => p.start_time - last.end_time > gap
    BY <1>1, <1>2, <1>4 DEF PatchType
  <2>3. QED BY <2>1, <2>2, Appending
<1>5. QED BY <1>3, <1>4

\* How many of 1 .. n the order B puts before i, with i itself.
RankOf(B, n, i) == Cardinality({j \in 1 .. n : <<j, i>> \in B})

\* B orders 1 .. n.
Orders(B, n) ==
    /\ \A i \in 1 .. n : <<i, i>> \in B
    /\ \A i, j \in 1 .. n : <<i, j>> \in B \/ <<j, i>> \in B
    /\ \A i, j \in 1 .. n : <<i, j>> \in B /\ <<j, i>> \in B => i = j
    /\ \A i, j, k \in 1 .. n : <<i, j>> \in B /\ <<j, k>> \in B => <<i, k>> \in B

\* In any order of n things each place has just one of them.
LEMMA Ranking ==
  ASSUME NEW n \in Nat, NEW B, Orders(B, n)
  PROVE  \E at \in [1 .. n -> 1 .. n] :
           /\ \A m \in 1 .. n : at[m] = CHOOSE i \in 1 .. n : RankOf(B, n, i) = m
           /\ \A i \in 1 .. n : \E m \in 1 .. n : at[m] = i
           /\ \A m, l \in 1 .. n : at[m] = at[l] => m = l
           /\ \A m, l \in 1 .. n : m <= l => <<at[m], at[l]>> \in B
<1> DEFINE D == 1 .. n
           below(i) == {j \in D : <<j, i>> \in B}
           rank == [i \in D |-> Cardinality(below(i))]
           at == [m \in D |-> CHOOSE i \in D : rank[i] = m]
<1>1. /\ \A i \in D : <<i, i>> \in B
      /\ \A i, j \in D : <<i, j>> \in B \/ <<j, i>> \in B
      /\ \A i, j \in D : <<i, j>> \in B /\ <<j, i>> \in B => i = j
      /\ \A i, j, k \in D : <<i, j>> \in B /\ <<j, k>> \in B => <<i, k>> \in B
  BY DEF Orders
<1>2. IsFiniteSet(D) /\ Cardinality(D) = n
  <2>1. 1 \in Int /\ n \in Int /\ (1 > n => n = 0)
    OBVIOUS
  <2>2. IsFiniteSet(D) /\ Cardinality(D) = IF 1 > n THEN 0 ELSE n - 1 + 1
    BY <2>1, FS_Interval
  <2>3. QED BY <2>1, <2>2
<1>3. \A i \in D : rank[i] \in D
  <2> SUFFICES ASSUME NEW i \in D PROVE Cardinality(below(i)) \in D
    OBVIOUS
  <2>1. below(i) \in SUBSET D /\ {i} \in SUBSET below(i)
    BY <1>1
  <2>2. IsFiniteSet(below(i)) /\ Cardinality(below(i)) <= Cardinality(D) /\ Cardinality(below(i)) \in Nat
    BY <1>2, <2>1, FS_Subset, FS_CardinalityType
  <2>3. Cardinality({i}) = 1 /\ Cardinality({i}) <= Cardinality(below(i))
    BY <2>1, <2>2, FS_Subset, FS_Singleton
  <2>4. QED BY <1>2, <2>2, <2>3
<1>4. ASSUME NEW i \in D, NEW j \in D, <<i, j>> \in B, i # j PROVE rank[i] < rank[j]
  <2>1. below(i) \in SUBSET below(j) /\ below(j) \in SUBSET D
    BY <1>1, <1>4
  <2>2. j \in below(j) /\ j \notin below(i)
    BY <1>1, <1>4
  <2>3. IsFiniteSet(below(j))
    BY <1>2, <2>1, FS_Subset
  <2>4. Cardinality(below(i)) <= Cardinality(below(j)) /\ Cardinality(below(i)) # Cardinality(below(j))
    BY <2>1, <2>2, <2>3, FS_Subset
  <2>5. rank[i] \in Int /\ rank[j] \in Int
    BY <1>3
  <2> HIDE DEF below, D
  <2>6. QED BY <2>4, <2>5
<1>5. \A i \in D : rank[i] = RankOf(B, n, i)
  BY DEF RankOf
<1> HIDE DEF below, rank
<1>6. \A i, j \in D : rank[i] <= rank[j] => <<i, j>> \in B
  <2> SUFFICES ASSUME NEW i \in D, NEW j \in D, rank[i] <= rank[j], <<i, j>> \notin B PROVE FALSE
    OBVIOUS
  <2>1. <<j, i>> \in B /\ i # j
    BY <1>1
  <2>2. rank[j] < rank[i]
    BY <1>4, <2>1
  <2>3. rank[i] \in Int /\ rank[j] \in Int
    BY <1>3
  <2>4. QED BY <2>2, <2>3
<1>7. \A i, j \in D : rank[i] = rank[j] => i = j
  <2> SUFFICES ASSUME NEW i \in D, NEW j \in D, rank[i] = rank[j] PROVE i = j
    OBVIOUS
  <2>1. rank[i] <= rank[j] /\ rank[j] <= rank[i]
    BY <1>3
  <2>2. <<i, j>> \in B /\ <<j, i>> \in B
    BY <1>6, <2>1
  <2>3. QED BY <1>1, <2>2
<1>8. \A m \in D : \E i \in D : rank[i] = m
  <2>1. rank = [i \in D |-> rank[i]]
    BY DEF rank
  <2>2. rank \in Injection(D, D)
    BY <1>3, <1>7, <2>1 DEF Injection, IsInjective
  <2>3. rank \in Surjection(D, D)
    BY <1>2, <2>2, FS_Injection
  <2>4. QED BY <2>3 DEF Surjection
<1>9. \A m \in D : at[m] \in D /\ rank[at[m]] = m
  BY <1>8
<1>10. \A m \in D : at[m] = CHOOSE i \in D : RankOf(B, n, i) = m
  <2> SUFFICES ASSUME NEW m \in D PROVE at[m] = CHOOSE i \in D : RankOf(B, n, i) = m
    OBVIOUS
  <2>1. at[m] = CHOOSE i \in D : rank[i] = m
    OBVIOUS
  <2>2. QED BY <1>5, <2>1
<1>11. at \in [D -> D]
  BY <1>9
<1> HIDE DEF at
<1>12. \A i \in D : rank[i] \in D /\ at[rank[i]] = i
  BY <1>3, <1>7, <1>9
<1>13. \A m, l \in D : at[m] = at[l] => m = l
  BY <1>9
<1>14. \A m, l \in D : m <= l => <<at[m], at[l]>> \in B
  BY <1>6, <1>9
<1> HIDE DEF D
<1>15. QED BY <1>10, <1>11, <1>12, <1>13, <1>14 DEF D

\* Sorting puts the starts in order and neither loses nor adds a patch.
LEMMA SortedStarts ==
  ASSUME NEW ps \in Seq(PatchType)
  PROVE  /\ SortedByStart(ps) \in Seq(PatchType)
         /\ \A n, m \in 1 .. Len(SortedByStart(ps)) :
              n <= m => SortedByStart(ps)[n].start_time <= SortedByStart(ps)[m].start_time
         /\ \A p : Has(SortedByStart(ps), p) <=> Has(ps, p)
<1> DEFINE D == 1 .. Len(ps)
           before(i, j) == \/ ps[i].start_time < ps[j].start_time
                           \/ ~(ps[j].start_time < ps[i].start_time) /\ i <= j
           below(i) == {j \in D : before(j, i)}
           B == {x \in D \X D : before(x[1], x[2])}
           at(n) == CHOOSE i \in D : Cardinality(below(i)) = n
           sorted == [n \in D |-> ps[at(n)]]
<1>1. SortedByStart(ps) = sorted
  <2>1. DOMAIN ps = D
    OBVIOUS
  <2>2. QED BY <2>1 DEF SortedByStart, SortedBy
<1>2. Len(ps) \in Nat /\ D \subseteq Int /\ \A i \in D : ps[i] \in PatchType /\ ps[i].start_time \in Int
  <2>1. \A T : ps \in Seq(T) => \A i \in D : ps[i] \in T
    OBVIOUS
  <2>2. \A i \in D : ps[i] \in PatchType
    BY <2>1
  <2>3. QED BY <2>2 DEF PatchType
<1>3. /\ \A i \in D : before(i, i)
      /\ \A i, j \in D : before(i, j) \/ before(j, i)
      /\ \A i, j \in D : before(i, j) /\ before(j, i) => i = j
      /\ \A i, j, k \in D : before(i, j) /\ before(j, k) => before(i, k)
      /\ \A i, j \in D : before(i, j) => ps[i].start_time <= ps[j].start_time
  <2>1. \A i \in D : i \in Int /\ ps[i].start_time \in Int
    BY <1>2
  <2> HIDE DEF D
  <2>2. /\ \A i \in D : before(i, i)
        /\ \A i, j \in D : before(i, j) \/ before(j, i)
    BY <2>1
  <2>3. \A i, j \in D : before(i, j) /\ before(j, i) => i = j
    BY <2>1
  <2>4. \A i, j, k \in D : before(i, j) /\ before(j, k) => before(i, k)
    BY <2>1
  <2>5. \A i, j \in D : before(i, j) => ps[i].start_time <= ps[j].start_time
    BY <2>1
  <2>6. QED BY <2>2, <2>3, <2>4, <2>5
<1> HIDE DEF before
<1>4. \A i, j \in D : <<i, j>> \in B <=> before(i, j)
  OBVIOUS
<1>5. Orders(B, Len(ps))
  BY <1>3, <1>4 DEF Orders
<1>6. \A i \in D : RankOf(B, Len(ps), i) = Cardinality(below(i))
  <2> SUFFICES ASSUME NEW i \in D PROVE RankOf(B, Len(ps), i) = Cardinality(below(i))
    OBVIOUS
  <2>1. {j \in D : <<j, i>> \in B} = below(i)
    BY <1>4
  <2> HIDE DEF B, below
  <2>2. QED BY <2>1 DEF RankOf
<1> HIDE DEF B
<1>7. PICK f \in [D -> D] :
        /\ \A n \in D : f[n] = CHOOSE i \in D : RankOf(B, Len(ps), i) = n
        /\ \A i \in D : \E n \in D : f[n] = i
        /\ \A n, m \in D : n <= m => <<f[n], f[m]>> \in B
  BY <1>2, <1>5, Ranking
<1> HIDE DEF below
<1>8. \A n \in D : at(n) = f[n]
  <2> SUFFICES ASSUME NEW n \in D PROVE at(n) = f[n]
    OBVIOUS
  <2>1. f[n] = CHOOSE i \in D : RankOf(B, Len(ps), i) = n
    BY <1>7
  <2>2. QED BY <1>6, <2>1
<1> HIDE DEF at
<1>9. sorted \in Seq(PatchType) /\ Len(sorted) = Len(ps) /\ \A n \in D : sorted[n] = ps[f[n]]
  BY <1>2, <1>7, <1>8
<1> HIDE DEF sorted
<1>10. \A n, m \in D : n <= m => sorted[n].start_time <= sorted[m].start_time
  <2> SUFFICES ASSUME NEW n \in D, NEW m \in D, n <= m
               PROVE  sorted[n].start_time <= sorted[m].start_time
    OBVIOUS
  <2>1. f[n] \in D /\ f[m] \in D /\ before(f[n], f[m])
    BY <1>4, <1>7
  <2>2. ps[f[n]].start_time <= ps[f[m]].start_time
    BY <1>3, <2>1
  <2>3. QED BY <1>9, <2>2
<1>11. ASSUME NEW p PROVE Has(sorted, p) <=> Has(ps, p)
  <2>1. Has(sorted, p) <=> \E n \in D : sorted[n] = p
    BY <1>9 DEF Has
  <2>2. Has(ps, p) <=> \E i \in D : ps[i] = p
    BY DEF Has
  <2> HIDE DEF D
  <2>3. QED BY <1>7, <1>9, <2>1, <2>2
<1>12. QED BY <1>1, <1>9, <1>10, <1>11

\* f is what the loop of _merge_time_patch builds of s, turn by turn.
JoinsAlong(f, s, gap) ==
    f[0] = <<>> /\ \A i \in 1 .. Len(s) : f[i] = Joined(gap, f[i - 1], s[i])

\* A turn gives a list of patches, not empty.
LEMMA JoinedType ==
  ASSUME NEW ps \in Seq(PatchType), NEW p \in PatchType, NEW gap
  PROVE  Joined(gap, ps, p) \in Seq(PatchType) /\ Joined(gap, ps, p) # <<>>
<1> DEFINE last == ps[Len(ps)]
           top == IF p.end_time > last.end_time THEN p.end_time ELSE last.end_time
<1>1. CASE ps = <<>>
  BY <1>1 DEF Joined
<1>2. CASE ps # <<>>
  <2>1. last \in PatchType /\ top \in Int
    <3>1. last \in PatchType
      BY <1>2, MemberType
    <3>2. QED BY <3>1 DEF PatchType
  <2>2. update_end_time(last, top) \in PatchType
    BY <2>1 DEF update_end_time, PatchType
  <2> DEFINE new == update_end_time(last, top)
  <2>3. Joined(gap, ps, p) \in {Append(ps, p), [ps EXCEPT ![Len(ps)] = new]}
    BY DEF Joined
  <2> HIDE DEF new
  <2>4. QED BY <1>2, <2>2, <2>3 DEF new
<1>3. QED BY <1>1, <1>2

\* The loop goes by turns.
LEMMA JoinSteps ==
  ASSUME NEW ps \in Seq(PatchType), NEW gap
  PROVE  \E f \in [0 .. Len(SortedByStart(ps)) -> Seq(PatchType)] :
           /\ merge_time_patch(ps, gap) = f[Len(SortedByStart(ps))]
           /\ JoinsAlong(f, SortedByStart(ps), gap)
<1> DEFINE s == SortedByStart(ps)
           n == Len(s)
           T == Seq(PatchType)
           Eq(f) == f = [i \in 0 .. n |-> IF i = 0 THEN <<>> ELSE Joined(gap, f[i - 1], s[i])]
           k == CHOOSE f : Eq(f)
           G == [i \in 1 .. n |-> [x \in T |-> Joined(gap, x, s[i])]]
<1>1. merge_time_patch(ps, gap) = k[n]
  BY DEF merge_time_patch
<1>2. /\ s \in T /\ n \in Nat /\ <<>> \in T
      /\ \A x \in T, i \in 1 .. n : Joined(gap, x, s[i]) \in T
  BY SortedStarts, JoinedType
<1> HIDE DEF s, T
<1>3. G \in [1 .. n -> [T -> T]] /\ \A x \in T, i \in 1 .. n : G[i][x] = Joined(gap, x, s[i])
  BY <1>2
<1> HIDE DEF G, n
<1>4. PICK f \in [0 .. n -> T] : Iterates(f, n, <<>>, G)
  BY <1>2, <1>3, Iteration
<1>5. Eq(f)
  <2>1. f = [i \in 0 .. n |-> IF i = 0 THEN <<>> ELSE G[i][f[i - 1]]]
    BY <1>4 DEF Iterates
  <2>2. \A i \in 0 .. n : i # 0 => i \in 1 .. n /\ f[i - 1] \in T
    BY <1>2
  <2>3. QED BY <1>3, <2>1, <2>2
<1>6. Eq(k)
  BY <1>5
<1> HIDE DEF k
<1>7. k[0] = <<>> /\ \A i \in 1 .. n : k[i] = Joined(gap, k[i - 1], s[i])
  BY <1>2, <1>6
<1>8. k = [i \in 0 .. n |-> k[i]]
  BY <1>6
<1>9. \A i \in 1 .. n : k[i - 1] \in T => k[i] \in T
  BY <1>2, <1>7
<1>10. k \in [0 .. n -> T]
  BY <1>2, <1>7, <1>8, <1>9, StaysIn
<1>11. QED BY <1>1, <1>7, <1>10 DEF JoinsAlong, n, s, T

\* t lies in a silence of the patches s that is no longer than gap.
Silent(s, gap, t) ==
    \E i, j \in 1 .. Len(s) :
        s[i].end_time < t /\ t < s[j].start_time /\ s[j].start_time - s[i].end_time <= gap

\* What the loop has built of the first n patches of s.
JoinedSoFar(f, s, gap, n) ==
    /\ Apart(f[n], gap)
    /\ n < Len(s) => Follows(f[n], s[n + 1])
    /\ \A t \in Int : (\E j \in 1 .. n : is_in(s[j], t)) => InSome(f[n], t)
    /\ \A t \in Int : InSome(f[n], t) => (\E j \in 1 .. n : is_in(s[j], t)) \/ Silent(s, gap, t)
    /\ f[n] # <<>> => \E j \in 1 .. n : s[j].end_time = f[n][Len(f[n])].end_time
    /\ n # 0 => f[n] # <<>>

\* The list ends where its last patch did or where the new one does.
LEMMA EndOfJoined ==
  ASSUME NEW ps \in Seq(PatchType), NEW p \in PatchType, NEW gap
  PROVE  Joined(gap, ps, p)[Len(Joined(gap, ps, p))].end_time
           \in {p.end_time} \union (IF ps = <<>> THEN {} ELSE {ps[Len(ps)].end_time})
<1> DEFINE last == ps[Len(ps)]
           top == IF p.end_time > last.end_time THEN p.end_time ELSE last.end_time
           new == update_end_time(last, top)
           qs == Joined(gap, ps, p)
<1>1. qs = Append(ps, p) \/ (ps # <<>> /\ qs = [ps EXCEPT ![Len(ps)] = new])
  BY DEF Joined
<1>2. CASE qs = Append(ps, p)
  <2>1. qs[Len(qs)] = p
    BY <1>2
  <2>2. QED BY <2>1
<1>3. CASE ps # <<>> /\ qs = [ps EXCEPT ![Len(ps)] = new]
  <2>1. last \in PatchType
    BY <1>3, MemberType
  <2>2. new.end_time = top
    BY <2>1 DEF update_end_time, PatchType
  <2> HIDE DEF new
  <2>3. Len(ps) \in 1 .. Len(ps)
    BY <1>3
  <2>4. qs[Len(qs)] = new
    BY <1>3, <2>3
  <2>5. qs[Len(qs)].end_time \in {p.end_time, last.end_time}
    BY <2>2, <2>4
  <2> HIDE DEF qs
  <2>6. QED BY <1>3, <2>5 DEF qs
<1>4. QED BY <1>1, <1>2, <1>3

\* A turn keeps what is known of the list.
LEMMA JoinedOneMore ==
  ASSUME NEW s \in Seq(PatchType), NEW gap \in Nat, NEW f \in [0 .. Len(s) -> Seq(PatchType)],
         \A i \in 1 .. Len(s) : Ordered(s[i]),
         \A i, j \in 1 .. Len(s) : i <= j => s[i].start_time <= s[j].start_time,
         NEW n \in 1 .. Len(s), JoinedSoFar(f, s, gap, n - 1), f[n] = Joined(gap, f[n - 1], s[n])
  PROVE  JoinedSoFar(f, s, gap, n)
<1> DEFINE done == f[n - 1]
           p == s[n]
           new == Joined(gap, done, p)
<1>1. /\ done \in Seq(PatchType) /\ p \in PatchType /\ Len(s) \in Nat /\ f[n] = new
      /\ Ordered(p) /\ n - 1 < Len(s) /\ n - 1 + 1 = n
  BY MemberType
<1>2. Apart(done, gap) /\ Follows(done, p)
  BY <1>1 DEF JoinedSoFar
<1>3. /\ Apart(new, gap) /\ Follows(new, p)
      /\ \A t \in Int : InSome(done, t) \/ is_in(p, t) => InSome(new, t)
      /\ \A t \in Int : InSome(new, t) =>
           \/ InSome(done, t) \/ is_in(p, t)
           \/ /\ done # <<>> /\ p.start_time - done[Len(done)].end_time <= gap
              /\ done[Len(done)].end_time < t /\ t < p.start_time
  BY <1>1, <1>2, JoinedApart
<1>4. new \in Seq(PatchType) /\ new # <<>>
  BY <1>1, JoinedType
<1>5. n < Len(s) => Follows(new, s[n + 1])
  <2> SUFFICES ASSUME n < Len(s) PROVE new[Len(new)].start_time <= s[n + 1].start_time
    BY DEF Follows
  <2>1. n + 1 \in 1 .. Len(s) /\ p.start_time <= s[n + 1].start_time
    OBVIOUS
  <2>2. new[Len(new)] \in PatchType /\ s[n + 1] \in PatchType
    BY <1>4, <2>1, MemberType
  <2>3. new[Len(new)].start_time <= p.start_time
    BY <1>3, <1>4 DEF Follows
  <2> HIDE DEF new, p
  <2>4. p.start_time \in Int /\ new[Len(new)].start_time \in Int /\ s[n + 1].start_time \in Int
    BY <1>1, <2>2 DEF PatchType
  <2>5. \A a, b, c \in Int : a <= b /\ b <= c => a <= c
    OBVIOUS
  <2>6. p.start_time <= s[n + 1].start_time
    BY <2>1
  <2> HIDE DEF new
  <2>7. QED BY <2>3, <2>4, <2>5, <2>6
<1> HIDE DEF new
<1>6. \A j \in 1 .. n : j \in 1 .. n - 1 \/ j = n
  BY <1>1
<1>7. ASSUME NEW t \in Int, NEW j \in 1 .. n, is_in(s[j], t) PROVE InSome(new, t)
  BY <1>3, <1>6, <1>7 DEF JoinedSoFar
<1>8. done # <<>> => \E j \in 1 .. n - 1 : s[j].end_time = done[Len(done)].end_time
  BY DEF JoinedSoFar
<1>9. ASSUME NEW t \in Int, InSome(new, t)
      PROVE  (\E j \in 1 .. n : is_in(s[j], t)) \/ Silent(s, gap, t)
  <2>1. CASE InSome(done, t)
    BY <1>1, <2>1 DEF JoinedSoFar
  <2>2. CASE is_in(p, t)
    BY <1>1, <2>2
  <2>3. CASE /\ done # <<>> /\ p.start_time - done[Len(done)].end_time <= gap
             /\ done[Len(done)].end_time < t /\ t < p.start_time
    BY <1>1, <1>8, <2>3 DEF Silent
  <2>4. QED BY <1>3, <1>9, <2>1, <2>2, <2>3
<1>10. \E j \in 1 .. n : s[j].end_time = new[Len(new)].end_time
  <2>1. \/ new[Len(new)].end_time = p.end_time
        \/ done # <<>> /\ new[Len(new)].end_time = done[Len(done)].end_time
    BY <1>1, EndOfJoined DEF new
  <2>2. CASE new[Len(new)].end_time = p.end_time
    BY <2>2
  <2>3. CASE done # <<>> /\ new[Len(new)].end_time = done[Len(done)].end_time
    <3>1. PICK j \in 1 .. n - 1 : s[j].end_time = done[Len(done)].end_time
      BY <1>8, <2>3
    <3>2. j \in 1 .. n
      BY <1>1
    <3>3. QED BY <2>3, <3>1, <3>2
  <2>4. QED BY <2>1, <2>2, <2>3
<1> HIDE DEF done, p
<1>11. QED BY <1>1, <1>3, <1>4, <1>5, <1>7, <1>9, <1>10 DEF JoinedSoFar

\* _merge_time_patch as a whole, for any number of patches in any order and any gap: what
\* comes out is apart by more than the gap, has every time there was and adds only times in
\* silences that are no longer.
THEOREM MergedPatches ==
  ASSUME NEW ps \in Seq(PatchType), NEW gap \in Nat, \A i \in 1 .. Len(ps) : Ordered(ps[i])
  PROVE  /\ merge_time_patch(ps, gap) \in Seq(PatchType)
         /\ Apart(merge_time_patch(ps, gap), gap)
         /\ ps # <<>> => merge_time_patch(ps, gap) # <<>>
         /\ \A t \in Int : InSome(ps, t) => InSome(merge_time_patch(ps, gap), t)
         /\ \A t \in Int : InSome(merge_time_patch(ps, gap), t) => InSome(ps, t) \/ Silent(ps, gap, t)
<1> DEFINE s == SortedByStart(ps)
           n == Len(s)
<1>1. /\ s \in Seq(PatchType) /\ \A i, j \in 1 .. n : i <= j => s[i].start_time <= s[j].start_time
      /\ \A p : Has(s, p) <=> Has(ps, p)
  BY SortedStarts
<1>2. PICK f \in [0 .. n -> Seq(PatchType)] : merge_time_patch(ps, gap) = f[n] /\ JoinsAlong(f, s, gap)
  BY JoinSteps
<1> HIDE DEF s
<1>3. \A i \in 1 .. n : Ordered(s[i])
  BY <1>1 DEF Has
<1>4. n \in Nat
  BY <1>1
<1> DEFINE S == {i \in 0 .. n : JoinedSoFar(f, s, gap, i)}
<1>5. 0 \in S
  <2>1. f[0] = <<>>
    BY <1>2 DEF JoinsAlong
  <2>2. QED BY <1>4, <2>1 DEF JoinedSoFar, Apart, Follows, InSome
<1>6. ASSUME NEW i \in 1 .. n, i - 1 \in S PROVE i \in S
  <2>1. JoinedSoFar(f, s, gap, i - 1) /\ i \in 0 .. n /\ i \in 1 .. Len(s)
    BY <1>4, <1>6
  <2>2. JoinedSoFar(f, s, gap, i)
    BY <1>1, <1>2, <1>3, <2>1, JoinedOneMore DEF JoinsAlong
  <2>3. QED BY <2>1, <2>2
<1> HIDE DEF S
<1>7. 0 .. n \subseteq S
  BY <1>4, <1>5, <1>6, UpTo
<1>8. JoinedSoFar(f, s, gap, n)
  BY <1>4, <1>7 DEF S
<1>9. \A t : InSome(ps, t) <=> \E j \in 1 .. n : is_in(s[j], t)
  BY <1>1 DEF Has, InSome
<1>10. \A t \in Int : Silent(s, gap, t) => Silent(ps, gap, t)
  BY <1>1 DEF Has, Silent
<1>11. ps # <<>> => n # 0
  BY <1>1 DEF Has
<1>12. f[n] \in Seq(PatchType)
  BY <1>2, <1>4
<1>13. QED BY <1>2, <1>8, <1>9, <1>10, <1>11, <1>12 DEF JoinedSoFar

-----------------------------------------------------------------------------
(* merge_intervals *)

\* f is what the loop of _merge_intervals builds of s.
AdjoinsAlong(f, s) ==
    f[0] = <<>> /\ \A i \in 1 .. Len(s) : f[i] = Adjoined(f[i - 1], s[i])

\* A turn gives a list of patches.
LEMMA AdjoinedType ==
  ASSUME NEW ps \in Seq(PatchType), NEW p \in PatchType
  PROVE  Adjoined(ps, p) \in Seq(PatchType)
<1> DEFINE last == ps[Len(ps)]
           top == IF p.end_time > last.end_time THEN p.end_time ELSE last.end_time
           new == update_end_time(last, top)
<1>1. CASE ps = <<>>
  BY <1>1 DEF Adjoined
<1>2. CASE ps # <<>>
  <2>1. last \in PatchType
    BY <1>2, MemberType
  <2>2. top \in Int
    BY <2>1 DEF PatchType
  <2>3. new \in PatchType
    BY <2>1, <2>2 DEF update_end_time, PatchType
  <2>4. Adjoined(ps, p) \in {Append(ps, p), [ps EXCEPT ![Len(ps)] = new]}
    BY DEF Adjoined
  <2> HIDE DEF new
  <2>5. QED BY <1>2, <2>3, <2>4
<1>3. QED BY <1>1, <1>2

\* The loop goes by turns.
LEMMA AdjoinSteps ==
  ASSUME NEW ps \in Seq(PatchType)
  PROVE  \E f \in [0 .. Len(SortedByStart(ps)) -> Seq(PatchType)] :
           /\ merge_intervals(ps) = f[Len(SortedByStart(ps))]
           /\ AdjoinsAlong(f, SortedByStart(ps))
<1> DEFINE s == SortedByStart(ps)
           n == Len(s)
           T == Seq(PatchType)
           Eq(f) == f = [i \in 0 .. n |-> IF i = 0 THEN <<>> ELSE Adjoined(f[i - 1], s[i])]
           k == CHOOSE f : Eq(f)
           G == [i \in 1 .. n |-> [x \in T |-> Adjoined(x, s[i])]]
<1>1. merge_intervals(ps) = k[n]
  BY DEF merge_intervals
<1>2. /\ s \in T /\ n \in Nat /\ <<>> \in T
      /\ \A x \in T, i \in 1 .. n : Adjoined(x, s[i]) \in T
  <2>1. s \in Seq(PatchType)
    BY SortedStarts
  <2> HIDE DEF s
  <2>2. \A i \in 1 .. n : s[i] \in PatchType
    BY <2>1, MemberType
  <2>3. s \in T /\ n \in Nat /\ <<>> \in T
    BY <2>1
  <2> HIDE DEF n
  <2>4. \A x \in T, i \in 1 .. n : Adjoined(x, s[i]) \in T
    BY <2>2, AdjoinedType
  <2>5. QED BY <2>3, <2>4
<1> HIDE DEF s, T
<1>3. G \in [1 .. n -> [T -> T]] /\ \A x \in T, i \in 1 .. n : G[i][x] = Adjoined(x, s[i])
  BY <1>2
<1> HIDE DEF G, n
<1>4. PICK f \in [0 .. n -> T] : Iterates(f, n, <<>>, G)
  BY <1>2, <1>3, Iteration
<1>5. Eq(f)
  <2>1. f = [i \in 0 .. n |-> IF i = 0 THEN <<>> ELSE G[i][f[i - 1]]]
    BY <1>4 DEF Iterates
  <2>2. \A i \in 0 .. n : i # 0 => i \in 1 .. n /\ f[i - 1] \in T
    BY <1>2
  <2>3. QED BY <1>3, <2>1, <2>2
<1>6. Eq(k)
  BY <1>5
<1> HIDE DEF k
<1>7. k[0] = <<>> /\ \A i \in 1 .. n : k[i] = Adjoined(k[i - 1], s[i])
  BY <1>2, <1>6
<1>8. k = [i \in 0 .. n |-> k[i]]
  BY <1>6
<1>9. \A i \in 1 .. n : k[i - 1] \in T => k[i] \in T
  BY <1>2, <1>7
<1>10. k \in [0 .. n -> T]
  BY <1>2, <1>7, <1>8, <1>9, StaysIn
<1>11. QED BY <1>1, <1>7, <1>10 DEF AdjoinsAlong, n, s, T

\* To join over a gap of nothing is to join what touches.
LEMMA AdjoinedJoins ==
  ASSUME NEW ps \in Seq(PatchType), NEW p \in PatchType, Apart(ps, 0), Ordered(p)
  PROVE  Adjoined(ps, p) = Joined(0, ps, p)
<1> DEFINE last == ps[Len(ps)]
<1>1. ps # <<>> => last \in PatchType /\ Ordered(last)
  BY MemberType DEF Apart
<1>2. ps # <<>> =>
        (~(last.end_time < p.start_time)
           <=> is_overlap(p, last.start_time, last.end_time) \/ p.start_time - last.end_time <= 0)
  <2> SUFFICES ASSUME ps # <<>>
               PROVE  ~(last.end_time < p.start_time)
                        <=> is_overlap(p, last.start_time, last.end_time)
                            \/ p.start_time - last.end_time <= 0
    OBVIOUS
  <2>1. last \in PatchType /\ Ordered(last)
    BY <1>1
  <2> HIDE DEF last
  <2>2. QED BY <2>1 DEF is_overlap, PatchType, Ordered
<1>3. QED BY <1>2 DEF Adjoined, Joined

\* _merge_intervals as a whole, for any number of intervals in any order: what comes out is
\* apart, and has exactly the times there were.
THEOREM MergedIntervals ==
  ASSUME NEW ps \in Seq(PatchType), \A i \in 1 .. Len(ps) : Ordered(ps[i])
  PROVE  /\ merge_intervals(ps) \in Seq(PatchType) /\ Apart(merge_intervals(ps), 0)
         /\ \A t \in Int : InSome(merge_intervals(ps), t) <=> InSome(ps, t)
<1> DEFINE s == SortedByStart(ps)
           n == Len(s)
<1>1. /\ s \in Seq(PatchType) /\ \A i, j \in 1 .. n : i <= j => s[i].start_time <= s[j].start_time
      /\ \A p : Has(s, p) <=> Has(ps, p)
  BY SortedStarts
<1>2. PICK f \in [0 .. n -> Seq(PatchType)] : merge_intervals(ps) = f[n] /\ AdjoinsAlong(f, s)
  BY AdjoinSteps
<1> HIDE DEF s
<1>3. \A i \in 1 .. n : Ordered(s[i])
  BY <1>1 DEF Has
<1>4. n \in Nat
  BY <1>1
<1> DEFINE S == {i \in 0 .. n : JoinedSoFar(f, s, 0, i)}
<1>5. 0 \in S
  <2>1. f[0] = <<>>
    BY <1>2 DEF AdjoinsAlong
  <2>2. QED BY <1>4, <2>1 DEF JoinedSoFar, Apart, Follows, InSome
<1>6. ASSUME NEW i \in 1 .. n, i - 1 \in S PROVE i \in S
  <2>1. JoinedSoFar(f, s, 0, i - 1) /\ i \in 0 .. n /\ i \in 1 .. Len(s)
    BY <1>4, <1>6
  <2>2. f[i - 1] \in Seq(PatchType) /\ s[i] \in PatchType /\ Apart(f[i - 1], 0) /\ Ordered(s[i])
    <3>1. i - 1 \in 0 .. n /\ s[i] \in PatchType
      BY <1>1, <1>4, MemberType
    <3>2. QED BY <1>3, <2>1, <3>1 DEF JoinedSoFar
  <2>3. f[i] = Joined(0, f[i - 1], s[i])
    BY <1>2, <2>2, AdjoinedJoins DEF AdjoinsAlong
  <2>4. JoinedSoFar(f, s, 0, i)
    BY <1>1, <1>3, <2>1, <2>3, JoinedOneMore
  <2>5. QED BY <2>1, <2>4
<1> HIDE DEF S
<1>7. 0 .. n \subseteq S
  BY <1>4, <1>5, <1>6, UpTo
<1>8. JoinedSoFar(f, s, 0, n)
  BY <1>4, <1>7 DEF S
<1>9. \A t : InSome(ps, t) <=> \E j \in 1 .. n : is_in(s[j], t)
  BY <1>1 DEF Has, InSome
<1>10. \A t \in Int : ~Silent(s, 0, t)
  <2>1. \A i \in 1 .. n : s[i].start_time \in Int /\ s[i].end_time \in Int
    <3>1. \A i \in 1 .. n : s[i] \in PatchType
      BY <1>1, MemberType
    <3>2. QED BY <3>1 DEF PatchType
  <2>2. QED BY <2>1 DEF Silent
<1>11. f[n] \in Seq(PatchType)
  BY <1>2, <1>4
<1>12. QED BY <1>2, <1>8, <1>9, <1>10, <1>11 DEF JoinedSoFar

-----------------------------------------------------------------------------
(* Short patches are dropped *)

\* More than gap lies between any two patches.
FarApart(ps, gap) ==
    /\ \A n \in 1 .. Len(ps) : Ordered(ps[n])
    /\ \A m, n \in 1 .. Len(ps) : m < n => ps[n].start_time - ps[m].end_time > gap

\* What it takes for a list with one more patch to be apart.
LEMMA ApartAppend ==
  ASSUME NEW ps \in Seq(PatchType), NEW p \in PatchType, NEW gap \in Nat
  PROVE  /\ Apart(Append(ps, p), gap) =>
              Apart(ps, gap) /\ Ordered(p) /\ (ps # <<>> => p.start_time - ps[Len(ps)].end_time > gap)
         /\ FarApart(Append(ps, p), gap) <=>
              /\ FarApart(ps, gap) /\ Ordered(p)
              /\ \A m \in 1 .. Len(ps) : p.start_time - ps[m].end_time > gap
<1> DEFINE k == Len(ps)
           qs == Append(ps, p)
<1>1. /\ k \in Nat /\ Len(qs) = k + 1 /\ qs[k + 1] = p /\ \A n \in 1 .. k : qs[n] = ps[n]
      /\ ps # <<>> => k >= 1
  OBVIOUS
<1> HIDE DEF qs
<1>2. /\ \A n \in 1 .. k : n \in 1 .. k + 1 /\ (n < k => n + 1 \in 1 .. k /\ n \in 1 .. k - 1)
      /\ \A n \in 1 .. k + 1 : n \in 1 .. k \/ n = k + 1
      /\ \A n \in 1 .. k - 1 : n \in 1 .. k /\ n + 1 \in 1 .. k
      /\ k + 1 - 1 = k /\ k + 1 \in 1 .. k + 1 /\ (ps # <<>> => k \in 1 .. k)
      /\ \A n \in 1 .. k : n < k + 1 /\ ~(k + 1 < n)
      /\ ~(k + 1 < k + 1)
  BY <1>1
<1>3. ASSUME Apart(qs, gap)
      PROVE  Apart(ps, gap) /\ Ordered(p) /\ (ps # <<>> => p.start_time - ps[k].end_time > gap)
  <2>1. /\ \A n \in 1 .. k + 1 : Ordered(qs[n])
        /\ \A n \in 1 .. k : qs[n + 1].start_time - qs[n].end_time > gap
    BY <1>1, <1>2, <1>3 DEF Apart
  <2>2. Ordered(p) /\ \A n \in 1 .. k : Ordered(ps[n])
    BY <1>1, <1>2, <2>1
  <2>3. \A n \in 1 .. k - 1 : ps[n + 1].start_time - ps[n].end_time > gap
    BY <1>1, <1>2, <2>1
  <2>4. ps # <<>> => p.start_time - ps[k].end_time > gap
    BY <1>1, <1>2, <2>1
  <2>5. QED BY <2>2, <2>3, <2>4 DEF Apart
<1>4. ASSUME FarApart(qs, gap)
      PROVE  FarApart(ps, gap) /\ Ordered(p) /\ \A m \in 1 .. k : p.start_time - ps[m].end_time > gap
  BY <1>1, <1>2, <1>4 DEF FarApart
<1>5. ASSUME FarApart(ps, gap), Ordered(p), \A m \in 1 .. k : p.start_time - ps[m].end_time > gap
      PROVE  FarApart(qs, gap)
  <2>1. \A n \in 1 .. k + 1 : Ordered(qs[n])
    BY <1>1, <1>2, <1>5 DEF FarApart
  <2>2. ASSUME NEW m \in 1 .. k + 1, NEW n \in 1 .. k + 1, m < n
        PROVE  qs[n].start_time - qs[m].end_time > gap
    <3>1. m \in 1 .. k /\ qs[m] = ps[m]
      BY <1>1, <1>2, <2>2
    <3>2. CASE n = k + 1
      BY <1>1, <1>5, <3>1, <3>2
    <3>3. CASE n \in 1 .. k
      BY <1>1, <1>5, <2>2, <3>1, <3>3 DEF FarApart
    <3>4. QED BY <1>2, <3>2, <3>3
  <2>3. QED BY <1>1, <2>1, <2>2 DEF FarApart
<1>6. QED BY <1>3, <1>4, <1>5 DEF qs

\* If neighbours are far from each other, any two are: a patch is not shorter than nothing.
LEMMA FarFollows ==
  ASSUME NEW gap \in Nat, NEW ps \in Seq(PatchType), Apart(ps, gap)
  PROVE  FarApart(ps, gap)
<1> DEFINE P == {q \in Seq(PatchType) : Apart(q, gap) => FarApart(q, gap)}
<1>1. <<>> \in P
  <2>1. FarApart(<<>>, gap)
    BY DEF FarApart
  <2>2. QED BY <2>1
<1>2. ASSUME NEW q \in Seq(PatchType), NEW p \in PatchType, q \in P PROVE Append(q, p) \in P
  <2> SUFFICES ASSUME Apart(Append(q, p), gap) PROVE FarApart(Append(q, p), gap)
    OBVIOUS
  <2>1. Apart(q, gap) /\ Ordered(p) /\ (q # <<>> => p.start_time - q[Len(q)].end_time > gap)
    BY ApartAppend
  <2>2. FarApart(q, gap)
    BY <1>2, <2>1
  <2>3. ASSUME NEW m \in 1 .. Len(q) PROVE p.start_time - q[m].end_time > gap
    <3> DEFINE k == Len(q)
    <3>1. k \in Nat /\ k \in 1 .. k /\ q # <<>> /\ m <= k /\ m \in Int
      OBVIOUS
    <3>2. q[m] \in PatchType /\ q[k] \in PatchType
      BY <3>1, MemberType
    <3> HIDE DEF k
    <3>3. CASE m = k
      BY <2>1, <3>1, <3>3 DEF k
    <3>4. CASE m < k
      <4>1. q[k].start_time - q[m].end_time > gap /\ q[k].start_time <= q[k].end_time
        BY <2>2, <3>1, <3>4 DEF FarApart, Ordered, k
      <4>2. p.start_time - q[k].end_time > gap
        BY <2>1, <3>1 DEF k
      <4>3. QED BY <3>2, <4>1, <4>2 DEF PatchType
    <3>5. QED BY <3>1, <3>3, <3>4
  <2>4. QED BY <2>1, <2>2, <2>3, ApartAppend
<1> HIDE DEF P
<1>3. Seq(PatchType) \subseteq P
  BY <1>1, <1>2, Growing
<1>4. QED BY <1>3 DEF P

\* Whatever is dropped, the rest is still apart.
LEMMA FarSelected ==
  ASSUME NEW gap \in Nat, NEW ps \in Seq(PatchType), FarApart(ps, gap), NEW S
  PROVE  FarApart(Select(ps, S), gap)
<1> DEFINE P == {q \in Seq(PatchType) : FarApart(q, gap) => FarApart(Select(q, S), gap)}
<1>1. <<>> \in P
  <2>1. FarApart(Select(<<>>, S), gap)
    BY SelectEmpty DEF FarApart
  <2>2. QED BY <2>1
<1>2. ASSUME NEW q \in Seq(PatchType), NEW p \in PatchType, q \in P PROVE Append(q, p) \in P
  <2> SUFFICES ASSUME FarApart(Append(q, p), gap) PROVE FarApart(Select(Append(q, p), S), gap)
    OBVIOUS
  <2> DEFINE kept == Select(q, S)
  <2>1. FarApart(q, gap) /\ Ordered(p) /\ \A m \in 1 .. Len(q) : p.start_time - q[m].end_time > gap
    BY ApartAppend
  <2>2. FarApart(kept, gap)
    BY <1>2, <2>1
  <2>3. Select(Append(q, p), S) = IF p \in S THEN Append(kept, p) ELSE kept
    BY SelectAppend
  <2>4. kept \in Seq(PatchType \cap S)
    BY SelectType
  <2>5. kept \in Seq(PatchType)
    BY <2>4
  <2>6. ASSUME NEW m \in 1 .. Len(kept) PROVE p.start_time - kept[m].end_time > gap
    <3>1. Has(kept, kept[m])
      BY DEF Has
    <3>2. Has(q, kept[m])
      BY <3>1, SelectMembers
    <3>3. QED BY <2>1, <3>2 DEF Has
  <2> HIDE DEF kept
  <2>7. FarApart(Append(kept, p), gap)
    BY <2>1, <2>2, <2>5, <2>6, ApartAppend
  <2>8. QED BY <2>2, <2>3, <2>7
<1> HIDE DEF P
<1>3. Seq(PatchType) \subseteq P
  BY <1>1, <1>2, Growing
<1>4. QED BY <1>3 DEF P

-----------------------------------------------------------------------------
(* Lists *)

\* A part of a list has the members between its bounds.
LEMMA HasPart ==
  ASSUME NEW A, NEW s \in Seq(A), NEW a \in 1 .. Len(s) + 1, NEW b \in 0 .. Len(s), NEW x
  PROVE  SubSeq(s, a, b) \in Seq(A) /\ (Has(SubSeq(s, a, b), x) <=> \E j \in a .. b : s[j] = x)
<1> DEFINE n == Len(s)
           u == SubSeq(s, a, b)
<1>1. /\ n \in Nat /\ u \in Seq(A) /\ Len(u) = IF a <= b THEN b - a + 1 ELSE 0
      /\ \A i \in 1 .. Len(u) : u[i] = s[a + i - 1]
  OBVIOUS
<1> HIDE DEF u
<1>2. ASSUME Has(u, x) PROVE \E j \in a .. b : s[j] = x
  <2>1. PICK i \in 1 .. Len(u) : u[i] = x
    BY <1>2 DEF Has
  <2>2. a + i - 1 \in a .. b
    BY <1>1
  <2>3. QED BY <1>1, <2>1, <2>2
<1>3. ASSUME NEW j \in a .. b, s[j] = x PROVE Has(u, x)
  <2>1. j - a + 1 \in 1 .. Len(u) /\ a + (j - a + 1) - 1 = j
    BY <1>1
  <2>2. u[j - a + 1] = x
    BY <1>1, <1>3, <2>1
  <2>3. QED BY <2>1, <2>2 DEF Has
<1>4. QED BY <1>1, <1>2, <1>3 DEF u

\* Of some numbers up to n one is the least.
LEMMA LeastOf ==
  ASSUME NEW n \in Nat, NEW S \in SUBSET (1 .. n), S # {}
  PROVE  Least(S) \in S /\ \A j \in S : Least(S) <= j
BY LeastNumber DEF Least

-----------------------------------------------------------------------------
(* Sequences of the tracker *)

\* What a sequence can show.
Faces == {h.face : h \in Humans}

\* What a sequence remembers: face, place and body may be of different sightings.
Nodes == [face: Faces, place: {h.place : h \in Humans}, body: {h.body : h \in Humans}]

\* The sequences, with whole numbers.
TrackType == [tracking_id: Int, node: Nodes, stored: Faces, ttl: Int, length: Int,
              has_match: BOOLEAN, time_patchs: Seq(PatchType)]

\* No patch ends after t.
EndsBy(ps, t) == \A n \in 1 .. Len(ps) : ps[n].end_time <= t

\* The sequences that can be there at time t.
Good(t) ==
    {ts \in TrackType :
        ts.time_patchs # <<>> /\ Apart(ts.time_patchs, Gap) /\ EndsBy(ts.time_patchs, t)}

\* A human can be remembered as it is.
LEMMA HumanNodes == Humans \subseteq Nodes
BY TrackingAssumption DEF Nodes, Faces

\* What the assumption says of the numbers.
LEMMA GapNat == Gap \in Nat /\ Tolerance \in Nat /\ FrameTimes \subseteq Nat
BY TrackingAssumption

\* A sequence that can be there now can be there later.
LEMMA GoodLater ==
  ASSUME NEW t \in Int, NEW u \in Int, t <= u
  PROVE  Good(t) \subseteq Good(u)
<1> SUFFICES ASSUME NEW ts \in Good(t) PROVE ts \in Good(u)
  OBVIOUS
<1> DEFINE ps == ts.time_patchs
<1>1. ts \in TrackType /\ ps \in Seq(PatchType) /\ ps # <<>> /\ Apart(ps, Gap) /\ EndsBy(ps, t)
  BY DEF Good, TrackType
<1> HIDE DEF ps
<1>2. \A n \in 1 .. Len(ps) : ps[n].end_time \in Int
  <2>1. \A n \in 1 .. Len(ps) : ps[n] \in PatchType
    BY <1>1, MemberType
  <2>2. QED BY <2>1 DEF PatchType
<1>3. EndsBy(ps, u)
  BY <1>1, <1>2 DEF EndsBy
<1>4. QED BY <1>1, <1>3 DEF Good, ps

\* A list of patches goes on until now.
LEMMA Reaching ==
  ASSUME NEW ps \in Seq(PatchType), ps # <<>>, NEW gap \in Nat, NEW t \in Int, Apart(ps, gap), EndsBy(ps, t),
         NEW qs, qs = [ps EXCEPT ![Len(ps)] = update_end_time(ps[Len(ps)], t)]
  PROVE  /\ qs \in Seq(PatchType) /\ qs # <<>> /\ Apart(qs, gap) /\ EndsBy(qs, t)
         /\ InSome(qs, t) /\ \A x \in Int : InSome(ps, x) => InSome(qs, x)
<1> DEFINE k == Len(ps)
           last == ps[k]
           p == Patch(t, t)
<1>1. k \in Nat /\ k >= 1 /\ last \in PatchType /\ k \in 1 .. k
  <2>1. last \in PatchType
    BY MemberType
  <2>2. QED BY <2>1
<1>2. p \in PatchType /\ Ordered(p) /\ p.start_time = t /\ p.end_time = t /\ is_in(p, t)
  BY DEF Patch, PatchType, Ordered, is_in
<1>3. /\ last.start_time <= last.end_time /\ last.end_time <= t
      /\ last.start_time \in Int /\ last.end_time \in Int
  BY <1>1 DEF Apart, Ordered, EndsBy, PatchType
<1>4. Follows(ps, p)
  BY <1>2, <1>3 DEF Follows
<1>5. qs = Stretched(ps, p)
  <2>1. (IF p.end_time > last.end_time THEN p.end_time ELSE last.end_time) = t
    BY <1>2, <1>3
  <2>2. QED BY <2>1 DEF Stretched
<1>6. /\ qs \in Seq(PatchType) /\ Apart(qs, gap)
      /\ \A x \in Int : InSome(ps, x) \/ is_in(p, x) => InSome(qs, x)
  BY <1>2, <1>4, <1>5, Stretching
<1>7. update_end_time(last, t).end_time = t
  BY <1>1 DEF update_end_time, PatchType
<1> HIDE DEF p, last
<1>8. Len(qs) = k /\ qs[k].end_time = t /\ \A n \in 1 .. k : n # k => qs[n] = ps[n]
  BY <1>1, <1>7 DEF last
<1>9. EndsBy(qs, t)
  <2> SUFFICES ASSUME NEW n \in 1 .. k PROVE qs[n].end_time <= t
    BY <1>8 DEF EndsBy
  <2>1. CASE n = k
    <3>1. t <= t
      OBVIOUS
    <3> HIDE DEF k
    <3>2. qs[n].end_time = t
      BY <1>8, <2>1
    <3>3. QED BY <3>1, <3>2
  <2>2. CASE n # k
    BY <1>8, <2>2 DEF EndsBy
  <2>3. QED BY <2>1, <2>2
<1>10. qs # <<>>
  <2>1. Len(<<>>) = 0
    OBVIOUS
  <2> HIDE DEF k
  <2>2. Len(qs) # 0
    BY <1>1, <1>8
  <2>3. QED BY <2>1, <2>2
<1>11. QED BY <1>2, <1>6, <1>9, <1>10

\* An update remembers what it may.
LEMMA NodeUpdated ==
  ASSUME NEW node \in Nodes, NEW h \in Humans
  PROVE  UpdatedNode(node, h) \in Nodes
BY HumanNodes DEF UpdatedNode, Nodes

\* update: the sequence reaches up to now and loses no time.
LEMMA Updating ==
  ASSUME NEW t \in Int, NEW ts \in Good(t), NEW h \in Humans, NEW better
  PROVE  /\ Updated(ts, h, t, better) \in Good(t)
         /\ InSome(Updated(ts, h, t, better).time_patchs, t)
         /\ \A x \in Int : InSome(ts.time_patchs, x) => InSome(Updated(ts, h, t, better).time_patchs, x)
<1> DEFINE ps == ts.time_patchs
           qs == [ps EXCEPT ![Len(ps)] = update_end_time(ps[Len(ps)], t)]
           stored == IF h.face # NoFace /\ better THEN h.face ELSE ts.stored
           new == [tracking_id |-> ts.tracking_id, node |-> UpdatedNode(ts.node, h), stored |-> stored,
                   ttl |-> ts.ttl, length |-> ts.length + 1, has_match |-> TRUE, time_patchs |-> qs]
<1>1. ts \in TrackType /\ ps \in Seq(PatchType) /\ ps # <<>> /\ Apart(ps, Gap) /\ EndsBy(ps, t)
  BY DEF Good, TrackType
<1>2. Updated(ts, h, t, better) = new
  <2>1. ts = [tracking_id |-> ts.tracking_id, node |-> ts.node, stored |-> ts.stored, ttl |-> ts.ttl,
              length |-> ts.length, has_match |-> ts.has_match, time_patchs |-> ts.time_patchs]
    BY <1>1 DEF TrackType
  <2>2. Updated(ts, h, t, better) =
          [ts EXCEPT !.node = UpdatedNode(ts.node, h), !.length = ts.length + 1, !.has_match = TRUE,
                     !.time_patchs = qs, !.stored = stored]
    BY <2>1, Zenon DEF Updated
  <2> HIDE DEF qs, stored
  <2>3. QED BY <2>1, <2>2
<1>3. /\ qs \in Seq(PatchType) /\ qs # <<>> /\ Apart(qs, Gap) /\ EndsBy(qs, t)
      /\ InSome(qs, t) /\ \A x \in Int : InSome(ps, x) => InSome(qs, x)
  BY <1>1, GapNat, Reaching
<1>4. stored \in Faces /\ UpdatedNode(ts.node, h) \in Nodes
  BY <1>1, NodeUpdated DEF TrackType, Faces
<1> HIDE DEF qs, stored
<1>5. new \in TrackType /\ new.time_patchs = qs
  BY <1>1, <1>3, <1>4 DEF TrackType
<1> HIDE DEF new
<1>6. QED BY <1>2, <1>3, <1>5 DEF Good

\* A revived sequence loses no time.
LEMMA Reviving ==
  ASSUME NEW t \in Int, NEW ts \in Good(t)
  PROVE  /\ Revived(ts, t) \in Good(t)
         /\ \A x \in Int : InSome(ts.time_patchs, x) => InSome(Revived(ts, t).time_patchs, x)
<1> DEFINE ps == ts.time_patchs
           p == Patch(t, t)
           qs == IF t - ps[Len(ps)].end_time > Gap THEN Append(ps, p) ELSE ps
           new == [tracking_id |-> ts.tracking_id, node |-> ts.node, stored |-> ts.stored,
                   ttl |-> Tolerance, length |-> ts.length, has_match |-> ts.has_match, time_patchs |-> qs]
<1>1. ts \in TrackType /\ ps \in Seq(PatchType) /\ ps # <<>> /\ Apart(ps, Gap) /\ EndsBy(ps, t)
  BY DEF Good, TrackType
<1>2. Revived(ts, t) = new
  <2>1. ts = [tracking_id |-> ts.tracking_id, node |-> ts.node, stored |-> ts.stored, ttl |-> ts.ttl,
              length |-> ts.length, has_match |-> ts.has_match, time_patchs |-> ts.time_patchs]
    BY <1>1 DEF TrackType
  <2>2. Revived(ts, t) = [ts EXCEPT !.ttl = Tolerance, !.time_patchs = qs]
    BY <2>1, Zenon DEF Revived
  <2> HIDE DEF qs
  <2>3. QED BY <2>1, <2>2
<1>3. p \in PatchType /\ Ordered(p) /\ p.start_time = t /\ p.end_time = t
  BY DEF Patch, PatchType, Ordered
<1> HIDE DEF p, ps
<1>4. /\ qs \in Seq(PatchType) /\ qs # <<>> /\ Apart(qs, Gap) /\ EndsBy(qs, t)
      /\ \A x \in Int : InSome(ps, x) => InSome(qs, x)
  <2>1. CASE t - ps[Len(ps)].end_time > Gap
    <3>1. qs = Append(ps, p) /\ p.start_time - ps[Len(ps)].end_time > Gap
      BY <1>3, <2>1
    <3>2. /\ qs \in Seq(PatchType) /\ Apart(qs, Gap)
          /\ \A x \in Int : InSome(qs, x) <=> InSome(ps, x) \/ is_in(p, x)
      BY <1>1, <1>3, <3>1, GapNat, Appending
    <3>3. EndsBy(qs, t) /\ qs # <<>>
      <4>1. /\ Len(qs) = Len(ps) + 1 /\ qs[Len(ps) + 1] = p
            /\ \A n \in 1 .. Len(ps) : qs[n] = ps[n]
        BY <1>1, <3>1
      <4>2. Len(ps) \in Nat /\ t <= t
        BY <1>1
      <4>3. QED BY <1>1, <1>3, <4>1, <4>2 DEF EndsBy
    <3>4. QED BY <3>2, <3>3
  <2>2. CASE ~(t - ps[Len(ps)].end_time > Gap)
    BY <1>1, <2>2
  <2>3. QED BY <2>1, <2>2
<1> HIDE DEF qs
<1>5. new \in TrackType /\ new.time_patchs = qs
  BY <1>1, <1>4, GapNat DEF TrackType
<1> HIDE DEF new
<1>6. QED BY <1>2, <1>4, <1>5 DEF Good, ps

\* A new sequence holds the time it starts at.
LEMMA Starting ==
  ASSUME NEW t \in Int, NEW id \in Int, NEW h \in Humans
  PROVE  /\ NewSequence(id, h, t) \in Good(t)
         /\ InSome(NewSequence(id, h, t).time_patchs, t)
<1> DEFINE p == Patch(t, t)
           new == NewSequence(id, h, t)
<1>1. p \in PatchType /\ Ordered(p) /\ p.end_time = t /\ is_in(p, t)
  BY DEF Patch, PatchType, Ordered, is_in
<1>2. h \in Nodes /\ h.face \in Faces
  BY HumanNodes DEF Faces
<1> HIDE DEF p
<1>3. new \in TrackType /\ new.time_patchs = <<p>>
  BY <1>1, <1>2, GapNat DEF NewSequence, TrackType, p
<1> HIDE DEF new
<1>4. <<p>> # <<>> /\ Apart(<<p>>, Gap) /\ EndsBy(<<p>>, t) /\ InSome(<<p>>, t)
  <2>1. /\ Len(<<p>>) = 1 /\ <<p>>[1] = p /\ t <= t
        /\ \A n \in 1 .. 1 : n = 1
        /\ 1 .. 1 - 1 = {} /\ 1 \in 1 .. 1
    OBVIOUS
  <2>2. QED BY <1>1, <2>1 DEF Apart, EndsBy, InSome
<1>5. QED BY <1>3, <1>4 DEF Good, new

\* check_state leaves the patches as they are.
LEMMA Ageing ==
  ASSUME NEW t \in Int, NEW ts \in Good(t), NEW elapsed \in Int
  PROVE  check_state(ts, elapsed) \in Good(t) /\ check_state(ts, elapsed).time_patchs = ts.time_patchs
<1> DEFINE ttl == IF ts.has_match THEN ts.ttl ELSE ts.ttl - elapsed
           new == [tracking_id |-> ts.tracking_id, node |-> ts.node, stored |-> ts.stored, ttl |-> ttl,
                   length |-> ts.length, has_match |-> FALSE, time_patchs |-> ts.time_patchs]
<1>1. ts \in TrackType
  BY DEF Good
<1>2. ts = [tracking_id |-> ts.tracking_id, node |-> ts.node, stored |-> ts.stored, ttl |-> ts.ttl,
            length |-> ts.length, has_match |-> ts.has_match, time_patchs |-> ts.time_patchs]
  BY <1>1 DEF TrackType
<1>3. check_state(ts, elapsed) = [ts EXCEPT !.ttl = ttl, !.has_match = FALSE]
  BY <1>2, Zenon DEF check_state
<1>4. ttl \in Int
  BY <1>1 DEF TrackType
<1> HIDE DEF ttl
<1>5. check_state(ts, elapsed) = new
  BY <1>2, <1>3
<1>6. new \in TrackType
  BY <1>1, <1>4 DEF TrackType
<1>7. new.time_patchs = ts.time_patchs
  OBVIOUS
<1> HIDE DEF new
<1>8. QED BY <1>5, <1>6, <1>7 DEF Good

-----------------------------------------------------------------------------
(* The queue *)

\* rerank loses no sequence and adds none, when the target is not behind it.
LEMMA Reranked ==
  ASSUME NEW A, NEW q \in Seq(A), NEW a \in 1 .. Len(q), NEW i \in 1 .. Len(q), a <= i
  PROVE  rerank(q, a, i) \in Seq(A) /\ \A x : Has(rerank(q, a, i), x) <=> Has(q, x)
<1> DEFINE n == Len(q)
           u1 == SubSeq(q, 1, a - 1)
           u2 == <<q[i]>>
           u3 == SubSeq(q, a, i - 1)
           u4 == SubSeq(q, i + 1, n)
<1>1. n \in Nat /\ q[i] \in A
  OBVIOUS
<1>2. u2 \in Seq(A) /\ \A x : Has(u2, x) <=> q[i] = x
  <2>1. Len(u2) = 1 /\ u2[1] = q[i] /\ \A k \in 1 .. 1 : k = 1
    OBVIOUS
  <2>2. 1 \in 1 .. 1
    OBVIOUS
  <2>3. u2 \in Seq(A)
    BY <1>1
  <2> HIDE DEF u2
  <2>4. QED BY <2>1, <2>2, <2>3 DEF Has
<1>3. u1 \in Seq(A) /\ \A x : Has(u1, x) <=> \E j \in 1 .. a - 1 : q[j] = x
  <2>1. 1 \in 1 .. n + 1 /\ a - 1 \in 0 .. n
    BY <1>1
  <2>2. QED BY <2>1, HasPart
<1>4. u3 \in Seq(A) /\ \A x : Has(u3, x) <=> \E j \in a .. i - 1 : q[j] = x
  <2>1. a \in 1 .. n + 1 /\ i - 1 \in 0 .. n
    BY <1>1
  <2>2. QED BY <2>1, HasPart
<1>5. u4 \in Seq(A) /\ \A x : Has(u4, x) <=> \E j \in i + 1 .. n : q[j] = x
  <2>1. i + 1 \in 1 .. n + 1 /\ n \in 0 .. n
    BY <1>1
  <2>2. QED BY <2>1, HasPart
<1>6. rerank(q, a, i) = u1 \o u2 \o u3 \o u4
  BY DEF rerank
<1> HIDE DEF u1, u2, u3, u4
<1>7. u1 \o u2 \in Seq(A) /\ u1 \o u2 \o u3 \in Seq(A) /\ u1 \o u2 \o u3 \o u4 \in Seq(A)
  BY <1>2, <1>3, <1>4, <1>5
<1>8. \A x : Has(u1 \o u2 \o u3 \o u4, x) <=> Has(u1, x) \/ Has(u2, x) \/ Has(u3, x) \/ Has(u4, x)
  <2>1. \A x : Has(u1 \o u2, x) <=> Has(u1, x) \/ Has(u2, x)
    BY <1>2, <1>3, HasConcat
  <2>2. \A x : Has(u1 \o u2 \o u3, x) <=> Has(u1 \o u2, x) \/ Has(u3, x)
    BY <1>4, <1>7, HasConcat
  <2>3. \A x : Has(u1 \o u2 \o u3 \o u4, x) <=> Has(u1 \o u2 \o u3, x) \/ Has(u4, x)
    BY <1>5, <1>7, HasConcat
  <2>4. QED BY <2>1, <2>2, <2>3
<1>9. \A j \in 1 .. n : j \in 1 .. a - 1 \/ j = i \/ j \in a .. i - 1 \/ j \in i + 1 .. n
  BY <1>1
<1>10. 1 .. a - 1 \subseteq 1 .. n /\ a .. i - 1 \subseteq 1 .. n /\ i + 1 .. n \subseteq 1 .. n
  BY <1>1
<1>11. \A x : Has(q, x) <=> Has(u1, x) \/ Has(u2, x) \/ Has(u3, x) \/ Has(u4, x)
  BY <1>2, <1>3, <1>4, <1>5, <1>9, <1>10 DEF Has
<1>12. QED BY <1>6, <1>7, <1>8, <1>11

\* A queue that is not empty has a shortest sequence.
LEMMA ShortestOne ==
  ASSUME NEW t \in Int, NEW q \in Seq(Good(t)), q # <<>>
  PROVE  ShortestFirst(q) \in 1 .. Len(q)
<1> DEFINE n == Len(q)
           S == {i \in 1 .. n : \A j \in 1 .. n : q[i].length <= q[j].length}
           f == [i \in 1 .. n |-> -q[i].length]
<1>1. n \in Nat \ {0} /\ DOMAIN q = 1 .. n
  OBVIOUS
<1>2. \A i \in 1 .. n : q[i].length \in Int
  <2>1. \A i \in 1 .. n : q[i] \in Good(t)
    BY MemberType
  <2>2. QED BY <2>1 DEF Good, TrackType
<1>3. f \in [1 .. n -> Int]
  BY <1>2
<1>4. PICK m \in 1 .. n : \A j \in 1 .. n : f[j] <= f[m]
  BY <1>1, <1>3, Greatest
<1>5. \A j \in 1 .. n : -q[j].length <= -q[m].length
  BY <1>4
<1>6. \A a, b \in Int : -a <= -b => b <= a
  OBVIOUS
<1>7. m \in S
  BY <1>2, <1>5, <1>6
<1>8. ShortestFirst(q) = Least(S)
  BY <1>1 DEF ShortestFirst
<1>9. S \in SUBSET (1 .. n) /\ S # {}
  BY <1>7
<1> HIDE DEF S
<1>10. Least(S) \in S
  BY <1>1, <1>9, LeastOf
<1>11. QED BY <1>8, <1>9, <1>10

-----------------------------------------------------------------------------
(* Pushing the humans of a frame *)

\* x is in a patch of one of the sequences.
HasTime(q, x) == \E i \in 1 .. Len(q) : InSome(q[i].time_patchs, x)

\* No time of q is missing in r.
Keeps(q, r) == \A x \in Int : HasTime(q, x) => HasTime(r, x)

\* What pushing a human takes and gives.
States(t) == [queue: Seq(Good(t)), id: Int, ok: BOOLEAN]

\* One sequence is put in place of another that had no other times.
LEMMA Replacing ==
  ASSUME NEW t \in Int, NEW q \in Seq(Good(t)), NEW i \in 1 .. Len(q), NEW new \in Good(t),
         \A x \in Int : InSome(q[i].time_patchs, x) => InSome(new.time_patchs, x),
         InSome(new.time_patchs, t)
  PROVE  /\ [q EXCEPT ![i] = new] \in Seq(Good(t))
         /\ Keeps(q, [q EXCEPT ![i] = new]) /\ HasTime([q EXCEPT ![i] = new], t)
<1> DEFINE r == [q EXCEPT ![i] = new]
<1>1. r \in Seq(Good(t)) /\ Len(r) = Len(q) /\ r[i] = new /\ \A j \in 1 .. Len(q) : j # i => r[j] = q[j]
  OBVIOUS
<1> HIDE DEF r
<1>2. Keeps(q, r)
  <2> SUFFICES ASSUME NEW x \in Int, NEW j \in 1 .. Len(q), InSome(q[j].time_patchs, x)
               PROVE  InSome(r[j].time_patchs, x)
    BY <1>1 DEF Keeps, HasTime
  <2>1. QED BY <1>1
<1>3. HasTime(r, t)
  BY <1>1 DEF HasTime
<1>4. QED BY <1>1, <1>2, <1>3 DEF r

\* _insert loses no time and puts a face that is shown into a sequence.
LEMMA Inserting ==
  ASSUME NEW t \in Int, NEW s \in States(t), NEW h \in Humans, NEW better
  PROVE  /\ insert(s, h, t, better) \in States(t)
         /\ insert(s, h, t, better).ok = s.ok
         /\ Keeps(s.queue, insert(s, h, t, better).queue)
         /\ h.face # NoFace => HasTime(insert(s, h, t, better).queue, t)
<1> DEFINE q == s.queue
           known == FaceMatches(q, h)
           i == Least(known)
           n == Len(q)
           revived == Revived(q[i], t)
           new == Updated(revived, h, t, better)
           started == NewSequence(s.id + 1, h, t)
<1>1. q \in Seq(Good(t)) /\ s.id \in Int /\ s.ok \in BOOLEAN /\ n \in Nat /\ DOMAIN q = 1 .. n
  BY DEF States
<1>2. CASE known # {}
  <2>1. i \in 1 .. n
    <3>1. known \in SUBSET (1 .. n)
      BY <1>1 DEF FaceMatches
    <3> HIDE DEF known
    <3>2. QED BY <1>1, <1>2, <3>1, LeastOf
  <2>2. insert(s, h, t, better) = State([q EXCEPT ![i] = new], s.id, s.ok)
    BY <1>2 DEF insert
  <2> HIDE DEF i, q
  <2>3. q[i] \in Good(t)
    BY <1>1, <2>1, MemberType
  <2>4. revived \in Good(t) /\ \A x \in Int : InSome(q[i].time_patchs, x) => InSome(revived.time_patchs, x)
    BY <2>3, Reviving
  <2> HIDE DEF revived
  <2>5. /\ new \in Good(t) /\ InSome(new.time_patchs, t)
        /\ \A x \in Int : InSome(revived.time_patchs, x) => InSome(new.time_patchs, x)
    BY <2>4, Updating
  <2> HIDE DEF new
  <2>6. \A x \in Int : InSome(q[i].time_patchs, x) => InSome(new.time_patchs, x)
    BY <2>4, <2>5
  <2> DEFINE r == [q EXCEPT ![i] = new]
  <2>7. r \in Seq(Good(t)) /\ Keeps(q, r) /\ HasTime(r, t)
    BY <1>1, <2>1, <2>5, <2>6, Replacing
  <2> HIDE DEF r
  <2>8. State(r, s.id, s.ok) \in States(t) /\ State(r, s.id, s.ok).ok = s.ok /\ State(r, s.id, s.ok).queue = r
    BY <1>1, <2>7 DEF State, States
  <2>9. QED BY <2>2, <2>7, <2>8 DEF q, r
<1>3. CASE known = {} /\ h.face = NoFace
  <2>1. insert(s, h, t, better) = s
    BY <1>3 DEF insert
  <2>2. QED BY <1>3, <2>1 DEF Keeps
<1>4. CASE known = {} /\ h.face # NoFace
  <2> DEFINE r == Append(q, started)
  <2>1. insert(s, h, t, better) = State(r, s.id + 1, s.ok)
    BY <1>4 DEF insert
  <2>2. started \in Good(t) /\ InSome(started.time_patchs, t)
    BY <1>1, Starting
  <2> HIDE DEF started, known
  <2>3. r \in Seq(Good(t)) /\ Len(r) = n + 1 /\ r[n + 1] = started /\ \A j \in 1 .. n : r[j] = q[j]
    BY <1>1, <2>2
  <2> HIDE DEF r
  <2>4. \A j \in 1 .. n : j \in 1 .. n + 1
    BY <1>1
  <2>5. n + 1 \in 1 .. n + 1
    BY <1>1
  <2>6. Keeps(q, r)
    BY <2>3, <2>4 DEF Keeps, HasTime
  <2>7. HasTime(r, t)
    BY <2>2, <2>3, <2>5 DEF HasTime
  <2>8. /\ State(r, s.id + 1, s.ok) \in States(t) /\ State(r, s.id + 1, s.ok).ok = s.ok
        /\ State(r, s.id + 1, s.ok).queue = r
    BY <1>1, <2>3 DEF State, States
  <2>9. QED BY <2>1, <2>6, <2>7, <2>8
<1>5. QED BY <1>2, <1>3, <1>4

\* The order of the sequences does not matter.
LEMMA SameTimes ==
  ASSUME NEW q, NEW r, \A x : Has(r, x) <=> Has(q, x)
  PROVE  \A x : HasTime(q, x) <=> HasTime(r, x)
BY DEF Has, HasTime

\* push does so too, unless it raises.
LEMMA Pushing ==
  ASSUME NEW t \in Int, NEW s \in States(t), NEW h \in Humans, NEW better
  PROVE  /\ push(s, h, t, better) \in States(t)
         /\ push(s, h, t, better).ok =>
              /\ s.ok /\ Keeps(s.queue, push(s, h, t, better).queue)
              /\ h.face # NoFace => HasTime(push(s, h, t, better).queue, t)
<1> DEFINE q == s.queue
           n == Len(q)
           matched == {i \in DOMAIN q : is_alive(q[i]) /\ is_match(q[i], h)}
           i == Least(matched)
           head == ShortestFirst(q)
           new == Updated(q[i], h, t, better)
           r == [q EXCEPT ![i] = new]
           z == rerank(r, head, i)
<1>1. q \in Seq(Good(t)) /\ s.id \in Int /\ s.ok \in BOOLEAN /\ n \in Nat /\ DOMAIN q = 1 .. n
  BY DEF States
<1>2. CASE ~s.ok
  BY <1>2 DEF push
<1>3. CASE s.ok /\ matched = {}
  <2>1. push(s, h, t, better) = insert(s, h, t, better)
    BY <1>3 DEF push
  <2>2. QED BY <1>3, <2>1, Inserting
<1>4. CASE s.ok /\ matched # {}
  <2>1. i \in 1 .. n
    <3>1. matched \in SUBSET (1 .. n)
      BY <1>1
    <3> HIDE DEF matched
    <3>2. QED BY <1>1, <1>4, <3>1, LeastOf
  <2>2. push(s, h, t, better) = IF head > i THEN State(r, s.id, FALSE) ELSE State(z, s.id, TRUE)
    BY <1>4 DEF push
  <2> HIDE DEF matched, i, q
  <2>3. q[i] \in Good(t) /\ q # <<>> /\ n \in Nat
    BY <1>1, <2>1, MemberType
  <2>4. /\ new \in Good(t) /\ InSome(new.time_patchs, t)
        /\ \A x \in Int : InSome(q[i].time_patchs, x) => InSome(new.time_patchs, x)
    BY <2>3, Updating
  <2>5. head \in 1 .. n
    BY <1>1, <2>3, ShortestOne
  <2> HIDE DEF head, new
  <2>6. r \in Seq(Good(t)) /\ Keeps(q, r) /\ HasTime(r, t)
    BY <1>1, <2>1, <2>4, Replacing
  <2>7. Len(r) = n
    BY <1>1
  <2> HIDE DEF r
  <2>8. CASE head > i
    <3>1. State(r, s.id, FALSE) \in States(t) /\ ~State(r, s.id, FALSE).ok
      BY <1>1, <2>6 DEF State, States
    <3>2. QED BY <2>2, <2>8, <3>1
  <2>9. CASE ~(head > i)
    <3>1. head <= i /\ head \in 1 .. Len(r) /\ i \in 1 .. Len(r)
      BY <2>1, <2>3, <2>5, <2>7, <2>9
    <3>2. z \in Seq(Good(t)) /\ \A x : Has(z, x) <=> Has(r, x)
      BY <2>6, <3>1, Reranked
    <3> HIDE DEF z
    <3>3. \A x : HasTime(r, x) <=> HasTime(z, x)
      BY <3>2, SameTimes
    <3>4. Keeps(q, z) /\ HasTime(z, t)
      BY <2>6, <3>3 DEF Keeps
    <3>5. State(z, s.id, TRUE) \in States(t) /\ State(z, s.id, TRUE).queue = z
      BY <1>1, <3>2 DEF State, States
    <3>6. QED BY <1>4, <2>2, <2>9, <3>4, <3>5 DEF q
  <2>10. QED BY <2>8, <2>9
<1>5. QED BY <1>1, <1>2, <1>3, <1>4

\* f is what the humans hs make of the queue, one after the other.
PushesAlong(f, hs, t, better) ==
    /\ f[0] = State(queue, id_number, TRUE)
    /\ \A i \in 1 .. Len(hs) : f[i] = push(f[i - 1], hs[i], t, better)

\* The frame goes by its humans.
LEMMA PushSteps ==
  ASSUME NEW t \in Int, NEW hs \in Seq(Humans), NEW better,
         queue \in Seq(Good(t)), id_number \in Int
  PROVE  \E f \in [0 .. Len(hs) -> States(t)] :
           Pushed(hs, t, better) = f[Len(hs)] /\ PushesAlong(f, hs, t, better)
<1> DEFINE n == Len(hs)
           T == States(t)
           a == State(queue, id_number, TRUE)
           Eq(f) == f = [i \in 0 .. n |-> IF i = 0 THEN a ELSE push(f[i - 1], hs[i], t, better)]
           k == CHOOSE f : Eq(f)
           G == [i \in 1 .. n |-> [x \in T |-> push(x, hs[i], t, better)]]
<1>1. Pushed(hs, t, better) = k[n]
  BY DEF Pushed
<1>2. n \in Nat /\ a \in T /\ \A x \in T, i \in 1 .. n : push(x, hs[i], t, better) \in T
  <2>1. n \in Nat
    OBVIOUS
  <2>2. \A i \in 1 .. n : hs[i] \in Humans
    BY MemberType
  <2> HIDE DEF n
  <2>3. a \in T
    BY DEF State, States
  <2>4. \A x \in T, i \in 1 .. n : push(x, hs[i], t, better) \in T
    BY <2>2, Pushing
  <2>5. QED BY <2>1, <2>3, <2>4
<1> HIDE DEF T, a
<1>3. G \in [1 .. n -> [T -> T]] /\ \A x \in T, i \in 1 .. n : G[i][x] = push(x, hs[i], t, better)
  BY <1>2
<1> HIDE DEF G, n
<1>4. PICK f \in [0 .. n -> T] : Iterates(f, n, a, G)
  BY <1>2, <1>3, Iteration
<1>5. Eq(f)
  <2>1. f = [i \in 0 .. n |-> IF i = 0 THEN a ELSE G[i][f[i - 1]]]
    BY <1>4 DEF Iterates
  <2>2. \A i \in 0 .. n : i # 0 => i \in 1 .. n /\ f[i - 1] \in T
    BY <1>2
  <2>3. QED BY <1>3, <2>1, <2>2
<1>6. Eq(k)
  BY <1>5
<1> HIDE DEF k
<1>7. k[0] = a /\ \A i \in 1 .. n : k[i] = push(k[i - 1], hs[i], t, better)
  BY <1>2, <1>6
<1>8. k = [i \in 0 .. n |-> k[i]]
  BY <1>6
<1>9. \A i \in 1 .. n : k[i - 1] \in T => k[i] \in T
  BY <1>2, <1>7
<1>10. k \in [0 .. n -> T]
  BY <1>2, <1>7, <1>8, <1>9, StaysIn
<1>11. QED BY <1>1, <1>7, <1>10 DEF PushesAlong, n, T, a

\* What the first m humans of a frame leave behind, unless one of them raised.
PushedSoFar(f, hs, t, m) ==
    f[m].ok => /\ Keeps(queue, f[m].queue)
               /\ \A i \in 1 .. m : hs[i].face # NoFace => HasTime(f[m].queue, t)

\* A whole frame: no time is lost and every face shown is in a sequence.
LEMMA PushedAll ==
  ASSUME NEW t \in Int, NEW hs \in Seq(Humans), NEW better,
         queue \in Seq(Good(t)), id_number \in Int
  PROVE  /\ Pushed(hs, t, better) \in States(t)
         /\ Pushed(hs, t, better).ok =>
              /\ Keeps(queue, Pushed(hs, t, better).queue)
              /\ \A i \in 1 .. Len(hs) : hs[i].face # NoFace => HasTime(Pushed(hs, t, better).queue, t)
<1> DEFINE n == Len(hs)
<1>1. PICK f \in [0 .. n -> States(t)] : Pushed(hs, t, better) = f[n] /\ PushesAlong(f, hs, t, better)
  BY PushSteps
<1>2. n \in Nat /\ \A i \in 1 .. n : hs[i] \in Humans
  BY MemberType
<1> DEFINE S == {m \in 0 .. n : PushedSoFar(f, hs, t, m)}
<1>3. 0 \in S
  <2>1. f[0].queue = queue
    BY <1>1 DEF PushesAlong, State
  <2>2. QED BY <1>2, <2>1 DEF PushedSoFar, Keeps
<1>4. ASSUME NEW m \in 1 .. n, m - 1 \in S PROVE m \in S
  <2>1. PushedSoFar(f, hs, t, m - 1) /\ m \in 0 .. n /\ m - 1 \in 0 .. n
    BY <1>2, <1>4
  <2>2. f[m] = push(f[m - 1], hs[m], t, better) /\ f[m - 1] \in States(t) /\ hs[m] \in Humans
    BY <1>1, <1>2, <2>1 DEF PushesAlong
  <2> DEFINE old == f[m - 1]
             new == f[m]
  <2> HIDE DEF old
  <2>3. new.ok => old.ok /\ Keeps(old.queue, new.queue) /\ (hs[m].face # NoFace => HasTime(new.queue, t))
    BY <2>2, Pushing DEF old
  <2>4. \A i \in 1 .. m : i = m \/ i \in 1 .. m - 1
    BY <1>2
  <2>5. PushedSoFar(f, hs, t, m)
    <3> SUFFICES ASSUME new.ok
                 PROVE  /\ Keeps(queue, new.queue)
                        /\ \A i \in 1 .. m : hs[i].face # NoFace => HasTime(new.queue, t)
      BY DEF PushedSoFar
    <3>1. Keeps(queue, old.queue) /\ \A i \in 1 .. m - 1 : hs[i].face # NoFace => HasTime(old.queue, t)
      BY <2>1, <2>3 DEF PushedSoFar, old
    <3>2. QED BY <2>3, <2>4, <3>1 DEF Keeps
  <2>6. QED BY <2>1, <2>5
<1> HIDE DEF S
<1>5. 0 .. n \subseteq S
  BY <1>2, <1>3, <1>4, UpTo
<1>6. PushedSoFar(f, hs, t, n)
  BY <1>2, <1>5 DEF S
<1>7. QED BY <1>1, <1>2, <1>6 DEF PushedSoFar

-----------------------------------------------------------------------------
(* merge *)

\* No two sequences have the same face.
StoredApart(q) == \A i, j \in 1 .. Len(q) : q[i].stored = q[j].stored => i = j

\* What merge has built so far.
OneEach(t) == {q \in Seq(Good(t)) : StoredApart(q)}

\* The patches of two sequences together.
LEMMA TwoLists ==
  ASSUME NEW ps \in Seq(PatchType), NEW qs \in Seq(PatchType), NEW t \in Int,
         Apart(ps, Gap), Apart(qs, Gap), EndsBy(ps, t), EndsBy(qs, t)
  PROVE  /\ ps \o qs \in Seq(PatchType) /\ EndsBy(ps \o qs, t)
         /\ \A i \in 1 .. Len(ps \o qs) : Ordered((ps \o qs)[i])
         /\ \A x : InSome(ps \o qs, x) <=> InSome(ps, x) \/ InSome(qs, x)
<1> DEFINE u == ps \o qs
<1>1. u \in Seq(PatchType)
  OBVIOUS
<1>2. \A p : Has(u, p) <=> Has(ps, p) \/ Has(qs, p)
  BY HasConcat
<1> HIDE DEF u
<1>3. \A p : Has(u, p) => Ordered(p) /\ p.end_time <= t
  BY <1>2 DEF Has, Apart, EndsBy
<1>4. EndsBy(u, t) /\ \A i \in 1 .. Len(u) : Ordered(u[i])
  BY <1>3 DEF Has, EndsBy
<1>5. ASSUME NEW x PROVE InSome(u, x) <=> InSome(ps, x) \/ InSome(qs, x)
  <2>1. \A s : InSome(s, x) <=> \E p : Has(s, p) /\ is_in(p, x)
    BY DEF Has, InSome
  <2>2. QED BY <1>2, <2>1
<1>6. QED BY <1>1, <1>4, <1>5 DEF u

\* Merging patches makes none that ends later.
LEMMA MergedEnds ==
  ASSUME NEW ps \in Seq(PatchType), NEW t \in Int, EndsBy(ps, t), \A i \in 1 .. Len(ps) : Ordered(ps[i])
  PROVE  EndsBy(merge_time_patch(ps, Gap), t)
<1> DEFINE qs == merge_time_patch(ps, Gap)
<1>1. /\ qs \in Seq(PatchType) /\ Apart(qs, Gap)
      /\ \A x \in Int : InSome(qs, x) => InSome(ps, x) \/ Silent(ps, Gap, x)
  BY GapNat, MergedPatches
<1> HIDE DEF qs
<1>2. \A i \in 1 .. Len(ps) : ps[i] \in PatchType /\ ps[i].start_time <= ps[i].end_time /\ ps[i].end_time <= t
  <2>1. \A i \in 1 .. Len(ps) : ps[i] \in PatchType
    BY MemberType
  <2>2. QED BY <2>1 DEF Ordered, EndsBy
<1>3. ASSUME NEW n \in 1 .. Len(qs) PROVE qs[n].end_time <= t
  <2> DEFINE e == qs[n].end_time
  <2>1. qs[n] \in PatchType
    BY <1>1, MemberType
  <2>2. e \in Int /\ is_in(qs[n], e)
    <3>1. Ordered(qs[n]) /\ qs[n].end_time \in Int
      BY <1>1, <2>1 DEF Apart, PatchType
    <3>2. QED BY <3>1 DEF is_in, Ordered
  <2> HIDE DEF e
  <2>3. InSome(ps, e) \/ Silent(ps, Gap, e)
    BY <1>1, <2>2 DEF InSome
  <2>4. CASE InSome(ps, e)
    <3>1. PICK i \in 1 .. Len(ps) : is_in(ps[i], e)
      BY <2>4 DEF InSome
    <3>2. e <= ps[i].end_time /\ ps[i].end_time <= t /\ ps[i].end_time \in Int
      BY <1>2, <3>1 DEF is_in, PatchType
    <3>3. e <= t
      BY <2>2, <3>2
    <3>4. QED BY <3>3 DEF e
  <2>5. CASE Silent(ps, Gap, e)
    <3>1. PICK j \in 1 .. Len(ps) : e < ps[j].start_time
      BY <2>5 DEF Silent
    <3>2. /\ ps[j].start_time <= ps[j].end_time /\ ps[j].end_time <= t
          /\ ps[j].start_time \in Int /\ ps[j].end_time \in Int
      BY <1>2 DEF PatchType
    <3>3. e <= t
      BY <2>2, <3>1, <3>2
    <3>4. QED BY <3>3 DEF e
  <2>6. QED BY <2>3, <2>4, <2>5
<1>4. EndsBy(qs, t)
  BY <1>3 DEF EndsBy
<1>5. QED BY <1>4 DEF qs

\* A sequence that takes in another of the same face has the times of both.
LEMMA Absorbing ==
  ASSUME NEW t \in Int, NEW a \in Good(t), NEW b \in Good(t), NEW better, a.stored = b.stored
  PROVE  /\ Absorb(a, b, better) \in Good(t) /\ Absorb(a, b, better).stored = a.stored
         /\ \A x \in Int : InSome(a.time_patchs, x) \/ InSome(b.time_patchs, x)
                             => InSome(Absorb(a, b, better).time_patchs, x)
<1> DEFINE ps == a.time_patchs
           qs == b.time_patchs
           rs == merge_time_patch(ps \o qs, Gap)
           stored == IF better THEN a.stored ELSE b.stored
           new == [tracking_id |-> a.tracking_id, node |-> a.node, stored |-> stored,
                   ttl |-> a.ttl, length |-> a.length, has_match |-> a.has_match, time_patchs |-> rs]
<1>1. /\ a \in TrackType /\ ps \in Seq(PatchType) /\ ps # <<>> /\ Apart(ps, Gap) /\ EndsBy(ps, t)
      /\ b \in TrackType /\ qs \in Seq(PatchType) /\ Apart(qs, Gap) /\ EndsBy(qs, t)
  BY DEF Good, TrackType
<1>2. Absorb(a, b, better) = new
  <2>1. a = [tracking_id |-> a.tracking_id, node |-> a.node, stored |-> a.stored, ttl |-> a.ttl,
             length |-> a.length, has_match |-> a.has_match, time_patchs |-> a.time_patchs]
    BY <1>1 DEF TrackType
  <2>2. Absorb(a, b, better) = [a EXCEPT !.stored = stored, !.time_patchs = rs]
    BY <2>1, Zenon DEF Absorb
  <2> HIDE DEF rs, stored
  <2>3. QED BY <2>1, <2>2
<1>3. stored = a.stored
  OBVIOUS
<1> HIDE DEF ps, qs, stored
<1>4. /\ ps \o qs \in Seq(PatchType) /\ EndsBy(ps \o qs, t)
      /\ \A i \in 1 .. Len(ps \o qs) : Ordered((ps \o qs)[i])
      /\ \A x : InSome(ps \o qs, x) <=> InSome(ps, x) \/ InSome(qs, x)
  BY <1>1, TwoLists
<1>5. ps \o qs # <<>>
  BY <1>1
<1>6. /\ rs \in Seq(PatchType) /\ Apart(rs, Gap) /\ rs # <<>>
      /\ \A x \in Int : InSome(ps \o qs, x) => InSome(rs, x)
  BY <1>4, <1>5, GapNat, MergedPatches
<1>7. EndsBy(rs, t)
  BY <1>4, MergedEnds
<1> HIDE DEF rs
<1>8. new \in TrackType /\ new.time_patchs = rs /\ new.stored = a.stored
  BY <1>1, <1>3, <1>6 DEF TrackType
<1> HIDE DEF new
<1>9. QED BY <1>2, <1>4, <1>6, <1>7, <1>8 DEF Good, ps, qs

\* A turn of merge.
LEMMA MergingInto ==
  ASSUME NEW t \in Int, NEW done \in OneEach(t), NEW ts \in Good(t), NEW better
  PROVE  /\ MergedInto(done, ts, better) \in OneEach(t)
         /\ Keeps(done, MergedInto(done, ts, better))
         /\ \A x \in Int : InSome(ts.time_patchs, x) => HasTime(MergedInto(done, ts, better), x)
<1> DEFINE n == Len(done)
           same == {k \in DOMAIN done : done[k].stored = ts.stored}
           i == Least(same)
           new == Absorb(done[i], ts, better)
           appended == Append(done, ts)
           r == [done EXCEPT ![i] = new]
<1>1. /\ done \in Seq(Good(t)) /\ n \in Nat /\ DOMAIN done = 1 .. n
      /\ \A k, j \in 1 .. n : done[k].stored = done[j].stored => k = j
  BY DEF OneEach, StoredApart
<1>2. CASE same = {}
  <2>1. MergedInto(done, ts, better) = appended
    BY <1>2 DEF MergedInto
  <2>2. \A k \in 1 .. n : done[k].stored # ts.stored
    BY <1>1, <1>2
  <2>3. /\ appended \in Seq(Good(t)) /\ Len(appended) = n + 1 /\ appended[n + 1] = ts
        /\ \A j \in 1 .. n : appended[j] = done[j]
    BY <1>1
  <2> HIDE DEF appended, same
  <2>4. \A j \in 1 .. n : j \in 1 .. n + 1
    BY <1>1
  <2>5. n + 1 \in 1 .. n + 1 /\ \A j \in 1 .. n + 1 : j \in 1 .. n \/ j = n + 1
    BY <1>1
  <2>6. StoredApart(appended)
    BY <1>1, <2>2, <2>3, <2>5 DEF StoredApart
  <2>7. Keeps(done, appended)
    BY <2>3, <2>4 DEF Keeps, HasTime
  <2>8. \A x \in Int : InSome(ts.time_patchs, x) => HasTime(appended, x)
    BY <2>3, <2>5 DEF HasTime
  <2>9. QED BY <2>1, <2>3, <2>6, <2>7, <2>8 DEF OneEach
<1>3. CASE same # {}
  <2>1. MergedInto(done, ts, better) = r
    <3>1. MergedInto(done, ts, better) = [done EXCEPT ![i] = Absorb(@, ts, better)]
      BY <1>3 DEF MergedInto
    <3>2. QED BY <3>1
  <2>2. i \in same /\ i \in 1 .. n
    <3>1. same \in SUBSET (1 .. n)
      BY <1>1
    <3>2. i \in same
      <4> HIDE DEF same
      <4>1. QED BY <1>1, <1>3, <3>1, LeastOf
    <3>3. QED BY <3>1, <3>2
  <2>3. done[i].stored = ts.stored
    BY <2>2
  <2> HIDE DEF i, same
  <2>4. done[i] \in Good(t)
    BY <1>1, <2>2, MemberType
  <2>5. /\ new \in Good(t) /\ new.stored = done[i].stored
        /\ \A x \in Int : InSome(done[i].time_patchs, x) \/ InSome(ts.time_patchs, x)
                            => InSome(new.time_patchs, x)
    BY <2>3, <2>4, Absorbing
  <2> HIDE DEF new
  <2>6. /\ r \in Seq(Good(t)) /\ Len(r) = n /\ r[i] = new
        /\ \A j \in 1 .. n : j # i => r[j] = done[j]
    BY <1>1, <2>2, <2>5
  <2> HIDE DEF r
  <2>7. \A j \in 1 .. n : r[j].stored = done[j].stored
    BY <2>5, <2>6
  <2>8. StoredApart(r)
    BY <1>1, <2>6, <2>7 DEF StoredApart
  <2>9. Keeps(done, r)
    <3> SUFFICES ASSUME NEW x \in Int, NEW j \in 1 .. n, InSome(done[j].time_patchs, x)
                 PROVE  InSome(r[j].time_patchs, x)
      BY <2>6 DEF Keeps, HasTime
    <3>1. QED BY <2>5, <2>6
  <2>10. \A x \in Int : InSome(ts.time_patchs, x) => HasTime(r, x)
    BY <2>2, <2>5, <2>6 DEF HasTime
  <2>11. QED BY <2>1, <2>6, <2>8, <2>9, <2>10 DEF OneEach
<1>4. QED BY <1>2, <1>3

\* f is what merge makes of q, sequence by sequence.
MergesAlong(f, q, better) ==
    f[0] = <<>> /\ \A i \in 1 .. Len(q) : f[i] = MergedInto(f[i - 1], q[i], better)

\* The loop goes by turns.
LEMMA MergeSteps ==
  ASSUME NEW t \in Int, NEW q \in Seq(Good(t)), NEW better
  PROVE  \E f \in [0 .. Len(q) -> OneEach(t)] : Merged(q, better) = f[Len(q)] /\ MergesAlong(f, q, better)
<1> DEFINE n == Len(q)
           T == OneEach(t)
           Eq(f) == f = [i \in 0 .. n |-> IF i = 0 THEN <<>> ELSE MergedInto(f[i - 1], q[i], better)]
           k == CHOOSE f : Eq(f)
           G == [i \in 1 .. n |-> [x \in T |-> MergedInto(x, q[i], better)]]
<1>1. Merged(q, better) = k[n]
  BY DEF Merged
<1>2. n \in Nat /\ <<>> \in T /\ \A x \in T, i \in 1 .. n : MergedInto(x, q[i], better) \in T
  <2>1. n \in Nat
    OBVIOUS
  <2>2. \A i \in 1 .. n : q[i] \in Good(t)
    BY MemberType
  <2> HIDE DEF n
  <2>3. <<>> \in T
    BY DEF OneEach, StoredApart
  <2>4. \A x \in T, i \in 1 .. n : MergedInto(x, q[i], better) \in T
    BY <2>2, MergingInto
  <2>5. QED BY <2>1, <2>3, <2>4
<1> HIDE DEF T
<1>3. G \in [1 .. n -> [T -> T]] /\ \A x \in T, i \in 1 .. n : G[i][x] = MergedInto(x, q[i], better)
  BY <1>2
<1> HIDE DEF G, n
<1>4. PICK f \in [0 .. n -> T] : Iterates(f, n, <<>>, G)
  BY <1>2, <1>3, Iteration
<1>5. Eq(f)
  <2>1. f = [i \in 0 .. n |-> IF i = 0 THEN <<>> ELSE G[i][f[i - 1]]]
    BY <1>4 DEF Iterates
  <2>2. \A i \in 0 .. n : i # 0 => i \in 1 .. n /\ f[i - 1] \in T
    BY <1>2
  <2>3. QED BY <1>3, <2>1, <2>2
<1>6. Eq(k)
  BY <1>5
<1> HIDE DEF k
<1>7. k[0] = <<>> /\ \A i \in 1 .. n : k[i] = MergedInto(k[i - 1], q[i], better)
  BY <1>2, <1>6
<1>8. k = [i \in 0 .. n |-> k[i]]
  BY <1>6
<1>9. \A i \in 1 .. n : k[i - 1] \in T => k[i] \in T
  BY <1>2, <1>7
<1>10. k \in [0 .. n -> T]
  BY <1>2, <1>7, <1>8, <1>9, StaysIn
<1>11. QED BY <1>1, <1>7, <1>10 DEF MergesAlong, n, T

\* merge as a whole leaves one sequence for each face, with all the times there were.
LEMMA MergedAll ==
  ASSUME NEW t \in Int, NEW q \in Seq(Good(t)), NEW better
  PROVE  Merged(q, better) \in OneEach(t) /\ Keeps(q, Merged(q, better))
<1> DEFINE n == Len(q)
<1>1. PICK f \in [0 .. n -> OneEach(t)] : Merged(q, better) = f[n] /\ MergesAlong(f, q, better)
  BY MergeSteps
<1>2. n \in Nat /\ \A i \in 1 .. n : q[i] \in Good(t)
  BY MemberType
<1> DEFINE AllKept(m) == \A x \in Int : \A i \in 1 .. m : InSome(q[i].time_patchs, x) => HasTime(f[m], x)
           S == {m \in 0 .. n : AllKept(m)}
<1>3. 0 \in S
  BY <1>2
<1>4. ASSUME NEW m \in 1 .. n, m - 1 \in S PROVE m \in S
  <2>1. AllKept(m - 1) /\ m \in 0 .. n /\ m - 1 \in 0 .. n
    BY <1>2, <1>4
  <2>2. f[m] = MergedInto(f[m - 1], q[m], better) /\ f[m - 1] \in OneEach(t) /\ q[m] \in Good(t)
    BY <1>1, <1>2, <2>1 DEF MergesAlong
  <2>3. Keeps(f[m - 1], f[m]) /\ \A x \in Int : InSome(q[m].time_patchs, x) => HasTime(f[m], x)
    BY <2>2, MergingInto
  <2>4. \A i \in 1 .. m : i = m \/ i \in 1 .. m - 1
    BY <1>2
  <2>5. AllKept(m)
    BY <2>1, <2>3, <2>4 DEF Keeps
  <2>6. QED BY <2>1, <2>5
<1> HIDE DEF S
<1>5. 0 .. n \subseteq S
  BY <1>2, <1>3, <1>4, UpTo
<1>6. AllKept(n)
  BY <1>2, <1>5 DEF S
<1>7. Keeps(q, f[n])
  BY <1>6 DEF Keeps, HasTime
<1>8. QED BY <1>1, <1>2, <1>7

-----------------------------------------------------------------------------
(* The invariant *)

\* The sequences that can be left at the end: short patches are gone, and what is left is
\* apart all the same.
Finished(t) == {ts \in TrackType : FarApart(ts.time_patchs, Gap) /\ EndsBy(ts.time_patchs, t)}

\* Queue, times and history belong together, in every phase.
TrackInv ==
    /\ pc \in {"tracking", "merged", "done", "raised"} /\ now \in Nat /\ id_number \in Int
    /\ \A s \in seen : s[2] \in Int
    /\ pc \in {"tracking", "merged"} => queue \in Seq(Good(now)) /\ \A s \in seen : HasTime(queue, s[2])
    /\ pc = "done" => queue \in Seq(Finished(now))
    /\ pc \in {"merged", "done"} => StoredApart(queue)

\* It holds in the beginning.
LEMMA TrackInit == Init => TrackInv
<1> SUFFICES ASSUME Init PROVE TrackInv
  OBVIOUS
<1>1. pc = "tracking" /\ now = 0 /\ queue = <<>> /\ id_number = -1 /\ seen = {}
  BY DEF Init
<1>2. queue \in Seq(Good(now))
  BY <1>1
<1>3. QED BY <1>1, <1>2 DEF TrackInv

\* It holds after a frame, whether it raised or not.
LEMMA PredictKeeps ==
  ASSUME TrackInv, NEW hs \in Seq(Humans), NEW elapsed \in FrameTimes, NEW better,
         predict(hs, elapsed, better)
  PROVE  TrackInv'
<1> DEFINE t == now + elapsed
           s == Pushed(hs, t, better)
           aged == [i \in DOMAIN s.queue |-> check_state(s.queue[i], elapsed)]
           fresh == {<<h.face, t>> : h \in {g \in Range(hs) : g.face # NoFace}}
<1>1. /\ pc = "tracking" /\ now' = t /\ id_number' = s.id /\ seen' = seen \union fresh
      /\ pc' = (IF s.ok THEN "tracking" ELSE "raised") /\ (s.ok => queue' = aged)
  BY DEF predict
<1>2. now \in Nat /\ elapsed \in Nat /\ id_number \in Int /\ queue \in Seq(Good(now))
      /\ \A x \in seen : x[2] \in Int /\ HasTime(queue, x[2])
  BY <1>1, GapNat DEF TrackInv
<1>3. t \in Nat /\ now <= t
  BY <1>2
<1> HIDE DEF t
<1>4. queue \in Seq(Good(t))
  <2>1. Good(now) \subseteq Good(t)
    BY <1>2, <1>3, GoodLater
  <2>2. QED BY <1>2, <2>1
<1>5. /\ s \in States(t)
      /\ s.ok => /\ Keeps(queue, s.queue)
                 /\ \A i \in 1 .. Len(hs) : hs[i].face # NoFace => HasTime(s.queue, t)
  BY <1>2, <1>3, <1>4, PushedAll
<1> HIDE DEF s
<1>6. s.queue \in Seq(Good(t)) /\ s.id \in Int /\ s.ok \in BOOLEAN
  BY <1>5 DEF States
<1>7. /\ aged \in Seq(Good(t))
      /\ \A x \in Int : HasTime(s.queue, x) => HasTime(aged, x)
  <2> DEFINE q == s.queue
             n == Len(q)
  <2>1. n \in Nat /\ DOMAIN q = 1 .. n /\ \A i \in 1 .. n : q[i] \in Good(t)
    BY <1>6, MemberType
  <2>2. \A i \in 1 .. n : /\ check_state(q[i], elapsed) \in Good(t)
                          /\ check_state(q[i], elapsed).time_patchs = q[i].time_patchs
    <3>1. t \in Int /\ elapsed \in Int
      BY <1>2, <1>3
    <3> HIDE DEF q, n
    <3>2. QED BY <2>1, <3>1, Ageing
  <2>3. aged = [i \in 1 .. n |-> check_state(q[i], elapsed)]
    BY <2>1
  <2> HIDE DEF aged, q, n
  <2>4. aged \in Seq(Good(t)) /\ Len(aged) = n /\ \A i \in 1 .. n : aged[i] = check_state(q[i], elapsed)
    BY <2>1, <2>2, <2>3
  <2>5. \A x \in Int : HasTime(q, x) => HasTime(aged, x)
    BY <2>2, <2>4 DEF HasTime, n
  <2>6. QED BY <2>4, <2>5 DEF q
<1> HIDE DEF aged
<1>8. \A x \in fresh : x[2] = t /\ \E i \in 1 .. Len(hs) : hs[i].face # NoFace
  <2>1. \A g \in Range(hs) : \E i \in 1 .. Len(hs) : g = hs[i]
    BY DEF Range
  <2>2. QED BY <2>1
<1> HIDE DEF fresh
<1>9. \A x \in seen' : x[2] \in Int
  BY <1>1, <1>2, <1>3, <1>8
<1>10. s.ok => \A x \in seen' : HasTime(aged, x[2])
  <2> SUFFICES ASSUME s.ok, NEW x \in seen' PROVE HasTime(aged, x[2])
    OBVIOUS
  <2>1. CASE x \in seen
    BY <1>2, <1>5, <1>7, <2>1 DEF Keeps
  <2>2. CASE x \in fresh
    BY <1>3, <1>5, <1>7, <1>8, <2>2
  <2>3. QED BY <1>1, <2>1, <2>2
<1>11. CASE s.ok
  <2>1. pc' = "tracking" /\ queue' = aged /\ now' = t /\ id_number' = s.id
    BY <1>1, <1>11
  <2>2. (queue \in Seq(Good(now)))'
    BY <1>7, <2>1 DEF Good
  <2>3. (\A x \in seen : HasTime(queue, x[2]))'
    BY <1>10, <1>11, <2>1 DEF HasTime
  <2>4. QED BY <1>3, <1>6, <1>9, <2>1, <2>2, <2>3 DEF TrackInv
<1>12. CASE ~s.ok
  <2>1. pc' = "raised" /\ now' = t /\ id_number' = s.id
    BY <1>1, <1>12
  <2>2. QED BY <1>3, <1>6, <1>9, <2>1 DEF TrackInv
<1>13. QED BY <1>6, <1>11, <1>12

\* It holds after merge.
LEMMA MergeKeeps == TrackInv /\ merge => TrackInv'
<1> SUFFICES ASSUME TrackInv, merge PROVE TrackInv'
  OBVIOUS
<1>1. PICK better \in BOOLEAN : queue' = Merged(queue, better)
  BY DEF merge
<1>2. /\ pc = "tracking" /\ pc' = "merged" /\ now' = now /\ id_number' = id_number /\ seen' = seen
  BY DEF merge
<1>3. /\ now \in Nat /\ id_number \in Int /\ queue \in Seq(Good(now))
      /\ \A s \in seen : s[2] \in Int /\ HasTime(queue, s[2])
  BY <1>2 DEF TrackInv
<1> DEFINE r == Merged(queue, better)
<1>4. r \in OneEach(now) /\ Keeps(queue, r)
  BY <1>3, MergedAll
<1> HIDE DEF r
<1>5. r \in Seq(Good(now)) /\ StoredApart(r)
  BY <1>4 DEF OneEach
<1>6. queue' = r
  BY <1>1 DEF r
<1>7. (queue \in Seq(Good(now)))' /\ StoredApart(queue)'
  BY <1>2, <1>5, <1>6 DEF Good, StoredApart
<1>8. (\A s \in seen : HasTime(queue, s[2]))'
  BY <1>2, <1>3, <1>4, <1>6 DEF Keeps, HasTime
<1>9. QED BY <1>2, <1>3, <1>7, <1>8 DEF TrackInv

\* filter_burr keeps a sequence apart.
LEMMA Filtering ==
  ASSUME NEW t \in Int, NEW ts \in Good(t), NEW new,
         new = [ts EXCEPT !.time_patchs = filter_time_path(ts.time_patchs, MinTime)]
  PROVE  new \in Finished(t) /\ new.stored = ts.stored
<1> DEFINE ps == ts.time_patchs
           S == {p \in Range(ps) : ~is_burr(p, MinTime)}
           qs == Select(ps, S)
<1>1. ts \in TrackType /\ ps \in Seq(PatchType) /\ Apart(ps, Gap) /\ EndsBy(ps, t)
  BY DEF Good, TrackType
<1>2. filter_time_path(ps, MinTime) = qs
  BY DEF filter_time_path
<1> HIDE DEF ps, S
<1>3. FarApart(qs, Gap)
  <2>1. FarApart(ps, Gap)
    BY <1>1, GapNat, FarFollows
  <2>2. QED BY <1>1, <2>1, GapNat, FarSelected
<1>4. qs \in Seq(PatchType)
  <2>1. qs \in Seq(PatchType \cap S)
    BY <1>1, SelectType
  <2>2. QED BY <2>1
<1>5. EndsBy(qs, t)
  <2> SUFFICES ASSUME NEW n \in 1 .. Len(qs) PROVE qs[n].end_time <= t
    BY DEF EndsBy
  <2>1. Has(qs, qs[n])
    BY DEF Has
  <2>2. Has(ps, qs[n])
    BY <1>1, <2>1, SelectMembers
  <2>3. QED BY <1>1, <2>2 DEF Has, EndsBy
<1> HIDE DEF qs
<1>6. new \in TrackType /\ new.time_patchs = qs /\ new.stored = ts.stored
  <2>1. new = [ts EXCEPT !.time_patchs = qs]
    BY <1>2 DEF ps
  <2>2. QED BY <1>1, <1>4, <2>1 DEF TrackType
<1>7. QED BY <1>3, <1>5, <1>6 DEF Finished

\* It holds after filter.
LEMMA FilterKeeps == TrackInv /\ filter => TrackInv'
<1> SUFFICES ASSUME TrackInv, filter PROVE TrackInv'
  OBVIOUS
<1> DEFINE n == Len(queue)
           filtered == [i \in DOMAIN queue |->
                          [queue[i] EXCEPT !.time_patchs = filter_time_path(queue[i].time_patchs, MinTime)]]
           S == {ts \in Range(filtered) : ts.time_patchs # <<>> /\ ts.stored # NoFace}
           r == Select(filtered, S)
<1>1. /\ pc = "merged" /\ pc' = "done" /\ now' = now /\ id_number' = id_number /\ seen' = seen
      /\ queue' = r
  BY DEF filter
<1>2. /\ now \in Nat /\ id_number \in Int /\ queue \in Seq(Good(now)) /\ StoredApart(queue)
      /\ \A s \in seen : s[2] \in Int
  BY <1>1 DEF TrackInv
<1>3. n \in Nat /\ DOMAIN queue = 1 .. n /\ \A i \in 1 .. n : queue[i] \in Good(now)
  BY <1>2, MemberType
<1>4. \A i \in 1 .. n : filtered[i] \in Finished(now) /\ filtered[i].stored = queue[i].stored
  <2> SUFFICES ASSUME NEW i \in 1 .. n
               PROVE  filtered[i] \in Finished(now) /\ filtered[i].stored = queue[i].stored
    OBVIOUS
  <2>1. filtered[i] = [queue[i] EXCEPT !.time_patchs = filter_time_path(queue[i].time_patchs, MinTime)]
    BY <1>3
  <2> HIDE DEF filtered
  <2>2. QED BY <1>2, <1>3, <2>1, Filtering
<1>5. filtered \in Seq(Finished(now)) /\ Len(filtered) = n
  <2>1. filtered = [i \in 1 .. n |-> filtered[i]]
    BY <1>3
  <2> HIDE DEF filtered
  <2>2. QED BY <1>3, <1>4, <2>1
<1> HIDE DEF filtered, n
<1>6. StoredApart(filtered)
  BY <1>2, <1>4, <1>5 DEF StoredApart, n
<1>7. Distinct(filtered)
  BY <1>6 DEF StoredApart, Distinct
<1> HIDE DEF S
<1>8. Distinct(r)
  BY <1>5, <1>7, SelectDistinct
<1>9. r \in Seq(Finished(now))
  <2>1. r \in Seq(Finished(now) \cap S)
    BY <1>5, SelectType
  <2>2. QED BY <2>1
<1>10. \A i \in 1 .. Len(r) : Has(filtered, r[i])
  <2>1. \A i \in 1 .. Len(r) : Has(r, r[i])
    BY DEF Has
  <2>2. QED BY <1>5, <2>1, SelectMembers
<1> HIDE DEF r
<1>11. StoredApart(r)
  <2> SUFFICES ASSUME NEW i \in 1 .. Len(r), NEW j \in 1 .. Len(r), r[i].stored = r[j].stored
               PROVE  i = j
    BY DEF StoredApart
  <2>1. PICK a \in 1 .. Len(filtered) : filtered[a] = r[i]
    BY <1>10 DEF Has
  <2>2. PICK b \in 1 .. Len(filtered) : filtered[b] = r[j]
    BY <1>10 DEF Has
  <2>3. r[i] = r[j]
    BY <1>6, <2>1, <2>2 DEF StoredApart
  <2>4. QED BY <1>8, <2>3 DEF Distinct
<1>12. (queue \in Seq(Finished(now)))' /\ StoredApart(queue)'
  BY <1>1, <1>9, <1>11 DEF Finished, StoredApart
<1>13. QED BY <1>1, <1>2, <1>12 DEF TrackInv

\* Every step keeps it.
LEMMA TrackNext == TrackInv /\ [Next]_vars => TrackInv'
<1> SUFFICES ASSUME TrackInv, [Next]_vars PROVE TrackInv'
  OBVIOUS
<1>1. ASSUME NEW elapsed \in FrameTimes, NEW better \in BOOLEAN, NEW hs \in Seq(Humans),
             predict(hs, elapsed, better)
      PROVE  TrackInv'
  BY <1>1, PredictKeeps
<1>2. CASE \E elapsed \in FrameTimes, better \in BOOLEAN :
              \/ predict(<<>>, elapsed, better)
              \/ \E h \in Humans : predict(<<h>>, elapsed, better)
              \/ \E h, g \in Humans : predict(<<h, g>>, elapsed, better)
  <2>1. <<>> \in Seq(Humans) /\ \A h, g \in Humans : <<h>> \in Seq(Humans) /\ <<h, g>> \in Seq(Humans)
    OBVIOUS
  <2>2. QED BY <1>1, <1>2, <2>1
<1>3. CASE UNCHANGED vars
  BY <1>3 DEF vars, TrackInv, Good, Finished, StoredApart, HasTime
<1>4. QED BY <1>2, <1>3, MergeKeeps, FilterKeeps DEF Next

\* So it holds always.
LEMMA Tracked == Spec => []TrackInv
<1>1. Init => TrackInv
  BY TrackInit
<1>2. TrackInv /\ [Next]_vars => TrackInv'
  BY TrackNext
<1>3. QED BY <1>1, <1>2, PTL DEF Spec

-----------------------------------------------------------------------------
(* The properties *)

\* The patches of a sequence follow each other, with more than the gap between them, and end
\* by now: for any number of frames, humans and sequences.
THEOREM TimesStayApart == Spec => []PatchesApart
<1>1. TrackInv => PatchesApart
  <2> SUFFICES ASSUME TrackInv, pc \in {"tracking", "merged", "done"}, NEW i \in DOMAIN queue
               PROVE  LET ps == queue[i].time_patchs
                      IN  /\ \A n \in DOMAIN ps : ps[n].start_time <= ps[n].end_time /\ ps[n].end_time <= now
                          /\ \A n \in 2 .. Len(ps) : ps[n].start_time - ps[n - 1].end_time > Gap
    BY DEF PatchesApart
  <2> DEFINE ps == queue[i].time_patchs
  <2>1. ps \in Seq(PatchType) /\ Apart(ps, Gap) /\ EndsBy(ps, now)
    <3>1. CASE pc \in {"tracking", "merged"}
      <4>1. queue \in Seq(Good(now))
        BY <3>1 DEF TrackInv
      <4>2. queue[i] \in Good(now)
        BY <4>1
      <4>3. QED BY <4>2 DEF Good, TrackType
    <3>2. CASE pc = "done"
      <4>1. queue \in Seq(Finished(now))
        BY <3>2 DEF TrackInv
      <4>2. queue[i] \in Finished(now)
        BY <4>1
      <4>3. ps \in Seq(PatchType) /\ FarApart(ps, Gap) /\ EndsBy(ps, now)
        BY <4>2 DEF Finished, TrackType
      <4> HIDE DEF ps
      <4>4. \A n \in 1 .. Len(ps) - 1 : n \in 1 .. Len(ps) /\ n + 1 \in 1 .. Len(ps) /\ n < n + 1
        BY <4>3
      <4>5. QED BY <4>3, <4>4 DEF FarApart, Apart
    <3>3. QED BY <3>1, <3>2
  <2> HIDE DEF ps
  <2>2. DOMAIN ps = 1 .. Len(ps) /\ \A n \in 2 .. Len(ps) : n - 1 \in 1 .. Len(ps) - 1 /\ n - 1 + 1 = n
    BY <2>1
  <2>3. \A n \in DOMAIN ps : ps[n].start_time <= ps[n].end_time /\ ps[n].end_time <= now
    BY <2>1, <2>2 DEF Apart, Ordered, EndsBy
  <2>4. \A n \in 2 .. Len(ps) : ps[n].start_time - ps[n - 1].end_time > Gap
    <3>1. \A n \in 1 .. Len(ps) - 1 : ps[n + 1].start_time - ps[n].end_time > Gap
      BY <2>1 DEF Apart
    <3>2. QED BY <2>2, <3>1
  <2>5. QED BY <2>3, <2>4 DEF ps
<1>2. QED BY <1>1, Tracked, PTL

\* After merge no two sequences have the same face, however many there were.
THEOREM OneSequenceEach == Spec => []MergedDistinct
<1>1. TrackInv => MergedDistinct
  <2> SUFFICES ASSUME TrackInv, pc \in {"merged", "done"}
               PROVE  \A i, j \in DOMAIN queue : queue[i].stored = queue[j].stored => i = j
    BY DEF MergedDistinct
  <2>1. DOMAIN queue = 1 .. Len(queue)
    <3>1. queue \in Seq(Good(now)) \/ queue \in Seq(Finished(now))
      BY DEF TrackInv
    <3>2. QED BY <3>1
  <2>2. QED BY <2>1 DEF TrackInv, StoredApart
<1>2. QED BY <1>1, Tracked, PTL

\* Every time a face was seen stays in a sequence until short patches are dropped, through
\* matching, reordering, revival and merge.
THEOREM FacesKept == Spec => []NoFaceLost
<1>1. TrackInv => NoFaceLost
  <2> SUFFICES ASSUME TrackInv, pc \in {"tracking", "merged"}, NEW s \in seen PROVE Covered(queue, s[2])
    BY DEF NoFaceLost
  <2>1. queue \in Seq(Good(now)) /\ HasTime(queue, s[2])
    BY DEF TrackInv
  <2>2. PICK i \in 1 .. Len(queue) : InSome(queue[i].time_patchs, s[2])
    BY <2>1 DEF HasTime
  <2>3. queue[i] \in Good(now) /\ DOMAIN queue = 1 .. Len(queue)
    BY <2>1, MemberType
  <2> DEFINE ps == queue[i].time_patchs
  <2>4. ps \in Seq(PatchType)
    BY <2>3 DEF Good, TrackType
  <2> HIDE DEF ps
  <2>5. DOMAIN ps = 1 .. Len(ps)
    BY <2>4
  <2>6. PICK n \in 1 .. Len(ps) : is_in(ps[n], s[2])
    BY <2>2 DEF InSome, ps
  <2>7. QED BY <2>3, <2>5, <2>6 DEF Covered, ps
<1>2. QED BY <1>1, Tracked, PTL

-----------------------------------------------------------------------------
(* The inputs of a report *)

\* The roles of the task.
TaskRoles == Roles(participants)

\* The inputs are what ReportInit lets them be.
Inputs ==
    /\ results \in UNION {[1 .. n -> PatchLists] : n \in 0 .. MaxTracks}
    /\ participants \in Participants
    /\ similarity \in [DOMAIN results -> [TaskRoles -> Similarities]]
    /\ cfg \in Configs
    /\ video_duration \in Durations

\* The sequences are numbered, and none has a role's name.
LEMMA Tracks ==
  ASSUME Inputs
  PROVE  /\ Len(results) \in Nat /\ DOMAIN results = 1 .. Len(results)
         /\ \A t \in 1 .. Len(results) : results[t] \in PatchLists /\ t # NoTrack
         /\ TaskRoles \cap (1 .. Len(results)) = {}
         /\ tracking_sequences \subseteq 1 .. Len(results)
         /\ \A role : relation(role) \subseteq tracking_sequences
<1>1. PICK n \in 0 .. MaxTracks : results \in [1 .. n -> PatchLists]
  BY DEF Inputs
<1>2. MaxTracks \in Nat /\ TaskRoles \cap (1 .. MaxTracks) = {}
  BY PersonReportAssumption DEF Inputs, TaskRoles
<1>3. n \in Nat /\ n <= MaxTracks /\ DOMAIN results = 1 .. n /\ Len(results) = n
      /\ \A t \in 1 .. n : results[t] \in PatchLists
  BY <1>1, <1>2
<1>4. 1 .. n \subseteq 1 .. MaxTracks
  BY <1>2, <1>3
<1>5. \A t \in 1 .. n : t # NoTrack
  BY <1>3 DEF NoTrack
<1>6. tracking_sequences \subseteq 1 .. n
  BY <1>3 DEF tracking_sequences
<1>7. \A role : relation(role) \subseteq tracking_sequences
  BY DEF relation
<1>8. QED BY <1>2, <1>3, <1>4, <1>5, <1>6, <1>7

\* Each role stands once in the list of roles.
LEMMA EachRoleOnce ==
  ASSUME Inputs
  PROVE  /\ participant_sequences \in Seq(TaskRoles) /\ Distinct(participant_sequences)
         /\ \A role : Has(participant_sequences, role) <=> role \in TaskRoles
<1> DEFINE n == Len(participants)
           ids == [i \in DOMAIN participants |-> i]
           F == {i \in DOMAIN participants : \A j \in DOMAIN participants :
                   participants[j].role = participants[i].role => i <= j}
           firsts == Select(ids, F)
           ps == [k \in DOMAIN firsts |-> participants[firsts[k]].role]
<1>1. n \in Nat /\ DOMAIN participants = 1 .. n
  <2>1. participants \in Seq(Range(participants))
    BY PersonReportAssumption DEF Inputs
  <2>2. QED BY <2>1
<1>2. ids \in Seq(1 .. n) /\ Len(ids) = n /\ Distinct(ids) /\ \A i : Has(ids, i) <=> i \in 1 .. n
  BY <1>1 DEF Distinct, Has
<1>3. participant_sequences = ps
  BY DEF participant_sequences
<1>4. TaskRoles = {participants[i].role : i \in 1 .. n}
  BY <1>1 DEF TaskRoles, Roles
<1>5. \A i : i \in F <=> /\ i \in 1 .. n
                       /\ \A j \in 1 .. n : participants[j].role = participants[i].role => i <= j
  BY <1>1
<1> HIDE DEF ids, F, n
<1>6. firsts \in Seq(1 .. n) /\ Distinct(firsts) /\ \A i : Has(firsts, i) <=> i \in F
  <2>1. firsts \in Seq((1 .. n) \cap F)
    BY <1>2, SelectType
  <2>2. firsts \in Seq(1 .. n)
    <3> DEFINE D == 1 .. n
    <3> HIDE DEF D, firsts
    <3>1. firsts \in Seq(D \cap F)
      BY <2>1 DEF D
    <3>2. firsts \in Seq(D)
      BY <3>1
    <3>3. QED BY <3>2 DEF D
  <2>3. Distinct(firsts)
    BY <1>2, SelectDistinct
  <2>4. \A i : Has(firsts, i) <=> i \in F
    BY <1>2, <1>5, SelectMembers
  <2>5. QED BY <2>2, <2>3, <2>4
<1> HIDE DEF firsts
<1>7. /\ DOMAIN firsts = 1 .. Len(firsts) /\ Len(firsts) \in Nat
      /\ \A k \in 1 .. Len(firsts) : firsts[k] \in 1 .. n
  <2>1. firsts \in Seq(1 .. n)
    BY <1>6
  <2>2. \A k \in 1 .. Len(firsts) : firsts[k] \in 1 .. n
    BY <2>1, MemberType
  <2>3. DOMAIN firsts = 1 .. Len(firsts) /\ Len(firsts) \in Nat
    BY <2>1
  <2>4. QED BY <2>2, <2>3
<1>8. ps \in Seq(TaskRoles) /\ Len(ps) = Len(firsts)
      /\ \A k \in 1 .. Len(firsts) : ps[k] = participants[firsts[k]].role
  BY <1>4, <1>7
<1> HIDE DEF ps
<1>9. Distinct(ps)
  <2> SUFFICES ASSUME NEW k \in 1 .. Len(firsts), NEW l \in 1 .. Len(firsts), ps[k] = ps[l] PROVE k = l
    BY <1>8 DEF Distinct
  <2>1. firsts[k] \in F /\ firsts[l] \in F
    BY <1>6 DEF Has
  <2>2. firsts[k] <= firsts[l] /\ firsts[l] <= firsts[k]
    BY <1>5, <1>8, <2>1
  <2>3. firsts[k] \in Int /\ firsts[l] \in Int
    BY <1>7
  <2>4. firsts[k] = firsts[l]
    BY <2>2, <2>3
  <2>5. QED BY <1>6, <2>4 DEF Distinct
<1>10. ASSUME NEW role PROVE Has(ps, role) <=> role \in TaskRoles
  <2>1. ASSUME Has(ps, role) PROVE role \in TaskRoles
    BY <1>8, <2>1 DEF Has
  <2>2. ASSUME role \in TaskRoles PROVE Has(ps, role)
    <3> DEFINE S == {i \in 1 .. n : participants[i].role = role}
    <3>1. S # {} /\ S \in SUBSET (1 .. n)
      BY <1>4, <2>2
    <3>2. PICK i \in S : \A j \in S : i <= j
      BY <1>1, <3>1, LeastNumber
    <3>3. i \in F
      BY <1>5, <3>2
    <3>4. PICK k \in 1 .. Len(firsts) : firsts[k] = i
      BY <1>6, <3>3 DEF Has
    <3>5. ps[k] = role
      BY <1>8, <3>2, <3>4
    <3>6. QED BY <1>8, <3>5 DEF Has
  <2>3. QED BY <2>1, <2>2
<1>11. QED BY <1>3, <1>8, <1>9, <1>10

-----------------------------------------------------------------------------
(* Who is taken for whom *)

\* f is what the loop over the sequences makes of the roles.
MeetsAlong(f) ==
    /\ f[0] = <<>>
    /\ \A t \in 1 .. Len(results) : f[t] = f[t - 1] \o Select(participant_sequences, FirstMet(t))

\* The loop goes by turns.
LEMMA MeetSteps ==
  ASSUME Inputs
  PROVE  \E f \in [0 .. Len(results) -> Seq(TaskRoles)] : RolesMet = f[Len(results)] /\ MeetsAlong(f)
<1> DEFINE n == Len(results)
           T == Seq(TaskRoles)
           step(x, t) == x \o Select(participant_sequences, FirstMet(t))
           Eq(f) == f = [t \in 0 .. n |-> IF t = 0 THEN <<>> ELSE step(f[t - 1], t)]
           k == CHOOSE f : Eq(f)
           G == [t \in 1 .. n |-> [x \in T |-> step(x, t)]]
<1>1. RolesMet = k[n]
  BY DEF RolesMet
<1>2. n \in Nat /\ <<>> \in T /\ \A x \in T, t \in 1 .. n : step(x, t) \in T
  <2>1. n \in Nat
    BY Tracks
  <2>2. ASSUME NEW t PROVE Select(participant_sequences, FirstMet(t)) \in Seq(TaskRoles)
    <3>1. Select(participant_sequences, FirstMet(t)) \in Seq(TaskRoles \cap FirstMet(t))
      BY EachRoleOnce, SelectType
    <3>2. QED BY <3>1
  <2>3. QED BY <2>1, <2>2
<1> HIDE DEF T, step
<1>3. G \in [1 .. n -> [T -> T]] /\ \A x \in T, t \in 1 .. n : G[t][x] = step(x, t)
  BY <1>2
<1> HIDE DEF G, n
<1>4. PICK f \in [0 .. n -> T] : Iterates(f, n, <<>>, G)
  BY <1>2, <1>3, Iteration
<1>5. Eq(f)
  <2>1. f = [t \in 0 .. n |-> IF t = 0 THEN <<>> ELSE G[t][f[t - 1]]]
    BY <1>4 DEF Iterates
  <2>2. \A t \in 0 .. n : t # 0 => t \in 1 .. n /\ f[t - 1] \in T
    BY <1>2
  <2>3. QED BY <1>3, <2>1, <2>2
<1>6. Eq(k)
  BY <1>5
<1> HIDE DEF k
<1>7. k[0] = <<>> /\ \A t \in 1 .. n : k[t] = step(k[t - 1], t)
  BY <1>2, <1>6
<1>8. k = [t \in 0 .. n |-> k[t]]
  BY <1>6
<1>9. \A t \in 1 .. n : k[t - 1] \in T => k[t] \in T
  BY <1>2, <1>7
<1>10. k \in [0 .. n -> T]
  BY <1>2, <1>7, <1>8, <1>9, StaysIn
<1>11. QED BY <1>1, <1>7, <1>10 DEF MeetsAlong, n, step, T

\* The roles that some sequence is like are met, each of them once.
LEMMA RolesMetOnce ==
  ASSUME Inputs
  PROVE  /\ RolesMet \in Seq(TaskRoles) /\ Distinct(RolesMet)
         /\ \A role : Has(RolesMet, role) <=> role \in TaskRoles /\ relation(role) # {}
<1> DEFINE n == Len(results)
           new(t) == Select(participant_sequences, FirstMet(t))
<1>1. n \in Nat /\ \A role : relation(role) \in SUBSET (1 .. n)
  BY Tracks
<1>2. PICK f \in [0 .. n -> Seq(TaskRoles)] : RolesMet = f[n] /\ MeetsAlong(f)
  BY MeetSteps
<1>3. ASSUME NEW t
      PROVE  /\ new(t) \in Seq(TaskRoles) /\ Distinct(new(t))
             /\ \A role : Has(new(t), role) <=> role \in FirstMet(t)
  <2>1. participant_sequences \in Seq(TaskRoles) /\ Distinct(participant_sequences)
        /\ \A role : Has(participant_sequences, role) <=> role \in TaskRoles
    BY EachRoleOnce
  <2>2. new(t) \in Seq(TaskRoles \cap FirstMet(t)) /\ Distinct(new(t))
    BY <2>1, SelectType, SelectDistinct
  <2>3. \A role : Has(new(t), role) <=> role \in FirstMet(t) /\ role \in TaskRoles
    BY <2>1, SelectMembers
  <2>4. FirstMet(t) \subseteq TaskRoles
    BY DEF FirstMet, TaskRoles
  <2> HIDE DEF new
  <2>5. QED BY <2>2, <2>3, <2>4
<1>4. f[0] = <<>> /\ \A t \in 1 .. n : f[t] = f[t - 1] \o new(t)
  BY <1>2 DEF MeetsAlong
<1> HIDE DEF n, new
<1> DEFINE Met(i) == /\ Distinct(f[i])
                     /\ \A role : Has(f[i], role) <=> \E t \in 1 .. i : role \in FirstMet(t)
           S == {i \in 0 .. n : Met(i)}
<1>5. 0 \in S
  <2>1. Met(0)
    BY <1>4 DEF Distinct, Has
  <2>2. QED BY <1>1, <2>1
<1>6. ASSUME NEW i \in 1 .. n, i - 1 \in S PROVE i \in S
  <2>1. Met(i - 1) /\ i \in 0 .. n /\ f[i - 1] \in Seq(TaskRoles) /\ f[i] = f[i - 1] \o new(i)
    <3>1. i - 1 \in 0 .. n /\ i \in 0 .. n
      BY <1>1
    <3>2. Met(i - 1)
      BY <1>6
    <3> HIDE DEF Met
    <3>3. f[i - 1] \in Seq(TaskRoles) /\ f[i] = f[i - 1] \o new(i)
      BY <1>4, <3>1
    <3>4. QED BY <3>1, <3>2, <3>3
  <2>2. \A role : Has(f[i], role) <=> Has(f[i - 1], role) \/ role \in FirstMet(i)
    BY <1>3, <2>1, HasConcat
  <2>3. \A t : t \in 1 .. i <=> t \in 1 .. i - 1 \/ t = i
    BY <1>1
  <2>4. \A role : Has(f[i], role) <=> \E t \in 1 .. i : role \in FirstMet(t)
    BY <2>1, <2>2, <2>3
  <2>5. \A role : ~(Has(f[i - 1], role) /\ Has(new(i), role))
    <3> SUFFICES ASSUME NEW role, Has(f[i - 1], role), role \in FirstMet(i) PROVE FALSE
      BY <1>3
    <3>1. PICK t \in 1 .. i - 1 : role \in FirstMet(t)
      BY <2>1
    <3>2. t <= i /\ i <= t
      BY <3>1 DEF FirstMet
    <3>3. QED BY <1>1, <3>1, <3>2
  <2>6. Distinct(f[i])
    BY <1>3, <2>1, <2>5, DistinctConcat
  <2>7. QED BY <2>1, <2>4, <2>6
<1> HIDE DEF S
<1>7. 0 .. n \subseteq S
  BY <1>1, <1>5, <1>6, UpTo
<1>8. Met(n) /\ f[n] \in Seq(TaskRoles)
  BY <1>1, <1>2, <1>7 DEF S
<1>9. ASSUME NEW role
      PROVE (\E t \in 1 .. n : role \in FirstMet(t)) <=> role \in TaskRoles /\ relation(role) # {}
  <2>1. ASSUME role \in TaskRoles, relation(role) # {} PROVE \E t \in 1 .. n : role \in FirstMet(t)
    <3>1. PICK t \in relation(role) : \A u \in relation(role) : t <= u
      BY <1>1, <2>1, LeastNumber
    <3>2. QED BY <1>1, <2>1, <3>1 DEF FirstMet, TaskRoles
  <2>2. QED BY <2>1 DEF FirstMet, TaskRoles
<1>10. QED BY <1>2, <1>8, <1>9

\* Of some sequences there is one most like a role.
LEMMA MostAlikeOne ==
  ASSUME Inputs, NEW role \in TaskRoles, NEW ts \in SUBSET (1 .. Len(results)), ts # {}
  PROVE  MostAlike(role, ts) \in ts
<1> DEFINE n == Len(results)
           D == 1 .. n
           f == [t \in D |-> IF t \in ts THEN similarity[t][role] ELSE -1]
<1>1. n \in Nat \ {0} /\ DOMAIN results = D /\ ts \subseteq D
  <2>1. n \in Nat /\ DOMAIN results = D /\ ts \subseteq D
    BY Tracks
  <2> HIDE DEF n
  <2>2. PICK t \in ts : TRUE
    OBVIOUS
  <2>3. t \in 1 .. n
    BY <2>1
  <2>4. QED BY <2>1, <2>3
<1>2. \A t \in D : similarity[t][role] \in Nat
  <2>1. Similarities \subseteq Nat
    BY PersonReportAssumption
  <2>2. \A t \in D : similarity[t] \in [TaskRoles -> Similarities]
    BY <1>1 DEF Inputs
  <2>3. QED BY <2>1, <2>2
<1>3. f \in [1 .. n -> Int]
  BY <1>2
<1>4. PICK m \in D : \A t \in D : f[t] <= f[m]
  BY <1>1, <1>3, Greatest
<1>5. \A t \in ts : f[t] = similarity[t][role] /\ similarity[t][role] \in Nat
  BY <1>1, <1>2
<1>6. \A t \in D : t \notin ts => f[t] = -1
  OBVIOUS
<1> HIDE DEF f
<1>7. m \in ts
  <2>0. PICK t \in ts : TRUE
    OBVIOUS
  <2>1. f[t] >= 0 /\ f[t] \in Int
    BY <1>5
  <2>2. f[t] <= f[m]
    BY <1>1, <1>4, <2>1
  <2>3. QED BY <1>3, <1>6, <2>1, <2>2
<1> DEFINE best == {t \in ts : similarity[t][role] = similarity[m][role]}
<1>8. best # {} /\ best \in SUBSET (1 .. n)
  BY <1>1, <1>7
<1>9. PICK t \in best : \A u \in best : t <= u
  BY <1>1, <1>8, LeastNumber
<1>10. \A u \in ts : \/ similarity[t][role] > similarity[u][role]
                     \/ (similarity[t][role] = similarity[u][role] /\ t <= u)
  <2> SUFFICES ASSUME NEW u \in ts, similarity[u][role] # similarity[m][role]
               PROVE  similarity[m][role] > similarity[u][role]
    BY <1>9
  <2>1. similarity[u][role] <= similarity[m][role]
    BY <1>1, <1>4, <1>5, <1>7
  <2>2. QED BY <1>5, <1>7, <2>1
<1>11. \E t0 \in ts : \A u \in ts : \/ similarity[t0][role] > similarity[u][role]
                                    \/ (similarity[t0][role] = similarity[u][role] /\ t0 <= u)
  BY <1>9, <1>10
<1>12. QED BY <1>11 DEF MostAlike

\* What the mapper may say of a role.
Entries == [identity: TaskRoles, track: {NoTrack} \union 1 .. Len(results)]

\* Somebody in the mapper has the sequence t.
Taken(x, t) == \E i \in 1 .. Len(x) : x[i].track = t

\* A role takes a sequence that is like it and that nobody has, if there is one.
LEMMA Assigning ==
  ASSUME Inputs, NEW x \in Seq(Entries), NEW role \in TaskRoles
  PROVE  \E e \in Entries :
           /\ Assigned(x, role) = Append(x, e) /\ e.identity = role
           /\ \/ e.track = NoTrack /\ \A t \in relation(role) : Taken(x, t)
              \/ e.track \in relation(role) /\ ~Taken(x, e.track)
<1> DEFINE occupied == {x[i].track : i \in DOMAIN x}
           left == relation(role) \ occupied
           e == [identity |-> role, track |-> IF left = {} THEN NoTrack ELSE MostAlike(role, left)]
<1>1. Assigned(x, role) = Append(x, e)
  BY DEF Assigned
<1>2. \A t : t \in occupied <=> Taken(x, t)
  <2>1. DOMAIN x = 1 .. Len(x)
    OBVIOUS
  <2>2. QED BY <2>1 DEF Taken
<1>3. left \in SUBSET (1 .. Len(results))
  BY Tracks
<1> HIDE DEF occupied
<1>4. CASE left = {}
  <2>1. e = [identity |-> role, track |-> NoTrack]
    BY <1>4
  <2>2. e \in Entries /\ e.identity = role /\ e.track = NoTrack
    BY <2>1 DEF Entries
  <2>3. \A t \in relation(role) : Taken(x, t)
    BY <1>2, <1>4
  <2> HIDE DEF e
  <2>4. QED BY <1>1, <2>2, <2>3
<1>5. CASE left # {}
  <2>1. MostAlike(role, left) \in left
    BY <1>3, <1>5, MostAlikeOne
  <2>2. e = [identity |-> role, track |-> MostAlike(role, left)]
    BY <1>5
  <2>3. e \in Entries /\ e.identity = role /\ e.track \in left
    BY <1>3, <2>1, <2>2 DEF Entries
  <2>4. e.track \in relation(role) /\ ~Taken(x, e.track)
    BY <1>2, <2>3
  <2> HIDE DEF e
  <2>5. QED BY <1>1, <2>3, <2>4
<1>6. QED BY <1>4, <1>5

\* f is what the loop over the roles makes of the mapper.
AssignsAlong(f) ==
    f[0] = <<>> /\ \A i \in 1 .. Len(RolesMet) : f[i] = Assigned(f[i - 1], RolesMet[i])

\* The loop goes by turns.
LEMMA AssignSteps ==
  ASSUME Inputs
  PROVE  \E f \in [0 .. Len(RolesMet) -> Seq(Entries)] :
           given_to_roles = f[Len(RolesMet)] /\ AssignsAlong(f)
<1> DEFINE met == RolesMet
           n == Len(met)
           T == Seq(Entries)
           Eq(f) == f = [i \in 0 .. n |-> IF i = 0 THEN <<>> ELSE Assigned(f[i - 1], met[i])]
           k == CHOOSE f : Eq(f)
           G == [i \in 1 .. n |-> [x \in T |-> Assigned(x, met[i])]]
<1>1. given_to_roles = k[n]
  BY DEF given_to_roles, GivenTo
<1>2. n \in Nat /\ <<>> \in T /\ \A x \in T, i \in 1 .. n : Assigned(x, met[i]) \in T
  <2>1. met \in Seq(TaskRoles)
    BY RolesMetOnce
  <2> HIDE DEF met
  <2>2. n \in Nat /\ <<>> \in T /\ \A i \in 1 .. n : met[i] \in TaskRoles
    BY <2>1, MemberType
  <2>3. ASSUME NEW x \in T, NEW i \in 1 .. n PROVE Assigned(x, met[i]) \in T
    <3>1. PICK e \in Entries : Assigned(x, met[i]) = Append(x, e)
      BY <2>2, Assigning
    <3>2. QED BY <3>1
  <2>4. QED BY <2>2, <2>3
<1> HIDE DEF met, T
<1>3. G \in [1 .. n -> [T -> T]] /\ \A x \in T, i \in 1 .. n : G[i][x] = Assigned(x, met[i])
  BY <1>2
<1> HIDE DEF G, n
<1>4. PICK f \in [0 .. n -> T] : Iterates(f, n, <<>>, G)
  BY <1>2, <1>3, Iteration
<1>5. Eq(f)
  <2>1. f = [i \in 0 .. n |-> IF i = 0 THEN <<>> ELSE G[i][f[i - 1]]]
    BY <1>4 DEF Iterates
  <2>2. \A i \in 0 .. n : i # 0 => i \in 1 .. n /\ f[i - 1] \in T
    BY <1>2
  <2>3. QED BY <1>3, <2>1, <2>2
<1>6. Eq(k)
  BY <1>5
<1> HIDE DEF k
<1>7. k[0] = <<>> /\ \A i \in 1 .. n : k[i] = Assigned(k[i - 1], met[i])
  BY <1>2, <1>6
<1>8. k = [i \in 0 .. n |-> k[i]]
  BY <1>6
<1>9. \A i \in 1 .. n : k[i - 1] \in T => k[i] \in T
  BY <1>2, <1>7
<1>10. k \in [0 .. n -> T]
  BY <1>2, <1>7, <1>8, <1>9, StaysIn
<1>11. QED BY <1>1, <1>7, <1>10 DEF AssignsAlong, n, met, T

\* What the mapper says after the first i roles: each of them has an entry, with a sequence
\* that is like the role or with none; no sequence is given twice; and of a role that got
\* none every sequence like it is taken.
GivenSoFar(x, i) ==
    /\ x \in Seq(Entries) /\ Len(x) = i /\ \A k \in 1 .. i : x[k].identity = RolesMet[k]
    /\ \A k \in 1 .. i : x[k].track = NoTrack \/ x[k].track \in relation(x[k].identity)
    /\ \A k, l \in 1 .. i : x[k].track = x[l].track /\ x[k].track # NoTrack => k = l
    /\ \A k \in 1 .. i : x[k].track = NoTrack => \A t \in relation(x[k].identity) : Taken(x, t)

\* One role more.
LEMMA GivenOneMore ==
  ASSUME Inputs, NEW i \in 1 .. Len(RolesMet), NEW x, GivenSoFar(x, i - 1)
  PROVE  GivenSoFar(Assigned(x, RolesMet[i]), i)
<1> DEFINE role == RolesMet[i]
<1>1. role \in TaskRoles /\ i \in Nat /\ i >= 1
  <2>1. RolesMet \in Seq(TaskRoles)
    BY RolesMetOnce
  <2>2. QED BY <2>1, MemberType
<1>2. x \in Seq(Entries) /\ Len(x) = i - 1
  BY DEF GivenSoFar
<1>3. PICK e \in Entries :
        /\ Assigned(x, role) = Append(x, e) /\ e.identity = role
        /\ \/ e.track = NoTrack /\ \A t \in relation(role) : Taken(x, t)
           \/ e.track \in relation(role) /\ ~Taken(x, e.track)
  BY <1>1, <1>2, Assigning
<1> DEFINE y == Append(x, e)
<1>4. y \in Seq(Entries) /\ Len(y) = i /\ y[i] = e /\ \A k \in 1 .. i - 1 : y[k] = x[k]
  BY <1>1, <1>2
<1> HIDE DEF y
<1>5. \A k \in 1 .. i : k \in 1 .. i - 1 \/ k = i
  BY <1>1
<1>6. /\ \A k \in 1 .. i - 1 : x[k].identity = RolesMet[k]
      /\ \A k \in 1 .. i - 1 : x[k].track = NoTrack \/ x[k].track \in relation(x[k].identity)
      /\ \A k, l \in 1 .. i - 1 : x[k].track = x[l].track /\ x[k].track # NoTrack => k = l
      /\ \A k \in 1 .. i - 1 : x[k].track = NoTrack => \A t \in relation(x[k].identity) : Taken(x, t)
  BY DEF GivenSoFar
<1>7. \A t : Taken(y, t) <=> Taken(x, t) \/ t = e.track
  BY <1>1, <1>2, <1>4, <1>5 DEF Taken
<1>8. \A k \in 1 .. i : y[k].identity = RolesMet[k]
  BY <1>3, <1>4, <1>5, <1>6
<1>9. \A k \in 1 .. i : y[k].track = NoTrack \/ y[k].track \in relation(y[k].identity)
  BY <1>3, <1>4, <1>5, <1>6
<1>10. ASSUME NEW k \in 1 .. i, NEW l \in 1 .. i, y[k].track = y[l].track, y[k].track # NoTrack
       PROVE  k = l
  <2>1. \A m \in 1 .. i - 1 : Taken(x, y[m].track)
    BY <1>2, <1>4 DEF Taken
  <2>2. CASE k = i /\ l # i
    BY <1>3, <1>4, <1>5, <1>10, <2>1, <2>2
  <2>3. CASE l = i /\ k # i
    BY <1>3, <1>4, <1>5, <1>10, <2>1, <2>3
  <2>4. CASE k # i /\ l # i
    BY <1>4, <1>5, <1>6, <1>10, <2>4
  <2>5. QED BY <2>2, <2>3, <2>4
<1>11. \A k \in 1 .. i : y[k].track = NoTrack => \A t \in relation(y[k].identity) : Taken(y, t)
  <2> SUFFICES ASSUME NEW k \in 1 .. i, y[k].track = NoTrack, NEW t \in relation(y[k].identity)
               PROVE  Taken(x, t)
    BY <1>7
  <2>1. CASE k = i
    <3>1. e.track = NoTrack /\ t \in relation(role)
      BY <1>3, <1>4, <2>1
    <3>2. NoTrack \notin relation(role)
      BY Tracks
    <3>3. QED BY <1>3, <3>1, <3>2
  <2>2. CASE k # i
    <3>1. k \in 1 .. i - 1 /\ x[k].track = NoTrack /\ t \in relation(x[k].identity)
      BY <1>4, <1>5, <2>2
    <3>2. QED BY <1>6, <3>1
  <2>3. QED BY <2>1, <2>2
<1>12. Assigned(x, RolesMet[i]) = y
  BY <1>3 DEF y
<1>13. QED BY <1>4, <1>8, <1>9, <1>10, <1>11, <1>12 DEF GivenSoFar

\* All roles.
LEMMA GivenAll ==
  ASSUME Inputs
  PROVE  GivenSoFar(given_to_roles, Len(RolesMet))
<1> DEFINE n == Len(RolesMet)
<1>1. n \in Nat
  <2>1. RolesMet \in Seq(TaskRoles)
    BY RolesMetOnce
  <2>2. QED BY <2>1
<1>2. PICK f \in [0 .. n -> Seq(Entries)] : given_to_roles = f[n] /\ AssignsAlong(f)
  BY AssignSteps
<1> DEFINE S == {i \in 0 .. n : GivenSoFar(f[i], i)}
<1>3. 0 \in S
  <2>1. GivenSoFar(<<>>, 0)
    BY DEF GivenSoFar
  <2>2. QED BY <1>1, <1>2, <2>1 DEF AssignsAlong
<1>4. ASSUME NEW i \in 1 .. n, i - 1 \in S PROVE i \in S
  <2>1. f[i] = Assigned(f[i - 1], RolesMet[i])
    BY <1>2 DEF AssignsAlong
  <2>2. GivenSoFar(f[i], i)
    BY <1>4, <2>1, GivenOneMore
  <2>3. QED BY <1>1, <2>2
<1> HIDE DEF S
<1>5. 0 .. n \subseteq S
  BY <1>1, <1>3, <1>4, UpTo
<1>6. GivenSoFar(f[n], n)
  BY <1>1, <1>5 DEF S
<1>7. QED BY <1>2, <1>6

\* The sequences nobody took, each once.
Own == LeftOf(given_to_roles)

LEMMA OwnOnes ==
  ASSUME Inputs
  PROVE  /\ Own \in Seq(1 .. Len(results)) /\ Distinct(Own)
         /\ \A t : Has(Own, t) <=> t \in tracking_sequences /\ ~Taken(given_to_roles, t)
<1> DEFINE n == Len(results)
           D == 1 .. n
           ids == [t \in DOMAIN results |-> t]
           left == tracking_sequences \ {given_to_roles[i].track : i \in DOMAIN given_to_roles}
<1>1. n \in Nat /\ DOMAIN results = D /\ tracking_sequences \subseteq D
  BY Tracks
<1>2. ids \in Seq(D) /\ Distinct(ids) /\ \A t : Has(ids, t) <=> t \in D
  BY <1>1 DEF Distinct, Has
<1>3. \A t : t \in left <=> t \in tracking_sequences /\ ~Taken(given_to_roles, t)
  <2>1. given_to_roles \in Seq(Entries)
    BY GivenAll DEF GivenSoFar
  <2>2. DOMAIN given_to_roles = 1 .. Len(given_to_roles)
    BY <2>1
  <2>3. QED BY <2>2 DEF Taken
<1>4. Own = Select(ids, left)
  BY DEF Own, LeftOf
<1> HIDE DEF ids, left, D
<1>5. Own \in Seq(D) /\ Distinct(Own)
  <2>1. Select(ids, left) \in Seq(D \cap left) /\ Distinct(Select(ids, left))
    BY <1>2, SelectType, SelectDistinct
  <2>2. Select(ids, left) \in Seq(D)
    BY <2>1
  <2>3. QED BY <1>4, <2>1, <2>2
<1>6. \A t : Has(Own, t) <=> t \in left /\ t \in D
  BY <1>2, <1>4, SelectMembers
<1>7. QED BY <1>1, <1>3, <1>5, <1>6 DEF D

\* What the mapper is.
LEMMA Mapping ==
  ASSUME Inputs
  PROVE  LET m == Len(given_to_roles)
             M == identity_mapper
         IN  /\ AList(M) /\ m \in Nat /\ m <= Len(M)
             /\ \A i \in 1 .. m : M[i] = given_to_roles[i]
             /\ \A i \in 1 .. Len(M) : i > m =>
                  /\ i - m \in 1 .. Len(Own)
                  /\ M[i] = [identity |-> Own[i - m], track |-> Own[i - m]]
             /\ \A j \in 1 .. Len(Own) : m + j \in 1 .. Len(M)
<1> DEFINE g == given_to_roles
           m == Len(g)
           n == Len(Own)
           own == [i \in DOMAIN Own |-> [identity |-> Own[i], track |-> Own[i]]]
           E == Entries \union {[identity |-> t, track |-> t] : t \in 1 .. Len(results)}
           M == g \o own
<1>1. g \in Seq(Entries) /\ Own \in Seq(1 .. Len(results))
  BY GivenAll, OwnOnes DEF GivenSoFar
<1>2. identity_mapper = M
  BY DEF identity_mapper, WithTheRest, Themselves, Own
<1> HIDE DEF g
<1>3. DOMAIN Own = 1 .. n /\ n \in Nat /\ \A i \in 1 .. n : Own[i] \in 1 .. Len(results)
  <2>1. \A i \in 1 .. n : Own[i] \in 1 .. Len(results)
    BY <1>1, MemberType
  <2>2. QED BY <1>1, <2>1
<1>4. own \in Seq(E) /\ Len(own) = n /\ \A i \in 1 .. n : own[i] = [identity |-> Own[i], track |-> Own[i]]
  BY <1>3
<1>5. g \in Seq(E)
  BY <1>1
<1> HIDE DEF E, own
<1>6. /\ M \in Seq(E) /\ Len(M) = m + n /\ m \in Nat
      /\ \A i \in 1 .. m : M[i] = g[i]
      /\ \A i \in 1 .. m + n : i > m => i - m \in 1 .. n /\ M[i] = own[i - m]
  BY <1>3, <1>4, <1>5
<1> HIDE DEF M, n
<1>7. AList(M)
  BY <1>6, ListType
<1>8. m <= Len(M) /\ \A j \in 1 .. n : m + j \in 1 .. Len(M)
  BY <1>3, <1>6
<1>9. \A i \in 1 .. Len(M) : i > m =>
        i - m \in 1 .. n /\ M[i] = [identity |-> Own[i - m], track |-> Own[i - m]]
  BY <1>4, <1>6
<1> HIDE DEF m
<1>10. QED BY <1>2, <1>6, <1>7, <1>8, <1>9 DEF g, m, n

\* What a report may rely on: no sequence is missing or given twice; who is a role's has its
\* likeness; a role with nobody is like only those that other roles have; who is no role's
\* stands for itself; and a role that somebody is like has an entry.
WellMapped(M) ==
    /\ AList(M)
    /\ \A t \in tracking_sequences :
         \E i \in 1 .. Len(M) : M[i].track = t /\ \A j \in 1 .. Len(M) : M[j].track = t => j = i
    /\ \A k \in 1 .. Len(M) :
         \/ M[k].identity \in TaskRoles /\ M[k].track \in relation(M[k].identity)
         \/ /\ M[k].identity \in TaskRoles /\ M[k].track = NoTrack
            /\ \A t \in relation(M[k].identity) : \E l \in 1 .. Len(M) :
                 M[l].track = t /\ M[l].identity \in TaskRoles \ {M[k].identity}
         \/ M[k].identity = M[k].track /\ M[k].track \in tracking_sequences
    /\ \A role \in TaskRoles : relation(role) # {} => \E k \in 1 .. Len(M) : M[k].identity = role

LEMMA MapperGood ==
  ASSUME Inputs
  PROVE  WellMapped(identity_mapper)
<1> DEFINE M == identity_mapper
           g == given_to_roles
           m == Len(g)
<1>1. GivenSoFar(g, Len(RolesMet))
  BY GivenAll
<1>2. /\ g \in Seq(Entries) /\ m \in Nat /\ m = Len(RolesMet)
      /\ \A k \in 1 .. m : g[k].identity = RolesMet[k] /\ g[k].identity \in TaskRoles
      /\ \A k \in 1 .. m : g[k].track = NoTrack \/ g[k].track \in relation(g[k].identity)
      /\ \A k, l \in 1 .. m : g[k].track = g[l].track /\ g[k].track # NoTrack => k = l
      /\ \A k \in 1 .. m : g[k].track = NoTrack => \A t \in relation(g[k].identity) : Taken(g, t)
  <2>1. g \in Seq(Entries) /\ m = Len(RolesMet)
    BY <1>1 DEF GivenSoFar
  <2>2. \A k \in 1 .. m : g[k] \in Entries
    BY <2>1, MemberType
  <2>3. m \in Nat /\ \A k \in 1 .. m : g[k].identity \in TaskRoles
    BY <2>1, <2>2 DEF Entries
  <2>4. QED BY <1>1, <2>1, <2>3 DEF GivenSoFar
<1>3. RolesMet \in Seq(TaskRoles) /\ Distinct(RolesMet)
      /\ \A role : Has(RolesMet, role) <=> role \in TaskRoles /\ relation(role) # {}
  BY RolesMetOnce
<1>4. /\ AList(M) /\ m <= Len(M) /\ \A i \in 1 .. m : M[i] = g[i]
      /\ \A i \in 1 .. Len(M) : i > m =>
           i - m \in 1 .. Len(Own) /\ M[i] = [identity |-> Own[i - m], track |-> Own[i - m]]
      /\ \A j \in 1 .. Len(Own) : m + j \in 1 .. Len(M)
  BY Mapping
<1>5. /\ Own \in Seq(1 .. Len(results)) /\ Distinct(Own) /\ Len(Own) \in Nat
      /\ \A t : Has(Own, t) <=> t \in tracking_sequences /\ ~Taken(g, t)
  BY OwnOnes
<1>6. Len(M) \in Nat /\ \A t \in tracking_sequences : t # NoTrack
  <2>1. Len(M) \in Nat
    BY <1>4, ListDomain
  <2>2. QED BY <2>1, Tracks
<1>7. \A role : relation(role) \subseteq tracking_sequences
  BY Tracks
<1> HIDE DEF M, g, m
<1>8. \A i \in 1 .. Len(M) : i \in 1 .. m \/ i > m
  BY <1>2, <1>6
<1>9. \A i \in 1 .. m : i \in 1 .. Len(M)
  BY <1>2, <1>4, <1>6
<1>10. \A i \in 1 .. Len(M) : i > m =>
         M[i].identity = M[i].track /\ M[i].track \in tracking_sequences /\ ~Taken(g, M[i].track)
  <2> SUFFICES ASSUME NEW i \in 1 .. Len(M), i > m
               PROVE  M[i].identity = M[i].track /\ M[i].track \in tracking_sequences
                      /\ ~Taken(g, M[i].track)
    OBVIOUS
  <2>1. i - m \in 1 .. Len(Own) /\ M[i].identity = Own[i - m] /\ M[i].track = Own[i - m]
    <3>1. i - m \in 1 .. Len(Own) /\ M[i] = [identity |-> Own[i - m], track |-> Own[i - m]]
      BY <1>4
    <3>2. QED BY <3>1
  <2>2. Has(Own, Own[i - m])
    BY <2>1 DEF Has
  <2>3. QED BY <1>5, <2>1, <2>2
<1>11. ASSUME NEW t \in tracking_sequences
       PROVE  \E i \in 1 .. Len(M) : M[i].track = t /\ \A j \in 1 .. Len(M) : M[j].track = t => j = i
  <2>1. CASE Taken(g, t)
    <3>1. PICK i \in 1 .. m : g[i].track = t
      BY <2>1 DEF Taken, m
    <3>2. i \in 1 .. Len(M) /\ M[i].track = t
      BY <1>4, <1>9, <3>1
    <3>3. ASSUME NEW j \in 1 .. Len(M), M[j].track = t PROVE j = i
      <4>1. j \in 1 .. m
        BY <1>8, <1>10, <2>1, <3>3
      <4>2. g[j].track = t
        BY <1>4, <3>3, <4>1
      <4>3. QED BY <1>2, <1>6, <3>1, <4>1, <4>2
    <3>4. QED BY <3>2, <3>3
  <2>2. CASE ~Taken(g, t)
    <3>1. PICK j \in 1 .. Len(Own) : Own[j] = t
      BY <1>5, <2>2 DEF Has
    <3>2. m + j \in 1 .. Len(M) /\ m + j > m /\ (m + j) - m = j
      BY <1>2, <1>4, <1>5, <3>1
    <3>3. M[m + j].track = t
      <4>1. M[m + j] = [identity |-> Own[(m + j) - m], track |-> Own[(m + j) - m]]
        BY <1>4, <3>2
      <4>2. M[m + j] = [identity |-> t, track |-> t]
        BY <3>1, <3>2, <4>1
      <4>3. QED BY <4>2
    <3>4. ASSUME NEW i \in 1 .. Len(M), M[i].track = t PROVE i = m + j
      <4>1. ~(i \in 1 .. m)
        <5> SUFFICES ASSUME i \in 1 .. m PROVE FALSE
          OBVIOUS
        <5>1. g[i].track = t
          BY <1>4, <3>4
        <5>2. QED BY <2>2, <5>1 DEF Taken, m
      <4>2. i > m /\ i - m \in 1 .. Len(Own) /\ M[i] = [identity |-> Own[i - m], track |-> Own[i - m]]
        BY <1>4, <1>8, <4>1
      <4>3. Own[i - m] = t
        BY <3>4, <4>2
      <4>4. i - m = j
        BY <1>5, <3>1, <4>2, <4>3 DEF Distinct
      <4>5. QED BY <1>2, <1>6, <4>4
    <3>5. QED BY <3>2, <3>3, <3>4
  <2>3. QED BY <2>1, <2>2
<1>12. ASSUME NEW k \in 1 .. Len(M)
       PROVE  \/ M[k].identity \in TaskRoles /\ M[k].track \in relation(M[k].identity)
              \/ /\ M[k].identity \in TaskRoles /\ M[k].track = NoTrack
                 /\ \A t \in relation(M[k].identity) : \E l \in 1 .. Len(M) :
                      M[l].track = t /\ M[l].identity \in TaskRoles \ {M[k].identity}
              \/ M[k].identity = M[k].track /\ M[k].track \in tracking_sequences
  <2>1. CASE k > m
    BY <1>10, <2>1
  <2>2. CASE k \in 1 .. m /\ M[k].track # NoTrack
    BY <1>2, <1>4, <2>2
  <2>3. CASE k \in 1 .. m /\ M[k].track = NoTrack
    <3>1. M[k] = g[k] /\ g[k].identity \in TaskRoles /\ g[k].track = NoTrack
      BY <1>2, <1>4, <2>3
    <3>2. ASSUME NEW t \in relation(g[k].identity)
          PROVE  \E l \in 1 .. Len(M) : M[l].track = t /\ M[l].identity \in TaskRoles \ {g[k].identity}
      <4>1. PICK l \in 1 .. m : g[l].track = t
        BY <1>2, <2>3, <3>1 DEF Taken, m
      <4>2. l # k
        BY <1>6, <1>7, <3>1, <4>1
      <4>3. g[l].identity = RolesMet[l] /\ g[k].identity = RolesMet[k]
        BY <1>2, <2>3
      <4>4. g[l].identity # g[k].identity
        BY <1>2, <1>3, <2>3, <4>2, <4>3 DEF Distinct
      <4>5. M[l] = g[l] /\ l \in 1 .. Len(M) /\ g[l].identity \in TaskRoles
        BY <1>2, <1>4, <1>9
      <4>6. QED BY <4>1, <4>4, <4>5
    <3>3. QED BY <3>1, <3>2
  <2>4. QED BY <1>8, <2>1, <2>2, <2>3
<1>13. ASSUME NEW role \in TaskRoles, relation(role) # {} PROVE \E k \in 1 .. Len(M) : M[k].identity = role
  <2>1. PICK k \in 1 .. m : RolesMet[k] = role
    BY <1>2, <1>3, <1>13 DEF Has
  <2>2. QED BY <1>2, <1>4, <1>9, <2>1
<1>14. WellMapped(M)
  BY <1>4, <1>11, <1>12, <1>13 DEF WellMapped
<1>15. QED BY <1>14 DEF M

-----------------------------------------------------------------------------
(* The times between patches *)

\* Patches with times of a video.
Span == [start_time: Nat, end_time: Nat]

\* Patches that follow each other; one may start where another ends.
InARow(ps) ==
    /\ \A i \in 1 .. Len(ps) : ps[i].start_time <= ps[i].end_time
    /\ \A i \in 1 .. Len(ps) - 1 : ps[i].end_time <= ps[i + 1].start_time

\* Every patch takes some time.
Lasting(ps) == \A i \in 1 .. Len(ps) : ps[i].start_time < ps[i].end_time

\* What the loop of _get_reversed_time_patchs remembers.
Gaps == [from: Nat, gaps: Seq(Span)]

\* f is what that loop computes of ps.
ReversesAlong(f, ps) ==
    f[0] = [from |-> 0, gaps |-> <<>>] /\ \A i \in 1 .. Len(ps) : f[i] = GapBefore(f[i - 1], ps[i])

\* What is left over at the end.
Closed(g, duration) ==
    IF g.from < duration THEN Append(g.gaps, Patch(g.from, duration)) ELSE g.gaps

\* A turn gives what the next one needs.
LEMMA GapType ==
  ASSUME NEW g \in Gaps, NEW p \in Span
  PROVE  GapBefore(g, p) \in Gaps
<1>1. g.from \in Nat /\ g.gaps \in Seq(Span) /\ p.start_time \in Nat /\ p.end_time \in Nat
  BY DEF Gaps, Span
<1>2. Patch(g.from, p.start_time) \in Span
  BY <1>1 DEF Patch, Span
<1>3. (IF g.from # p.start_time THEN Append(g.gaps, Patch(g.from, p.start_time)) ELSE g.gaps) \in Seq(Span)
  BY <1>1, <1>2
<1>4. QED BY <1>1, <1>3 DEF GapBefore, Gaps

\* The loop goes by turns.
LEMMA ReverseSteps ==
  ASSUME NEW ps \in Seq(Span), NEW duration
  PROVE  \E f \in [0 .. Len(ps) -> Gaps] :
           get_reversed_time_patchs(ps, duration) = Closed(f[Len(ps)], duration) /\ ReversesAlong(f, ps)
<1> DEFINE n == Len(ps)
           a == [from |-> 0, gaps |-> <<>>]
           Eq(f) == f = [i \in 0 .. n |-> IF i = 0 THEN a ELSE GapBefore(f[i - 1], ps[i])]
           k == CHOOSE f : Eq(f)
           G == [i \in 1 .. n |-> [x \in Gaps |-> GapBefore(x, ps[i])]]
<1>1. get_reversed_time_patchs(ps, duration) = Closed(k[n], duration)
  BY DEF get_reversed_time_patchs, Closed
<1>2. n \in Nat /\ a \in Gaps /\ \A x \in Gaps, i \in 1 .. n : GapBefore(x, ps[i]) \in Gaps
  <2>1. n \in Nat /\ \A i \in 1 .. n : ps[i] \in Span
    BY MemberType
  <2>2. a \in Gaps
    BY DEF Gaps
  <2>3. QED BY <2>1, <2>2, GapType
<1> HIDE DEF a
<1>3. G \in [1 .. n -> [Gaps -> Gaps]] /\ \A x \in Gaps, i \in 1 .. n : G[i][x] = GapBefore(x, ps[i])
  BY <1>2
<1> HIDE DEF G, n
<1>4. PICK f \in [0 .. n -> Gaps] : Iterates(f, n, a, G)
  BY <1>2, <1>3, Iteration
<1>5. Eq(f)
  <2>1. f = [i \in 0 .. n |-> IF i = 0 THEN a ELSE G[i][f[i - 1]]]
    BY <1>4 DEF Iterates
  <2>2. \A i \in 0 .. n : i # 0 => i \in 1 .. n /\ f[i - 1] \in Gaps
    BY <1>2
  <2>3. QED BY <1>3, <2>1, <2>2
<1>6. Eq(k)
  BY <1>5
<1> HIDE DEF k
<1>7. k[0] = a /\ \A i \in 1 .. n : k[i] = GapBefore(k[i - 1], ps[i])
  BY <1>2, <1>6
<1>8. k = [i \in 0 .. n |-> k[i]]
  BY <1>6
<1>9. \A i \in 1 .. n : k[i - 1] \in Gaps => k[i] \in Gaps
  BY <1>2, <1>7
<1>10. k \in [0 .. n -> Gaps]
  BY <1>2, <1>7, <1>8, <1>9, StaysIn
<1>11. QED BY <1>1, <1>7, <1>10 DEF ReversesAlong, n, a

\* The unit of time that starts at c is in one of the patches.
UnitIn(ps, c) == \E i \in 1 .. Len(ps) : ps[i].start_time <= c /\ c + 1 <= ps[i].end_time

\* A patch more at the end.
LEMMA RowAppend ==
  ASSUME NEW ps \in Seq(Span), NEW p \in Span, InARow(ps), p.start_time <= p.end_time,
         ps # <<>> => ps[Len(ps)].end_time <= p.start_time
  PROVE  /\ Append(ps, p) \in Seq(Span) /\ InARow(Append(ps, p))
         /\ Append(ps, p) # <<>> /\ Append(ps, p)[Len(Append(ps, p))] = p
         /\ \A c : UnitIn(Append(ps, p), c)
                    <=> UnitIn(ps, c) \/ (p.start_time <= c /\ c + 1 <= p.end_time)
         /\ Lasting(ps) /\ p.start_time < p.end_time => Lasting(Append(ps, p))
<1> DEFINE k == Len(ps)
           qs == Append(ps, p)
<1>1. /\ k \in Nat /\ qs \in Seq(Span) /\ Len(qs) = k + 1 /\ qs[k + 1] = p
      /\ \A i \in 1 .. k : qs[i] = ps[i]
  OBVIOUS
<1>2. ps = <<>> <=> k = 0
  OBVIOUS
<1> HIDE DEF qs, k
<1>3. \A i \in 1 .. k + 1 : i \in 1 .. k \/ i = k + 1
  BY <1>1
<1>4. \A i \in 1 .. Len(qs) : qs[i].start_time <= qs[i].end_time
  BY <1>1, <1>3 DEF InARow, k
<1>5. \A i \in 1 .. Len(qs) - 1 : qs[i].end_time <= qs[i + 1].start_time
  <2> SUFFICES ASSUME NEW i \in 1 .. k PROVE qs[i].end_time <= qs[i + 1].start_time
    BY <1>1
  <2>1. CASE i = k
    BY <1>1, <1>2, <2>1 DEF k
  <2>2. CASE i # k
    <3>1. i \in 1 .. k - 1 /\ i + 1 \in 1 .. k
      BY <1>1, <2>2
    <3>2. QED BY <1>1, <3>1 DEF InARow, k
  <2>3. QED BY <2>1, <2>2
<1>6. \A c : UnitIn(qs, c) <=> UnitIn(ps, c) \/ (p.start_time <= c /\ c + 1 <= p.end_time)
  BY <1>1, <1>3 DEF UnitIn, k
<1>7. InARow(qs)
  BY <1>4, <1>5 DEF InARow
<1>8. qs # <<>> /\ qs[Len(qs)] = p
  BY <1>1
<1>9. Lasting(ps) /\ p.start_time < p.end_time => Lasting(qs)
  BY <1>1, <1>3 DEF Lasting, k
<1>10. QED BY <1>1, <1>6, <1>7, <1>8, <1>9 DEF qs

\* What the loop knows after i patches: all of them end by where it has come, and up to there
\* the gaps have just the time that the patches have not; no gap is empty.
ReversedSoFar(g, ps, i) ==
    /\ InARow(g.gaps) /\ Lasting(g.gaps)
    /\ g.gaps # <<>> => g.gaps[Len(g.gaps)].end_time <= g.from
    /\ g.from = IF i = 0 THEN 0 ELSE ps[i].end_time
    /\ \A j \in 1 .. i : ps[j].end_time <= g.from
    /\ \A c \in Nat : UnitIn(g.gaps, c) <=>
         c < g.from /\ ~(\E j \in 1 .. i : ps[j].start_time <= c /\ c + 1 <= ps[j].end_time)

\* One patch more.
LEMMA ReversedOneMore ==
  ASSUME NEW ps \in Seq(Span), InARow(ps), NEW i \in 1 .. Len(ps), NEW g \in Gaps,
         ReversedSoFar(g, ps, i - 1)
  PROVE  ReversedSoFar(GapBefore(g, ps[i]), ps, i)
<1> DEFINE p == ps[i]
           h == GapBefore(g, p)
           On(j, c) == ps[j].start_time <= c /\ c + 1 <= ps[j].end_time
<1>1. i \in Nat /\ i >= 1 /\ Len(ps) \in Nat /\ i <= Len(ps)
  OBVIOUS
<1>2. \A j \in 1 .. Len(ps) : ps[j].start_time \in Nat /\ ps[j].end_time \in Nat
                            /\ ps[j].start_time <= ps[j].end_time
  <2>1. \A j \in 1 .. Len(ps) : ps[j] \in Span
    BY MemberType
  <2>2. QED BY <2>1 DEF InARow, Span
<1>3. p \in Span /\ p.start_time \in Nat /\ p.end_time \in Nat /\ p.start_time <= p.end_time
  BY <1>1, <1>2, MemberType
<1>4. g.from \in Nat /\ g.gaps \in Seq(Span)
  BY DEF Gaps
<1>5. g.from <= p.start_time
  <2>1. CASE i = 1
    BY <1>3, <2>1 DEF ReversedSoFar
  <2>2. CASE i # 1
    <3>1. i - 1 \in 1 .. Len(ps) - 1 /\ (i - 1) + 1 = i /\ i - 1 # 0
      BY <1>1, <2>2
    <3>2. g.from = ps[i - 1].end_time
      BY <3>1 DEF ReversedSoFar
    <3>3. QED BY <3>1, <3>2 DEF InARow
  <2>3. QED BY <2>1, <2>2
<1>6. h.from = p.end_time
      /\ h.gaps = IF g.from # p.start_time THEN Append(g.gaps, Patch(g.from, p.start_time)) ELSE g.gaps
  BY DEF GapBefore
<1>7. /\ InARow(g.gaps) /\ Lasting(g.gaps) /\ (g.gaps # <<>> => g.gaps[Len(g.gaps)].end_time <= g.from)
      /\ \A j \in 1 .. i - 1 : ps[j].end_time <= g.from
      /\ \A c \in Nat : UnitIn(g.gaps, c) <=> c < g.from /\ ~(\E j \in 1 .. i - 1 : On(j, c))
  BY DEF ReversedSoFar
<1> HIDE DEF h
<1>8. /\ InARow(h.gaps) /\ Lasting(h.gaps)
      /\ h.gaps # <<>> => h.gaps[Len(h.gaps)].end_time <= p.start_time
      /\ \A c \in Nat : UnitIn(h.gaps, c) <=> UnitIn(g.gaps, c) \/ (g.from <= c /\ c < p.start_time)
  <2>1. CASE g.from = p.start_time
    <3>1. h.gaps = g.gaps
      BY <1>6, <2>1
    <3>2. \A c \in Nat : ~(g.from <= c /\ c < p.start_time)
      BY <1>3, <2>1
    <3>3. QED BY <1>7, <2>1, <3>1, <3>2
  <2>2. CASE g.from # p.start_time
    <3> DEFINE q == Patch(g.from, p.start_time)
    <3>1. q \in Span /\ q.start_time = g.from /\ q.end_time = p.start_time
      BY <1>3, <1>4 DEF Patch, Span
    <3>2. h.gaps = Append(g.gaps, q)
      BY <1>6, <2>2
    <3> HIDE DEF q
    <3>3. q.start_time < q.end_time
      BY <1>3, <1>4, <1>5, <2>2, <3>1
    <3>4. /\ InARow(h.gaps) /\ Lasting(h.gaps) /\ h.gaps[Len(h.gaps)] = q
          /\ \A c : UnitIn(h.gaps, c) <=> UnitIn(g.gaps, c) \/ (g.from <= c /\ c + 1 <= p.start_time)
      BY <1>4, <1>5, <1>7, <3>1, <3>2, <3>3, RowAppend
    <3>5. \A c \in Nat : c + 1 <= p.start_time <=> c < p.start_time
      BY <1>3
    <3>6. h.gaps[Len(h.gaps)].end_time <= p.start_time
      BY <1>3, <3>1, <3>4
    <3>7. QED BY <3>4, <3>5, <3>6
  <2>3. QED BY <2>1, <2>2
<1>9. \A j : j \in 1 .. i <=> j \in 1 .. i - 1 \/ j = i
  BY <1>1
<1>10. \A j \in 1 .. i : ps[j].end_time <= h.from
  <2> SUFFICES ASSUME NEW j \in 1 .. i - 1 PROVE ps[j].end_time <= p.end_time
    BY <1>3, <1>6, <1>9
  <2>1. j \in 1 .. Len(ps)
    BY <1>1
  <2>2. ps[j].end_time <= g.from /\ ps[j].end_time \in Nat
    BY <1>2, <1>7, <2>1
  <2>3. QED BY <1>3, <1>4, <1>5, <2>2
<1>11. ASSUME NEW c \in Nat PROVE UnitIn(h.gaps, c) <=> c < h.from /\ ~(\E j \in 1 .. i : On(j, c))
  <2>1. UnitIn(h.gaps, c) <=> UnitIn(g.gaps, c) \/ (g.from <= c /\ c < p.start_time)
    BY <1>8
  <2>2. UnitIn(g.gaps, c) <=> c < g.from /\ ~(\E j \in 1 .. i - 1 : On(j, c))
    BY <1>7
  <2>3. On(i, c) <=> p.start_time <= c /\ c < p.end_time
    BY <1>3
  <2>4. (\E j \in 1 .. i : On(j, c)) <=> (\E j \in 1 .. i - 1 : On(j, c)) \/ On(i, c)
    BY <1>9
  <2>5. (\E j \in 1 .. i - 1 : On(j, c)) => c < g.from
    <3> SUFFICES ASSUME NEW j \in 1 .. i - 1, On(j, c) PROVE c < g.from
      OBVIOUS
    <3>1. j \in 1 .. Len(ps)
      BY <1>1
    <3>2. ps[j].end_time <= g.from /\ ps[j].end_time \in Nat /\ c + 1 <= ps[j].end_time
      BY <1>2, <1>7, <3>1
    <3>3. QED BY <1>4, <3>2
  <2> HIDE DEF On
  <2>6. QED BY <1>3, <1>4, <1>5, <1>6, <2>1, <2>2, <2>3, <2>4, <2>5
<1>12. h.gaps # <<>> => h.gaps[Len(h.gaps)].end_time <= h.from
  <2> SUFFICES ASSUME h.gaps # <<>> PROVE h.gaps[Len(h.gaps)].end_time <= h.from
    OBVIOUS
  <2>1. h \in Gaps
    BY <1>3, GapType DEF h
  <2>2. h.gaps[Len(h.gaps)] \in Span
    BY <2>1, MemberType DEF Gaps
  <2>3. h.gaps[Len(h.gaps)].end_time \in Nat
    BY <2>2 DEF Span
  <2>4. QED BY <1>3, <1>6, <1>8, <2>3
<1>13. h.from = IF i = 0 THEN 0 ELSE ps[i].end_time
  BY <1>1, <1>6
<1>14. ReversedSoFar(h, ps, i)
  BY <1>8, <1>10, <1>11, <1>12, <1>13 DEF ReversedSoFar
<1>15. QED BY <1>14 DEF h

\* _get_reversed_time_patchs as a whole, for any list of patches that follow each other and any
\* length of the video: what comes out follows each other too, none of it is empty, and within
\* the video it has just the time the patches have not.
THEOREM ReversedExact ==
  ASSUME NEW ps \in Seq(Span), InARow(ps), NEW duration \in Nat
  PROVE  /\ get_reversed_time_patchs(ps, duration) \in Seq(Span)
         /\ InARow(get_reversed_time_patchs(ps, duration))
         /\ Lasting(get_reversed_time_patchs(ps, duration))
         /\ \A c \in Nat : c < duration =>
              (UnitIn(get_reversed_time_patchs(ps, duration), c) <=> ~UnitIn(ps, c))
<1> DEFINE n == Len(ps)
           rs == get_reversed_time_patchs(ps, duration)
<1>1. PICK f \in [0 .. n -> Gaps] : rs = Closed(f[n], duration) /\ ReversesAlong(f, ps)
  BY ReverseSteps
<1>2. n \in Nat
  OBVIOUS
<1> DEFINE S == {i \in 0 .. n : ReversedSoFar(f[i], ps, i)}
<1>3. 0 \in S
  <2>1. ReversedSoFar([from |-> 0, gaps |-> <<>>], ps, 0)
    BY DEF ReversedSoFar, InARow, Lasting, UnitIn
  <2>2. QED BY <1>1, <1>2, <2>1 DEF ReversesAlong
<1>4. ASSUME NEW i \in 1 .. n, i - 1 \in S PROVE i \in S
  <2>1. f[i] = GapBefore(f[i - 1], ps[i])
    BY <1>1 DEF ReversesAlong
  <2>2. f[i - 1] \in Gaps /\ ReversedSoFar(f[i - 1], ps, i - 1)
    BY <1>2, <1>4
  <2>3. ReversedSoFar(f[i], ps, i)
    BY <2>1, <2>2, ReversedOneMore
  <2>4. QED BY <1>2, <2>3
<1> HIDE DEF S
<1>5. 0 .. n \subseteq S
  BY <1>2, <1>3, <1>4, UpTo
<1> DEFINE g == f[n]
<1>6. ReversedSoFar(g, ps, n) /\ g \in Gaps
  BY <1>2, <1>5 DEF S
<1> HIDE DEF g, rs
<1>7. rs = Closed(g, duration)
  BY <1>1 DEF g
<1>8. /\ g.from \in Nat /\ g.gaps \in Seq(Span) /\ InARow(g.gaps) /\ Lasting(g.gaps)
      /\ g.gaps # <<>> => g.gaps[Len(g.gaps)].end_time <= g.from
      /\ \A c \in Nat : UnitIn(g.gaps, c) <=> c < g.from /\ ~UnitIn(ps, c)
  BY <1>6 DEF ReversedSoFar, Gaps, UnitIn
<1>9. \A c \in Nat : UnitIn(ps, c) => c < g.from
  <2> SUFFICES ASSUME NEW c \in Nat, NEW j \in 1 .. n, c + 1 <= ps[j].end_time PROVE c < g.from
    BY DEF UnitIn
  <2>1. ps[j].end_time <= g.from
    BY <1>6 DEF ReversedSoFar
  <2>2. ps[j] \in Span
    BY MemberType
  <2>3. ps[j].end_time \in Nat
    BY <2>2 DEF Span
  <2>4. QED BY <1>8, <2>1, <2>3
<1>10. CASE g.from < duration
  <2> DEFINE q == Patch(g.from, duration)
  <2>1. q \in Span /\ q.start_time = g.from /\ q.end_time = duration
    BY <1>8 DEF Patch, Span
  <2>2. rs = Append(g.gaps, q)
    BY <1>7, <1>10 DEF Closed
  <2> HIDE DEF q
  <2>3. q.start_time <= q.end_time /\ q.start_time < q.end_time
    BY <1>8, <1>10, <2>1
  <2>4. /\ rs \in Seq(Span) /\ InARow(rs) /\ Lasting(rs)
        /\ \A c : UnitIn(rs, c) <=> UnitIn(g.gaps, c) \/ (g.from <= c /\ c + 1 <= duration)
    BY <1>8, <2>1, <2>2, <2>3, RowAppend
  <2>5. ASSUME NEW c \in Nat, c < duration PROVE UnitIn(rs, c) <=> ~UnitIn(ps, c)
    <3>1. UnitIn(rs, c) <=> UnitIn(g.gaps, c) \/ (g.from <= c /\ c + 1 <= duration)
      BY <2>4
    <3>2. UnitIn(g.gaps, c) <=> c < g.from /\ ~UnitIn(ps, c)
      BY <1>8
    <3>3. UnitIn(ps, c) => c < g.from
      BY <1>9
    <3>4. QED BY <1>8, <2>5, <3>1, <3>2, <3>3
  <2>6. QED BY <2>4, <2>5 DEF rs
<1>11. CASE ~(g.from < duration)
  <2>1. rs = g.gaps
    BY <1>7, <1>11 DEF Closed
  <2>2. ASSUME NEW c \in Nat, c < duration PROVE UnitIn(rs, c) <=> ~UnitIn(ps, c)
    BY <1>8, <1>11, <2>1, <2>2
  <2>3. QED BY <1>8, <2>1, <2>2 DEF rs
<1>12. QED BY <1>10, <1>11

-----------------------------------------------------------------------------
(* The times of a person *)

\* What is kept of a sequence are patches that follow each other and last.
LEMMA KeptRow ==
  ASSUME Inputs, NEW t \in 1 .. Len(results)
  PROVE  /\ Kept(t) \in Seq(Span) /\ InARow(Kept(t))
         /\ \A i \in 1 .. Len(Kept(t)) : Kept(t)[i].start_time < Kept(t)[i].end_time
<1> DEFINE ps == results[t]
           S == {p \in Range(ps) : get_duration(p) > MinInterval}
           k == Kept(t)
<1>1. ps \in Seq(Span) /\ (\A i \in 1 .. Len(ps) : ps[i].start_time <= ps[i].end_time)
      /\ (\A i \in 2 .. Len(ps) : ps[i - 1].end_time < ps[i].start_time)
  <2>1. ps \in PatchLists
    BY Tracks
  <2>2. QED BY <2>1, PersonReportAssumption DEF Span
<1>2. MinInterval \in Nat
  <2>1. cfg.min_time_interval \in Nat /\ MsPerSecond \in Nat
    BY PersonReportAssumption DEF Inputs
  <2>2. \A a, b \in Nat : a * b \in Nat
    OBVIOUS
  <2>3. QED BY <2>1, <2>2 DEF MinInterval
<1> HIDE DEF ps
<1>3. ps \in Seq(PatchType) /\ FarApart(ps, 0)
  <2>1. Span \subseteq PatchType
    BY DEF Span, PatchType
  <2>2. ps \in Seq(PatchType)
    BY <1>1, <2>1
  <2>3. \A i \in 1 .. Len(ps) : ps[i].start_time \in Nat /\ ps[i].end_time \in Nat
    <3>1. \A i \in 1 .. Len(ps) : ps[i] \in Span
      BY <1>1, MemberType
    <3>2. QED BY <3>1 DEF Span
  <2>4. ASSUME NEW i \in 1 .. Len(ps) - 1 PROVE ps[i + 1].start_time - ps[i].end_time > 0
    <3>1. i + 1 \in 2 .. Len(ps) /\ (i + 1) - 1 = i /\ i \in 1 .. Len(ps) /\ i + 1 \in 1 .. Len(ps)
      BY <1>1
    <3>2. ps[i].end_time < ps[i + 1].start_time
      BY <1>1, <3>1
    <3>3. QED BY <2>3, <3>1, <3>2
  <2>5. Apart(ps, 0)
    BY <1>1, <2>4 DEF Apart, Ordered
  <2>6. QED BY <2>2, <2>5, FarFollows
<1>4. k = Select(ps, S)
  BY DEF Kept, ps
<1> HIDE DEF S, k
<1>5. k \in Seq(Span)
  <2>1. k \in Seq(Span \cap S)
    BY <1>1, <1>4, SelectType
  <2>2. QED BY <2>1
<1>6. FarApart(k, 0)
  BY <1>3, <1>4, FarSelected
<1>7. \A i \in 1 .. Len(k) : k[i].start_time \in Nat /\ k[i].end_time \in Nat
  <2>1. \A i \in 1 .. Len(k) : k[i] \in Span
    BY <1>5, MemberType
  <2>2. QED BY <2>1 DEF Span
<1>8. InARow(k)
  <2>1. \A i \in 1 .. Len(k) : k[i].start_time <= k[i].end_time
    BY <1>6 DEF FarApart, Ordered
  <2>2. ASSUME NEW i \in 1 .. Len(k) - 1 PROVE k[i].end_time <= k[i + 1].start_time
    <3>1. i \in 1 .. Len(k) /\ i + 1 \in 1 .. Len(k) /\ i < i + 1
      BY <1>5
    <3>2. k[i + 1].start_time - k[i].end_time > 0
      BY <1>6, <3>1 DEF FarApart
    <3>3. QED BY <1>7, <3>1, <3>2
  <2>3. QED BY <2>1, <2>2 DEF InARow
<1>9. ASSUME NEW i \in 1 .. Len(k) PROVE k[i].start_time < k[i].end_time
  <2>1. Has(k, k[i])
    BY DEF Has
  <2>2. k[i] \in S
    BY <1>1, <1>4, <2>1, SelectMembers
  <2>3. get_duration(k[i]) > MinInterval
    BY <2>2 DEF S
  <2>4. QED BY <1>2, <1>7, <2>3 DEF get_duration
<1>10. QED BY <1>5, <1>8, <1>9 DEF k

\* A person is reported for just the times of his sequence.
THEOREM StoredExact ==
  ASSUME Inputs, NEW t \in 1 .. Len(results)
  PROVE  /\ StoredTimes(t) \in Seq(Span) /\ video_duration \in Nat
         /\ \A c \in Nat : c < video_duration => (UnitIn(StoredTimes(t), c) <=> UnitIn(Kept(t), c))
<1> DEFINE lost == lost_time_patchs(t)
           back == get_reversed_time_patchs(lost, video_duration)
<1>1. video_duration \in Nat
  BY PersonReportAssumption DEF Inputs
<1>2. Kept(t) \in Seq(Span) /\ InARow(Kept(t))
  BY KeptRow
<1>3. /\ lost \in Seq(Span) /\ InARow(lost)
      /\ \A c \in Nat : c < video_duration => (UnitIn(lost, c) <=> ~UnitIn(Kept(t), c))
  BY <1>1, <1>2, ReversedExact DEF lost_time_patchs
<1>4. /\ back \in Seq(Span)
      /\ \A c \in Nat : c < video_duration => (UnitIn(back, c) <=> ~UnitIn(lost, c))
  BY <1>1, <1>3, ReversedExact
<1>5. StoredTimes(t) = IF lost = <<>> THEN <<Patch(0, video_duration)>> ELSE back
  BY DEF StoredTimes, times
<1> HIDE DEF lost, back
<1>6. CASE lost = <<>>
  <2> DEFINE p == Patch(0, video_duration)
             one == <<p>>
  <2>1. p \in Span /\ p.start_time = 0 /\ p.end_time = video_duration
    BY <1>1 DEF Patch, Span
  <2>2. StoredTimes(t) = one
    BY <1>5, <1>6
  <2> HIDE DEF p
  <2>3. one \in Seq(Span) /\ Len(one) = 1 /\ one[1] = p
    BY <2>1
  <2> HIDE DEF one
  <2>4. ASSUME NEW c \in Nat, c < video_duration PROVE UnitIn(one, c) /\ UnitIn(Kept(t), c)
    <3>1. one[1].start_time <= c /\ c + 1 <= one[1].end_time /\ 1 \in 1 .. Len(one)
      BY <1>1, <2>1, <2>3, <2>4
    <3>2. UnitIn(one, c)
      BY <3>1 DEF UnitIn
    <3>3. ~UnitIn(lost, c)
      BY <1>6 DEF UnitIn
    <3>4. QED BY <1>3, <2>4, <3>2, <3>3
  <2>5. QED BY <1>1, <2>2, <2>3, <2>4
<1>7. CASE lost # <<>>
  BY <1>1, <1>3, <1>4, <1>5, <1>7
<1>8. QED BY <1>6, <1>7

\* Who is taken for somebody is in the report, unless his sequence starts after the video.
LEMMA StoredSomething ==
  ASSUME Inputs, NEW t \in tracking_sequences, StoredTimes(t) = <<>>
  PROVE  video_duration <= Kept(t)[1].start_time
<1> DEFINE k == Kept(t)
           c == k[1].start_time
<1>1. t \in 1 .. Len(results) /\ k # <<>>
  <2>1. t \in 1 .. Len(results)
    BY Tracks
  <2>2. QED BY <2>1 DEF tracking_sequences
<1>2. k \in Seq(Span) /\ \A i \in 1 .. Len(k) : k[i].start_time < k[i].end_time
  BY <1>1, KeptRow
<1>3. video_duration \in Nat /\ \A d \in Nat : d < video_duration => (UnitIn(<<>>, d) <=> UnitIn(k, d))
  BY <1>1, StoredExact
<1> HIDE DEF k
<1>4. 1 \in 1 .. Len(k) /\ k[1] \in Span
  BY <1>1, <1>2
<1>5. c \in Nat /\ k[1].end_time \in Nat /\ c < k[1].end_time
  BY <1>2, <1>4 DEF Span
<1>6. UnitIn(k, c)
  BY <1>4, <1>5 DEF UnitIn
<1>7. ~UnitIn(<<>>, c)
  BY DEF UnitIn
<1>8. ~(c < video_duration)
  BY <1>3, <1>5, <1>6, <1>7
<1>9. QED BY <1>3, <1>5, <1>8 DEF k

-----------------------------------------------------------------------------
(* The points of time at which patches start and end *)

\* Starts and ends of patches.
PointType == [at: Nat, step: {1, -1}]

\* p comes before q among the points of time: by time, and ends first.
Earlier(p, q) == p.at < q.at \/ (p.at = q.at /\ p.step < q.step)

\* The starts stand first in the list of points, then the ends.
LEMMA PointsOf ==
  ASSUME NEW ps \in Seq(Span)
  PROVE  /\ Points(ps) \in Seq(PointType) /\ Len(Points(ps)) = Len(ps) + Len(ps) /\ Len(ps) \in Nat
         /\ \A i \in 1 .. Len(ps) :
              /\ Points(ps)[i].at = ps[i].start_time /\ Points(ps)[i].step = 1
              /\ Points(ps)[Len(ps) + i].at = ps[i].end_time /\ Points(ps)[Len(ps) + i].step = -1
<1> DEFINE n == Len(ps)
           a == [i \in DOMAIN ps |-> [at |-> ps[i].start_time, step |-> 1]]
           b == [i \in DOMAIN ps |-> [at |-> ps[i].end_time, step |-> -1]]
<1>1. Points(ps) = a \o b
  BY DEF Points
<1>2. DOMAIN ps = 1 .. n /\ n \in Nat
  OBVIOUS
<1>3. \A i \in 1 .. n : ps[i].start_time \in Nat /\ ps[i].end_time \in Nat
  <2>1. \A i \in 1 .. n : ps[i] \in Span
    BY MemberType
  <2>2. QED BY <2>1 DEF Span
<1>4. a \in Seq(PointType) /\ Len(a) = n
      /\ \A i \in 1 .. n : a[i].at = ps[i].start_time /\ a[i].step = 1
  <2>1. \A i \in 1 .. n : [at |-> ps[i].start_time, step |-> 1] \in PointType
    BY <1>3 DEF PointType
  <2>2. QED BY <1>2, <2>1
<1>5. b \in Seq(PointType) /\ Len(b) = n
      /\ \A i \in 1 .. n : b[i].at = ps[i].end_time /\ b[i].step = -1
  <2>1. \A i \in 1 .. n : [at |-> ps[i].end_time, step |-> -1] \in PointType
    BY <1>3 DEF PointType
  <2>2. QED BY <1>2, <2>1
<1> HIDE DEF a, b, n
<1>6. /\ a \o b \in Seq(PointType) /\ Len(a \o b) = n + n
      /\ \A i \in 1 .. n : (a \o b)[i] = a[i] /\ (a \o b)[n + i] = b[i]
  <2>1. a \o b \in Seq(PointType) /\ Len(a \o b) = n + n
    BY <1>2, <1>4, <1>5
  <2>2. ASSUME NEW i \in 1 .. n PROVE (a \o b)[i] = a[i]
    BY <1>2, <1>4, <1>5
  <2>3. ASSUME NEW i \in 1 .. n PROVE (a \o b)[n + i] = b[i]
    BY <1>2, <1>4, <1>5
  <2>4. QED BY <2>1, <2>2, <2>3
<1>7. QED BY <1>1, <1>2, <1>4, <1>5, <1>6 DEF n

\* Q is P in the order of time; at says where each member stood.
Arranged(Q, P, at) ==
    /\ Q \in Seq(PointType) /\ Len(Q) = Len(P)
    /\ at \in [1 .. Len(P) -> 1 .. Len(P)]
    /\ \A m \in 1 .. Len(P) : Q[m] = P[at[m]]
    /\ \A i \in 1 .. Len(P) : \E m \in 1 .. Len(P) : at[m] = i
    /\ \A m, l \in 1 .. Len(P) : at[m] = at[l] => m = l
    /\ \A m, l \in 1 .. Len(P) : m <= l => ~Earlier(Q[l], Q[m])

\* Sorting puts the points in the order of time, ends first, and neither loses nor adds one.
LEMMA SortedPoints ==
  ASSUME NEW ps \in Seq(Span)
  PROVE  \E at : Arranged(TimePoints(ps), Points(ps), at)
<1> DEFINE P == Points(ps)
           n == Len(P)
           D == 1 .. n
           before(i, j) == Earlier(P[i], P[j]) \/ (~Earlier(P[j], P[i]) /\ i <= j)
           below(i) == {j \in D : before(j, i)}
           place(m) == CHOOSE i \in D : Cardinality(below(i)) = m
           B == {x \in D \X D : before(x[1], x[2])}
<1>1. P \in Seq(PointType) /\ n \in Nat /\ DOMAIN P = D
  BY PointsOf
<1>2. TimePoints(ps) = [m \in D |-> P[place(m)]]
  <2>1. DOMAIN Points(ps) = D
    BY <1>1
  <2>2. QED BY <2>1 DEF TimePoints, SortedBy, Earlier
<1>3. \A i \in D : P[i].at \in Nat /\ P[i].step \in {1, -1} /\ P[i] \in PointType
  <2>1. \A i \in D : P[i] \in PointType
    BY <1>1, MemberType
  <2>2. QED BY <2>1 DEF PointType
<1> HIDE DEF P
<1>4. /\ \A i \in D : before(i, i)
      /\ \A i, j \in D : before(i, j) \/ before(j, i)
      /\ \A i, j \in D : before(i, j) /\ before(j, i) => i = j
      /\ \A i, j, k \in D : before(i, j) /\ before(j, k) => before(i, k)
      /\ \A i, j \in D : before(i, j) => ~Earlier(P[j], P[i])
  <2>1. \A i \in D : i \in Int /\ P[i].at \in Nat /\ P[i].step \in {1, -1}
    BY <1>1, <1>3
  <2> HIDE DEF D
  <2>2. \A i \in D : before(i, i)
    BY <2>1 DEF Earlier
  <2>3. \A i, j \in D : before(i, j) \/ before(j, i)
    BY <2>1 DEF Earlier
  <2>4. \A i, j \in D : before(i, j) /\ before(j, i) => i = j
    BY <2>1 DEF Earlier
  <2>5. \A i, j, k \in D : before(i, j) /\ before(j, k) => before(i, k)
    BY <2>1 DEF Earlier
  <2>6. \A i, j \in D : before(i, j) => ~Earlier(P[j], P[i])
    BY <2>1 DEF Earlier
  <2>7. QED BY <2>2, <2>3, <2>4, <2>5, <2>6
<1> HIDE DEF before
<1>5. \A i, j \in D : <<i, j>> \in B <=> before(i, j)
  OBVIOUS
<1>6. Orders(B, n)
  BY <1>4, <1>5 DEF Orders
<1>7. \A i \in D : RankOf(B, n, i) = Cardinality(below(i))
  <2> SUFFICES ASSUME NEW i \in D PROVE RankOf(B, n, i) = Cardinality(below(i))
    OBVIOUS
  <2>1. {j \in D : <<j, i>> \in B} = below(i)
    BY <1>5
  <2> HIDE DEF B, below
  <2>2. QED BY <2>1 DEF RankOf
<1> HIDE DEF B
<1>8. PICK at \in [D -> D] :
        /\ \A m \in D : at[m] = CHOOSE i \in D : RankOf(B, n, i) = m
        /\ \A i \in D : \E m \in D : at[m] = i
        /\ \A m, l \in D : at[m] = at[l] => m = l
        /\ \A m, l \in D : m <= l => <<at[m], at[l]>> \in B
  BY <1>1, <1>6, Ranking
<1> HIDE DEF below
<1>9. \A m \in D : at[m] = place(m)
  <2> SUFFICES ASSUME NEW m \in D PROVE at[m] = place(m)
    OBVIOUS
  <2>1. at[m] = CHOOSE i \in D : RankOf(B, n, i) = m
    BY <1>8
  <2>2. QED BY <1>7, <2>1
<1> HIDE DEF place
<1> DEFINE Q == [m \in D |-> P[at[m]]]
<1>10. TimePoints(ps) = Q
  BY <1>2, <1>9
<1>11. Q \in Seq(PointType) /\ Len(Q) = n /\ \A m \in D : Q[m] = P[at[m]]
  BY <1>1, <1>3, <1>8
<1> HIDE DEF Q
<1>12. \A m, l \in D : m <= l => ~Earlier(Q[l], Q[m])
  <2> SUFFICES ASSUME NEW m \in D, NEW l \in D, m <= l PROVE ~Earlier(Q[l], Q[m])
    OBVIOUS
  <2>1. before(at[m], at[l]) /\ at[m] \in D /\ at[l] \in D
    BY <1>5, <1>8
  <2>2. ~Earlier(P[at[l]], P[at[m]])
    BY <1>4, <2>1
  <2>3. QED BY <1>11, <2>2
<1>13. Arranged(Q, P, at)
  BY <1>8, <1>11, <1>12 DEF Arranged
<1>14. QED BY <1>10, <1>13 DEF P

-----------------------------------------------------------------------------
(* The units of time that merged intervals have *)

\* The patch p has the unit of time that starts at c.
UnitOf(p, c) == p.start_time <= c /\ c + 1 <= p.end_time

\* One turn of _merge_intervals keeps just the units there were, and no empty patch.
LEMMA AdjoinedUnits ==
  ASSUME NEW ps \in Seq(PatchType), NEW p \in PatchType,
         Lasting(ps), p.start_time < p.end_time, Follows(ps, p)
  PROVE  /\ Lasting(Adjoined(ps, p)) /\ Follows(Adjoined(ps, p), p)
         /\ \A c \in Int : UnitIn(Adjoined(ps, p), c) <=> UnitIn(ps, c) \/ UnitOf(p, c)
<1> DEFINE k == Len(ps)
           last == ps[k]
           top == IF p.end_time > last.end_time THEN p.end_time ELSE last.end_time
           qs == Adjoined(ps, p)
<1>1. p.start_time \in Int /\ p.end_time \in Int /\ k \in Nat
  BY DEF PatchType
<1>2. CASE ps = <<>> \/ last.end_time < p.start_time
  <2>1. qs = Append(ps, p)
    BY <1>2 DEF Adjoined
  <2>2. Len(qs) = k + 1 /\ qs[k + 1] = p /\ \A i \in 1 .. k : qs[i] = ps[i]
    BY <2>1
  <2>3. \A i \in 1 .. k + 1 : i \in 1 .. k \/ i = k + 1
    BY <1>1
  <2> HIDE DEF qs
  <2>4. Lasting(qs)
    BY <2>2, <2>3 DEF Lasting
  <2>5. Follows(qs, p)
    BY <1>1, <2>2 DEF Follows
  <2>6. ASSUME NEW c \in Int PROVE UnitIn(qs, c) <=> UnitIn(ps, c) \/ UnitOf(p, c)
    <3>1. (\E i \in 1 .. k + 1 : UnitOf(qs[i], c)) <=> (\E i \in 1 .. k : UnitOf(ps[i], c)) \/ UnitOf(p, c)
      BY <1>1, <2>2, <2>3
    <3>2. QED BY <2>2, <3>1 DEF UnitIn, UnitOf
  <2>7. QED BY <2>4, <2>5, <2>6 DEF qs
<1>3. CASE ~(ps = <<>> \/ last.end_time < p.start_time)
  <2>1. k >= 1 /\ last \in PatchType
    BY <1>3, MemberType
  <2>2. last.start_time \in Int /\ last.end_time \in Int /\ last.start_time <= p.start_time
        /\ last.start_time < last.end_time /\ p.start_time <= last.end_time
    <3>1. last.start_time \in Int /\ last.end_time \in Int
      BY <2>1 DEF PatchType
    <3>2. k \in 1 .. k
      BY <1>1, <2>1
    <3>3. QED BY <1>1, <1>3, <3>1, <3>2 DEF Follows, Lasting
  <2> DEFINE new == update_end_time(last, top)
  <2>3. new.start_time = last.start_time /\ new.end_time = top
    BY <2>1 DEF update_end_time, PatchType
  <2>4. qs = [ps EXCEPT ![k] = new]
    BY <1>3 DEF Adjoined
  <2> HIDE DEF new, last
  <2>5. Len(qs) = k /\ qs[k] = new /\ \A i \in 1 .. k : i # k => qs[i] = ps[i]
    BY <2>1, <2>4
  <2>6. top \in Int /\ last.start_time < top
        /\ \A c \in Int : UnitOf(new, c) <=> UnitOf(last, c) \/ UnitOf(p, c)
    <3>1. top \in Int /\ last.start_time < top
      BY <1>1, <2>2
    <3>2. QED BY <1>1, <2>2, <2>3, <3>1 DEF UnitOf
  <2> HIDE DEF qs, top
  <2>7. k \in 1 .. k /\ qs # <<>>
    BY <1>1, <2>1, <2>5
  <2>8. Lasting(qs)
    <3>1. ASSUME NEW i \in 1 .. k PROVE qs[i].start_time < qs[i].end_time
      BY <2>3, <2>5, <2>6 DEF Lasting
    <3>2. QED BY <2>5, <3>1 DEF Lasting
  <2>9. Follows(qs, p)
    BY <2>2, <2>3, <2>5 DEF Follows
  <2>10. ASSUME NEW c \in Int PROVE UnitIn(qs, c) <=> UnitIn(ps, c) \/ UnitOf(p, c)
    <3>1. UnitOf(qs[k], c) <=> UnitOf(ps[k], c) \/ UnitOf(p, c)
      BY <2>5, <2>6 DEF last
    <3>2. (\E i \in 1 .. k : UnitOf(qs[i], c)) <=> (\E i \in 1 .. k : UnitOf(ps[i], c)) \/ UnitOf(p, c)
      BY <2>5, <2>7, <3>1
    <3>3. QED BY <2>5, <3>2 DEF UnitIn, UnitOf
  <2>11. QED BY <2>8, <2>9, <2>10 DEF qs
<1>4. QED BY <1>2, <1>3

\* What the loop has after i patches: their units, and no empty patch.
UnitsSoFar(x, s, i) ==
    /\ Lasting(x)
    /\ IF i = 0 THEN x = <<>> ELSE Follows(x, s[i])
    /\ \A c \in Int : UnitIn(x, c) <=> \E j \in 1 .. i : UnitOf(s[j], c)

\* _merge_intervals as a whole, in units: those of the intervals, and no empty one.
LEMMA MergedUnits ==
  ASSUME NEW ps \in Seq(PatchType), Lasting(ps)
  PROVE  /\ merge_intervals(ps) \in Seq(PatchType) /\ Lasting(merge_intervals(ps))
         /\ \A c \in Int : UnitIn(merge_intervals(ps), c) <=> UnitIn(ps, c)
<1> DEFINE s == SortedByStart(ps)
           n == Len(s)
<1>1. /\ s \in Seq(PatchType) /\ \A i, j \in 1 .. n : i <= j => s[i].start_time <= s[j].start_time
      /\ \A p : Has(s, p) <=> Has(ps, p)
  BY SortedStarts
<1>2. PICK f \in [0 .. n -> Seq(PatchType)] : merge_intervals(ps) = f[n] /\ AdjoinsAlong(f, s)
  BY AdjoinSteps
<1> HIDE DEF s
<1>3. \A i \in 1 .. n : s[i].start_time < s[i].end_time
  BY <1>1 DEF Has, Lasting
<1>4. n \in Nat /\ \A i \in 1 .. n : s[i] \in PatchType
  BY <1>1, MemberType
<1>5. \A i \in 1 .. n : s[i].start_time \in Int
  BY <1>4 DEF PatchType
<1> DEFINE S == {i \in 0 .. n : UnitsSoFar(f[i], s, i)}
<1>6. 0 \in S
  <2>1. f[0] = <<>>
    BY <1>2 DEF AdjoinsAlong
  <2>2. QED BY <1>4, <2>1 DEF UnitsSoFar, UnitIn, Lasting
<1>7. ASSUME NEW i \in 1 .. n, i - 1 \in S PROVE i \in S
  <2>1. i \in 0 .. n /\ i - 1 \in 0 .. n /\ f[i - 1] \in Seq(PatchType) /\ UnitsSoFar(f[i - 1], s, i - 1)
    BY <1>4, <1>7
  <2>2. Follows(f[i - 1], s[i])
    <3>1. CASE i = 1
      <4>1. f[i - 1] = <<>>
        BY <2>1, <3>1 DEF UnitsSoFar
      <4>2. QED BY <4>1 DEF Follows
    <3>2. CASE i # 1
      <4>1. i - 1 \in 1 .. n /\ i - 1 # 0 /\ i - 1 <= i
        BY <1>4, <3>2
      <4>2. s[i - 1].start_time <= s[i].start_time /\ s[i - 1].start_time \in Int /\ s[i].start_time \in Int
        BY <1>1, <1>5, <4>1
      <4>3. Follows(f[i - 1], s[i - 1])
        BY <2>1, <4>1 DEF UnitsSoFar
      <4> DEFINE z == f[i - 1][Len(f[i - 1])]
      <4>4. f[i - 1] # <<>> => z \in PatchType
        BY <2>1, MemberType
      <4>5. f[i - 1] # <<>> => z.start_time \in Int
        BY <4>4 DEF PatchType
      <4>6. f[i - 1] # <<>> => z.start_time <= s[i - 1].start_time
        BY <4>3 DEF Follows
      <4>7. f[i - 1] # <<>> => z.start_time <= s[i].start_time
        BY <4>2, <4>5, <4>6
      <4>8. QED BY <4>7 DEF Follows
    <3>3. QED BY <3>1, <3>2
  <2>3. f[i] = Adjoined(f[i - 1], s[i])
    BY <1>2 DEF AdjoinsAlong
  <2>4. Lasting(f[i - 1]) /\ s[i] \in PatchType /\ s[i].start_time < s[i].end_time
    BY <1>3, <1>4, <2>1 DEF UnitsSoFar
  <2>5. /\ Lasting(f[i]) /\ Follows(f[i], s[i])
        /\ \A c \in Int : UnitIn(f[i], c) <=> UnitIn(f[i - 1], c) \/ UnitOf(s[i], c)
    BY <2>1, <2>2, <2>3, <2>4, AdjoinedUnits
  <2>6. \A j : j \in 1 .. i <=> j \in 1 .. i - 1 \/ j = i
    BY <1>4
  <2>7. \A c \in Int : UnitIn(f[i], c) <=> \E j \in 1 .. i : UnitOf(s[j], c)
    BY <2>1, <2>5, <2>6 DEF UnitsSoFar
  <2>8. i # 0
    OBVIOUS
  <2>9. UnitsSoFar(f[i], s, i)
    BY <2>5, <2>7, <2>8 DEF UnitsSoFar
  <2>10. QED BY <2>1, <2>9
<1> HIDE DEF S
<1>8. 0 .. n \subseteq S
  BY <1>4, <1>6, <1>7, UpTo
<1>9. n \in 0 .. n
  BY <1>4
<1>10. UnitsSoFar(f[n], s, n) /\ f[n] \in Seq(PatchType)
  BY <1>8, <1>9 DEF S
<1>11. \A c : UnitIn(ps, c) <=> \E j \in 1 .. n : UnitOf(s[j], c)
  BY <1>1 DEF Has, UnitIn, UnitOf
<1>12. QED BY <1>2, <1>10, <1>11 DEF UnitsSoFar

-----------------------------------------------------------------------------
(* How many patches are open *)

\* What the loop of _get_time_patch_count remembers.
Counts == [cnt: Int, res: Seq(Span)]

\* f is what that loop computes of the points Q.
CountsAlong(f, Q, num) ==
    f[0] = [cnt |-> 0, res |-> <<>>] /\ \A i \in 1 .. Len(Q) : f[i] = CountAt(f[i - 1], Q[i], num)

\* The list with a new end of its last entry.
EndAt(r, t) == [r EXCEPT ![Len(r)] = update_end_time(@, t)]

\* It is a list of patches as it was.
LEMMA EndedType ==
  ASSUME NEW r \in Seq(Span), NEW t \in Nat
  PROVE  /\ EndAt(r, t) \in Seq(Span) /\ Len(EndAt(r, t)) = Len(r)
         /\ r # <<>> => /\ EndAt(r, t)[Len(r)].start_time = r[Len(r)].start_time
                        /\ EndAt(r, t)[Len(r)].end_time = t
         /\ \A i \in 1 .. Len(r) : i # Len(r) => EndAt(r, t)[i] = r[i]
<1> DEFINE k == Len(r)
           new == update_end_time(r[k], t)
<1>1. EndAt(r, t) = [r EXCEPT ![k] = new]
  BY DEF EndAt
<1>2. CASE r = <<>>
  <2>1. [r EXCEPT ![k] = new] = <<>>
    BY <1>2
  <2>2. QED BY <1>1, <1>2, <2>1
<1>3. CASE r # <<>>
  <2>1. r[k] \in Span /\ k \in 1 .. k
    BY <1>3, MemberType
  <2>2. new \in Span /\ new.start_time = r[k].start_time /\ new.end_time = t
    BY <2>1 DEF update_end_time, Span
  <2> HIDE DEF new
  <2>3. /\ [r EXCEPT ![k] = new] \in Seq(Span) /\ Len([r EXCEPT ![k] = new]) = k
        /\ [r EXCEPT ![k] = new][k] = new
        /\ \A i \in 1 .. k : i # k => [r EXCEPT ![k] = new][i] = r[i]
    BY <2>1, <2>2
  <2>4. QED BY <1>1, <2>2, <2>3
<1>4. QED BY <1>2, <1>3

\* A turn gives what the next one needs.
LEMMA CountType ==
  ASSUME NEW g \in Counts, NEW p \in PointType, NEW num \in Nat
  PROVE  CountAt(g, p, num) \in Counts
<1>1. g.cnt \in Int /\ g.res \in Seq(Span) /\ p.at \in Nat /\ p.step \in Int
  BY DEF Counts, PointType
<1>2. Patch(p.at, p.at) \in Span
  BY <1>1 DEF Patch, Span
<1>3. Append(g.res, Patch(p.at, p.at)) \in Seq(Span) /\ EndAt(g.res, p.at) \in Seq(Span)
  BY <1>1, <1>2, EndedType
<1>4. CountAt(g, p, num) =
        [cnt |-> g.cnt + p.step,
         res |-> IF g.cnt = num /\ p.step > 0 THEN Append(g.res, Patch(p.at, p.at))
                 ELSE IF g.cnt = num + 1 /\ p.step < 0 THEN EndAt(g.res, p.at) ELSE g.res]
  BY DEF CountAt, EndAt
<1>5. g.cnt + p.step \in Int
  BY <1>1
<1>6. QED BY <1>1, <1>3, <1>4, <1>5 DEF Counts

\* The loop goes by turns.
LEMMA CountSteps ==
  ASSUME NEW Q \in Seq(PointType), NEW num \in Nat
  PROVE  \E f \in [0 .. Len(Q) -> Counts] :
           CountAlong(Q, num) = f[Len(Q)].res /\ CountsAlong(f, Q, num)
<1> DEFINE n == Len(Q)
           a == [cnt |-> 0, res |-> <<>>]
           Eq(f) == f = [i \in 0 .. n |-> IF i = 0 THEN a ELSE CountAt(f[i - 1], Q[i], num)]
           k == CHOOSE f : Eq(f)
           G == [i \in 1 .. n |-> [x \in Counts |-> CountAt(x, Q[i], num)]]
<1>1. CountAlong(Q, num) = k[n].res
  BY DEF CountAlong
<1>2. n \in Nat /\ a \in Counts /\ \A x \in Counts, i \in 1 .. n : CountAt(x, Q[i], num) \in Counts
  <2>1. n \in Nat /\ \A i \in 1 .. n : Q[i] \in PointType
    BY MemberType
  <2>2. a \in Counts
    BY DEF Counts
  <2>3. QED BY <2>1, <2>2, CountType
<1> HIDE DEF a
<1>3. G \in [1 .. n -> [Counts -> Counts]] /\ \A x \in Counts, i \in 1 .. n : G[i][x] = CountAt(x, Q[i], num)
  BY <1>2
<1> HIDE DEF G, n
<1>4. PICK f \in [0 .. n -> Counts] : Iterates(f, n, a, G)
  BY <1>2, <1>3, Iteration
<1>5. Eq(f)
  <2>1. f = [i \in 0 .. n |-> IF i = 0 THEN a ELSE G[i][f[i - 1]]]
    BY <1>4 DEF Iterates
  <2>2. \A i \in 0 .. n : i # 0 => i \in 1 .. n /\ f[i - 1] \in Counts
    BY <1>2
  <2>3. QED BY <1>3, <2>1, <2>2
<1>6. Eq(k)
  BY <1>5
<1> HIDE DEF k
<1>7. k[0] = a /\ \A i \in 1 .. n : k[i] = CountAt(k[i - 1], Q[i], num)
  BY <1>2, <1>6
<1>8. k = [i \in 0 .. n |-> k[i]]
  BY <1>6
<1>9. \A i \in 1 .. n : k[i - 1] \in Counts => k[i] \in Counts
  BY <1>2, <1>7
<1>10. k \in [0 .. n -> Counts]
  BY <1>2, <1>7, <1>8, <1>9, StaysIn
<1>11. QED BY <1>1, <1>7, <1>10 DEF CountsAlong, n, a

\* The places among the first k at which the points of Q are starts, or ends.
StartsTo(Q, k) == {j \in 1 .. k : Q[j].step = 1}
EndsTo(Q, k) == {j \in 1 .. k : Q[j].step = -1}

\* The count after k points is the number of starts less that of ends.
LEMMA CountIsOpen ==
  ASSUME NEW Q \in Seq(PointType), NEW num \in Nat, NEW f \in [0 .. Len(Q) -> Counts],
         CountsAlong(f, Q, num), NEW k \in 0 .. Len(Q)
  PROVE  f[k].cnt = Cardinality(StartsTo(Q, k)) - Cardinality(EndsTo(Q, k))
<1> DEFINE n == Len(Q)
           S == {i \in 0 .. n : f[i].cnt = Cardinality(StartsTo(Q, i)) - Cardinality(EndsTo(Q, i))}
<1>1. n \in Nat
  OBVIOUS
<1>2. \A i \in 0 .. n : /\ IsFiniteSet(StartsTo(Q, i)) /\ Cardinality(StartsTo(Q, i)) \in Nat
                        /\ IsFiniteSet(EndsTo(Q, i)) /\ Cardinality(EndsTo(Q, i)) \in Nat
  <2> SUFFICES ASSUME NEW i \in 0 .. n
               PROVE  /\ IsFiniteSet(StartsTo(Q, i)) /\ Cardinality(StartsTo(Q, i)) \in Nat
                      /\ IsFiniteSet(EndsTo(Q, i)) /\ Cardinality(EndsTo(Q, i)) \in Nat
    OBVIOUS
  <2>1. IsFiniteSet(1 .. i)
    BY FS_Interval
  <2>2. StartsTo(Q, i) \in SUBSET (1 .. i) /\ EndsTo(Q, i) \in SUBSET (1 .. i)
    BY DEF StartsTo, EndsTo
  <2>3. IsFiniteSet(StartsTo(Q, i)) /\ IsFiniteSet(EndsTo(Q, i))
    BY <2>1, <2>2, FS_Subset
  <2>4. QED BY <2>3, FS_CardinalityType
<1>3. 0 \in S
  <2>1. f[0].cnt = 0 /\ StartsTo(Q, 0) = {} /\ EndsTo(Q, 0) = {}
    BY DEF CountsAlong, StartsTo, EndsTo
  <2>2. Cardinality({}) = 0
    BY FS_EmptySet
  <2>3. QED BY <1>1, <2>1, <2>2
<1>4. ASSUME NEW i \in 1 .. n, i - 1 \in S PROVE i \in S
  <2>1. i - 1 \in 0 .. n /\ i \in 0 .. n /\ i \notin 1 .. i - 1
        /\ \A j : j \in 1 .. i <=> j \in 1 .. i - 1 \/ j = i
    BY <1>1
  <2>2. f[i].cnt = f[i - 1].cnt + Q[i].step
    <3>1. f[i] = CountAt(f[i - 1], Q[i], num)
      BY DEF CountsAlong
    <3>2. CountAt(f[i - 1], Q[i], num).cnt = f[i - 1].cnt + Q[i].step
      BY DEF CountAt
    <3>3. QED BY <3>1, <3>2
  <2>3. Q[i] \in PointType
    BY MemberType
  <2>4. Q[i].step \in {1, -1}
    BY <2>3 DEF PointType
  <2> DEFINE u == StartsTo(Q, i - 1)
             v == EndsTo(Q, i - 1)
  <2>5. i \notin u /\ i \notin v
    BY <2>1 DEF StartsTo, EndsTo
  <2>6. IsFiniteSet(u) /\ IsFiniteSet(v) /\ Cardinality(u) \in Nat /\ Cardinality(v) \in Nat
    BY <1>2, <2>1
  <2>7. f[i - 1].cnt = Cardinality(u) - Cardinality(v)
    BY <1>4
  <2>8. CASE Q[i].step = 1
    <3>1. StartsTo(Q, i) = u \union {i} /\ EndsTo(Q, i) = v
      BY <2>1, <2>8 DEF StartsTo, EndsTo
    <3> HIDE DEF u, v
    <3>2. Cardinality(u \union {i}) = Cardinality(u) + 1
      BY <2>5, <2>6, FS_AddElement
    <3>3. f[i].cnt = Cardinality(StartsTo(Q, i)) - Cardinality(EndsTo(Q, i))
      BY <2>2, <2>6, <2>7, <2>8, <3>1, <3>2
    <3>4. QED BY <2>1, <3>3
  <2>9. CASE Q[i].step = -1
    <3>1. EndsTo(Q, i) = v \union {i} /\ StartsTo(Q, i) = u
      BY <2>1, <2>9 DEF StartsTo, EndsTo
    <3> HIDE DEF u, v
    <3>2. Cardinality(v \union {i}) = Cardinality(v) + 1
      BY <2>5, <2>6, FS_AddElement
    <3>3. f[i].cnt = Cardinality(StartsTo(Q, i)) - Cardinality(EndsTo(Q, i))
      BY <2>2, <2>6, <2>7, <2>9, <3>1, <3>2
    <3>4. QED BY <2>1, <3>3
  <2>10. QED BY <2>4, <2>8, <2>9
<1> HIDE DEF S
<1>5. 0 .. n \subseteq S
  BY <1>1, <1>3, <1>4, UpTo
<1>6. QED BY <1>5 DEF S

\* Each point comes no earlier than the one before it.
InTime(Q) == \A m, l \in 1 .. Len(Q) : m <= l => ~Earlier(Q[l], Q[m])

\* What the entries say of the unit that starts at c when g is remembered: those that have an
\* end have it, or the last one is open and started.
Said(g, num, c) ==
    \/ \E i \in 1 .. Len(g.res) : (g.cnt <= num \/ i # Len(g.res)) /\ UnitOf(g.res[i], c)
    \/ g.cnt > num /\ g.res[Len(g.res)].start_time <= c

\* The entries after k points: those with an end last, and end by now; the last one is open if
\* the count is above num, and it opened at a start.
EntriesSoFar(g, Q, num, k) ==
    /\ k = 0 => g.cnt = 0 /\ g.res = <<>>
    /\ \A i \in 1 .. Len(g.res) : g.cnt <= num \/ i # Len(g.res) =>
         g.res[i].start_time < g.res[i].end_time /\ g.res[i].end_time <= Q[k].at
    /\ g.cnt > num => /\ g.res # <<>> 
                      /\ \E j \in 1 .. k : Q[j].at = g.res[Len(g.res)].start_time /\ Q[j].step = 1

\* One point more keeps that, and changes nothing that was said of the time before it.
LEMMA EntriesOneMore ==
  ASSUME NEW Q \in Seq(PointType), InTime(Q), NEW num \in Nat, NEW k \in 1 .. Len(Q),
         NEW g \in Counts, EntriesSoFar(g, Q, num, k - 1)
  PROVE  /\ EntriesSoFar(CountAt(g, Q[k], num), Q, num, k)
         /\ \A c \in Nat : c < Q[k].at => (Said(CountAt(g, Q[k], num), num, c) <=> Said(g, num, c))
<1> DEFINE T == Q[k].at
           r == g.res
           L == Len(r)
           h == CountAt(g, Q[k], num)
           e == Patch(T, T)
<1>1. /\ T \in Nat /\ Q[k].step \in {1, -1} /\ g.cnt \in Int /\ r \in Seq(Span) /\ L \in Nat
      /\ \A i \in 1 .. L : r[i].start_time \in Nat /\ r[i].end_time \in Nat
  <2>1. Q[k] \in PointType
    BY MemberType
  <2>2. r \in Seq(Span)
    BY DEF Counts
  <2>3. \A i \in 1 .. L : r[i] \in Span
    BY <2>2, MemberType
  <2>4. \A i \in 1 .. L : r[i].start_time \in Nat /\ r[i].end_time \in Nat
    BY <2>3 DEF Span
  <2>5. QED BY <2>1, <2>2, <2>4 DEF Counts, PointType
<1>2. k \in 1 .. Len(Q) /\ k \in Nat /\ k >= 1 /\ Len(Q) \in Nat
  OBVIOUS
<1>3. \A j \in 1 .. Len(Q) : Q[j].at \in Nat /\ (j <= k => Q[j].at <= T)
  <2> SUFFICES ASSUME NEW j \in 1 .. Len(Q) PROVE Q[j].at \in Nat /\ (j <= k => Q[j].at <= T)
    OBVIOUS
  <2>1. Q[j] \in PointType
    BY MemberType
  <2>2. Q[j].at \in Nat
    BY <2>1 DEF PointType
  <2>3. j <= k => ~Earlier(Q[k], Q[j])
    BY DEF InTime
  <2>4. QED BY <1>1, <2>2, <2>3 DEF Earlier
<1>4. /\ h.cnt = g.cnt + Q[k].step
      /\ h.res = IF g.cnt = num /\ Q[k].step > 0 THEN Append(r, e)
                 ELSE IF g.cnt = num + 1 /\ Q[k].step < 0 THEN EndAt(r, T) ELSE r
  BY DEF CountAt, EndAt
<1>5. e.start_time = T /\ e.end_time = T
  BY DEF Patch
<1>6. \A i \in 1 .. L : g.cnt <= num \/ i # L => r[i].start_time < r[i].end_time /\ r[i].end_time <= T
  <2> SUFFICES ASSUME NEW i \in 1 .. L, g.cnt <= num \/ i # L
               PROVE  r[i].start_time < r[i].end_time /\ r[i].end_time <= T
    OBVIOUS
  <2>1. r[i].start_time < r[i].end_time /\ r[i].end_time <= Q[k - 1].at
    BY DEF EntriesSoFar
  <2>2. k - 1 # 0
    <3>1. k - 1 = 0 => L = 0
      BY DEF EntriesSoFar
    <3>2. QED BY <1>1, <3>1
  <2>3. k - 1 \in 1 .. Len(Q) /\ k - 1 <= k
    BY <1>2, <2>2
  <2>4. Q[k - 1].at <= T /\ Q[k - 1].at \in Nat
    BY <1>3, <2>3
  <2>5. QED BY <1>1, <2>1, <2>4
<1>7. g.cnt > num => /\ r # <<>> /\ L \in 1 .. L
                     /\ \E j \in 1 .. k - 1 : Q[j].at = r[L].start_time /\ Q[j].step = 1
  <2>1. r # <<>> => L \in 1 .. L
    BY <1>1
  <2>2. QED BY <2>1 DEF EntriesSoFar
<1> HIDE DEF T, h, e
<1>8. CASE g.cnt = num /\ Q[k].step > 0
  <2>1. Q[k].step = 1 /\ h.cnt = num + 1 /\ h.res = Append(r, e)
    BY <1>1, <1>4, <1>8
  <2>2. Len(h.res) = L + 1 /\ h.res[L + 1] = e /\ (\A i \in 1 .. L : h.res[i] = r[i]) /\ h.res # <<>>
    BY <1>1, <2>1
  <2>3. \A i \in 1 .. L + 1 : i # L + 1 => i \in 1 .. L
    BY <1>1
  <2>4. ~(h.cnt <= num) /\ h.cnt > num /\ g.cnt <= num /\ ~(g.cnt > num)
    BY <1>8, <2>1
  <2>5. EntriesSoFar(h, Q, num, k)
    <3>1. \A i \in 1 .. L + 1 : i # L + 1 =>
            h.res[i].start_time < h.res[i].end_time /\ h.res[i].end_time <= T
      BY <1>6, <2>2, <2>3, <2>4
    <3>2. k \in 1 .. k /\ Q[k].at = h.res[L + 1].start_time /\ Q[k].step = 1
      BY <1>2, <1>5, <2>1, <2>2 DEF T
    <3>3. k # 0
      BY <1>2
    <3>4. QED BY <2>2, <2>4, <3>1, <3>2, <3>3 DEF EntriesSoFar, T
  <2>6. ASSUME NEW c \in Nat, c < T PROVE Said(h, num, c) <=> Said(g, num, c)
    <3>1. ~(h.res[L + 1].start_time <= c)
      BY <1>1, <1>5, <2>2, <2>6
    <3>2. (\E i \in 1 .. L + 1 : i # L + 1 /\ UnitOf(h.res[i], c)) <=> \E i \in 1 .. L : UnitOf(r[i], c)
      <4>1. \A i \in 1 .. L : i \in 1 .. L + 1 /\ i # L + 1
        BY <1>1
      <4>2. QED BY <2>2, <2>3, <4>1
    <3>3. Said(h, num, c) <=> \E i \in 1 .. L + 1 : i # L + 1 /\ UnitOf(h.res[i], c)
      BY <2>2, <2>4, <3>1 DEF Said
    <3>4. Said(g, num, c) <=> \E i \in 1 .. L : UnitOf(r[i], c)
      BY <2>4 DEF Said
    <3>5. QED BY <3>2, <3>3, <3>4
  <2>7. QED BY <2>5, <2>6 DEF h, T
<1>9. CASE g.cnt = num + 1 /\ Q[k].step < 0
  <2>1. Q[k].step = -1 /\ h.cnt = num /\ h.res = EndAt(r, T) /\ g.cnt > num
    <3>1. Q[k].step = -1 /\ ~(Q[k].step > 0)
      BY <1>1, <1>9
    <3>2. h.cnt = num /\ g.cnt > num
      BY <1>4, <1>9, <3>1
    <3>3. h.res = EndAt(r, T)
      BY <1>4, <1>9, <3>1
    <3>4. QED BY <3>1, <3>2, <3>3
  <2>2. h.cnt <= num /\ ~(h.cnt > num) /\ ~(g.cnt <= num)
    BY <1>1, <2>1
  <2>3. r # <<>> /\ L \in 1 .. L
    BY <1>7, <2>1
  <2>4. /\ Len(h.res) = L /\ h.res[L].start_time = r[L].start_time /\ h.res[L].end_time = T
        /\ \A i \in 1 .. L : i # L => h.res[i] = r[i]
    BY <1>1, <2>1, <2>3, EndedType
  <2>5. r[L].start_time < T
    <3>1. PICK j \in 1 .. k - 1 : Q[j].at = r[L].start_time /\ Q[j].step = 1
      BY <1>7, <2>1
    <3>2. j \in 1 .. Len(Q) /\ j <= k
      BY <1>2
    <3>3. Q[j].at <= T /\ Q[j].at \in Nat /\ ~Earlier(Q[k], Q[j])
      BY <1>3, <3>2 DEF InTime
    <3>4. Q[j].at # T
      BY <2>1, <3>1, <3>3 DEF Earlier, T
    <3>5. QED BY <1>1, <3>1, <3>3, <3>4
  <2>6. EntriesSoFar(h, Q, num, k)
    <3>1. \A i \in 1 .. L : h.res[i].start_time < h.res[i].end_time /\ h.res[i].end_time <= T
      <4> SUFFICES ASSUME NEW i \in 1 .. L
                   PROVE  h.res[i].start_time < h.res[i].end_time /\ h.res[i].end_time <= T
        OBVIOUS
      <4>1. CASE i = L
        BY <1>1, <2>4, <2>5, <4>1
      <4>2. CASE i # L
        BY <1>6, <2>4, <4>2
      <4>3. QED BY <4>1, <4>2
    <3>2. k # 0
      BY <1>2
    <3>3. QED BY <2>2, <2>4, <3>1, <3>2 DEF EntriesSoFar, T
  <2>7. ASSUME NEW c \in Nat, c < T PROVE Said(h, num, c) <=> Said(g, num, c)
    <3>1. UnitOf(h.res[L], c) <=> r[L].start_time <= c
      <4>1. c + 1 <= T
        BY <1>1, <2>7
      <4>2. QED BY <2>4, <4>1 DEF UnitOf
    <3>2. (\E i \in 1 .. L : UnitOf(h.res[i], c))
            <=> (\E i \in 1 .. L : i # L /\ UnitOf(r[i], c)) \/ r[L].start_time <= c
      BY <2>3, <2>4, <3>1
    <3>3. Said(h, num, c) <=> \E i \in 1 .. L : UnitOf(h.res[i], c)
      BY <2>2, <2>4 DEF Said
    <3>4. Said(g, num, c) <=> (\E i \in 1 .. L : i # L /\ UnitOf(r[i], c)) \/ r[L].start_time <= c
      BY <2>1, <2>2 DEF Said
    <3>5. QED BY <3>2, <3>3, <3>4
  <2>8. QED BY <2>6, <2>7 DEF h, T
<1>10. CASE ~(g.cnt = num /\ Q[k].step > 0) /\ ~(g.cnt = num + 1 /\ Q[k].step < 0)
  <2>1. h.res = r /\ (h.cnt > num <=> g.cnt > num) /\ (h.cnt <= num <=> g.cnt <= num)
    BY <1>1, <1>4, <1>10
  <2>2. \A j : j \in 1 .. k - 1 => j \in 1 .. k
    BY <1>2
  <2>3. k # 0
    BY <1>2
  <2>4. EntriesSoFar(h, Q, num, k)
    BY <1>6, <1>7, <2>1, <2>2, <2>3 DEF EntriesSoFar, T
  <2>5. ASSUME NEW c \in Nat PROVE Said(h, num, c) <=> Said(g, num, c)
    BY <2>1 DEF Said
  <2>6. QED BY <2>4, <2>5 DEF h, T
<1>11. QED BY <1>8, <1>9, <1>10

\* Over has the units of time at which the count is above num, and no other.
Marks(Over, f, Q, num) ==
    \A k \in 0 .. Len(Q), c \in Nat :
      (k > 0 => Q[k].at <= c) /\ (k < Len(Q) => c < Q[k + 1].at) => (c \in Over <=> f[k].cnt > num)

\* What is known after k points: the entries, and that up to now they say just what Over does.
SweptSoFar(f, Q, num, Over, k) ==
    /\ EntriesSoFar(f[k], Q, num, k)
    /\ \A c \in Nat : k > 0 /\ c < Q[k].at => (Said(f[k], num, c) <=> c \in Over)

\* One point more: the time from the last one to this is told by the count.
LEMMA SweptOneMore ==
  ASSUME NEW Q \in Seq(PointType), InTime(Q), NEW num \in Nat,
         NEW f \in [0 .. Len(Q) -> Counts], CountsAlong(f, Q, num), NEW Over, Marks(Over, f, Q, num),
         NEW k \in 1 .. Len(Q), SweptSoFar(f, Q, num, Over, k - 1)
  PROVE  SweptSoFar(f, Q, num, Over, k)
<1> DEFINE g == f[k - 1]
           r == g.res
           L == Len(r)
<1>1. k \in Nat /\ k >= 1 /\ k - 1 \in 0 .. Len(Q) /\ Len(Q) \in Nat /\ k - 1 < Len(Q) /\ (k - 1) + 1 = k
  OBVIOUS
<1>2. g \in Counts /\ f[k] = CountAt(g, Q[k], num)
  BY <1>1 DEF CountsAlong
<1>3. EntriesSoFar(g, Q, num, k - 1)
  BY DEF SweptSoFar
<1>4. /\ EntriesSoFar(f[k], Q, num, k)
      /\ \A c \in Nat : c < Q[k].at => (Said(f[k], num, c) <=> Said(g, num, c))
  BY <1>2, <1>3, EntriesOneMore
<1>5. g.cnt \in Int /\ L \in Nat /\ \A i \in 1 .. L : r[i].start_time \in Nat /\ r[i].end_time \in Nat
  <2>1. r \in Seq(Span) /\ g.cnt \in Int
    BY <1>2 DEF Counts
  <2>2. \A i \in 1 .. L : r[i] \in Span
    BY <2>1, MemberType
  <2>3. \A p \in Span : p.start_time \in Nat /\ p.end_time \in Nat
    BY DEF Span
  <2>4. QED BY <2>1, <2>2, <2>3
<1>6. \A j \in 1 .. Len(Q) : Q[j].at \in Nat
  <2>1. \A j \in 1 .. Len(Q) : Q[j] \in PointType
    BY MemberType
  <2>2. QED BY <2>1 DEF PointType
<1> HIDE DEF g
<1>7. ASSUME NEW c \in Nat, c < Q[k].at PROVE Said(g, num, c) <=> c \in Over
  <2>1. CASE k - 1 = 0
    <3>1. g.cnt = 0 /\ r = <<>>
      BY <1>3, <2>1 DEF EntriesSoFar
    <3>2. ~Said(g, num, c)
      BY <3>1 DEF Said
    <3>3. c \in Over <=> f[k - 1].cnt > num
      BY <1>1, <1>7, <2>1 DEF Marks
    <3>4. QED BY <3>1, <3>2, <3>3 DEF g
  <2>2. CASE k - 1 # 0 /\ c < Q[k - 1].at
    <3>1. k - 1 > 0
      BY <1>1, <2>2
    <3>2. QED BY <2>2, <3>1 DEF SweptSoFar, g
  <2>3. CASE k - 1 # 0 /\ ~(c < Q[k - 1].at)
    <3>1. k - 1 \in 1 .. Len(Q) /\ k - 1 > 0 /\ k - 1 <= k
      BY <1>1, <2>3
    <3> DEFINE T == Q[k - 1].at
    <3>2. T \in Nat /\ T <= c
      BY <1>6, <2>3, <3>1
    <3>3. c \in Over <=> g.cnt > num
      BY <1>1, <1>7, <3>1, <3>2 DEF Marks, g
    <3> HIDE DEF T
    <3>4. \A i \in 1 .. L : g.cnt <= num \/ i # L => ~UnitOf(r[i], c)
      <4> SUFFICES ASSUME NEW i \in 1 .. L, g.cnt <= num \/ i # L PROVE ~(c + 1 <= r[i].end_time)
        BY DEF UnitOf
      <4>1. r[i].end_time <= T
        BY <1>3 DEF EntriesSoFar, T
      <4>2. QED BY <1>5, <3>2, <4>1
    <3>5. g.cnt > num => r[L].start_time <= c
      <4> SUFFICES ASSUME g.cnt > num PROVE r[L].start_time <= c
        OBVIOUS
      <4>1. PICK j \in 1 .. k - 1 : Q[j].at = r[L].start_time
        BY <1>3 DEF EntriesSoFar
      <4>2. j \in 1 .. Len(Q) /\ j <= k - 1
        BY <1>1
      <4>3. ~Earlier(Q[k - 1], Q[j])
        BY <3>1, <4>2 DEF InTime
      <4>4. Q[j].at <= T
        BY <1>6, <3>1, <4>2, <4>3 DEF Earlier, T
      <4>5. QED BY <1>6, <3>2, <4>1, <4>2, <4>4
    <3>6. Said(g, num, c) <=> g.cnt > num
      BY <3>4, <3>5 DEF Said
    <3>7. QED BY <3>3, <3>6
  <2>4. QED BY <2>1, <2>2, <2>3
<1>8. QED BY <1>4, <1>7 DEF SweptSoFar

\* The entries at the end are just the units of Over, and none is empty.
LEMMA SweptAll ==
  ASSUME NEW Q \in Seq(PointType), InTime(Q), NEW num \in Nat,
         NEW f \in [0 .. Len(Q) -> Counts], CountsAlong(f, Q, num), NEW Over, Marks(Over, f, Q, num),
         f[Len(Q)].cnt = 0
  PROVE  /\ Lasting(f[Len(Q)].res)
         /\ \A c \in Nat : UnitIn(f[Len(Q)].res, c) <=> c \in Over
<1> DEFINE n == Len(Q)
           S == {k \in 0 .. n : SweptSoFar(f, Q, num, Over, k)}
<1>1. n \in Nat
  OBVIOUS
<1>2. 0 \in S
  <2>1. f[0].cnt = 0 /\ f[0].res = <<>>
    BY DEF CountsAlong
  <2>2. EntriesSoFar(f[0], Q, num, 0)
    BY <2>1 DEF EntriesSoFar
  <2>3. 0 \in 0 .. n /\ ~(0 > 0)
    BY <1>1
  <2>4. QED BY <2>2, <2>3 DEF SweptSoFar
<1>3. ASSUME NEW k \in 1 .. n, k - 1 \in S PROVE k \in S
  <2>1. SweptSoFar(f, Q, num, Over, k)
    BY <1>3, SweptOneMore
  <2>2. k \in 0 .. n
    BY <1>1
  <2>3. QED BY <2>1, <2>2
<1> HIDE DEF S
<1>4. 0 .. n \subseteq S
  BY <1>1, <1>2, <1>3, UpTo
<1>5. n \in 0 .. n
  BY <1>1
<1> DEFINE g == f[n]
           r == g.res
<1>6. EntriesSoFar(g, Q, num, n) /\ \A c \in Nat : n > 0 /\ c < Q[n].at => (Said(g, num, c) <=> c \in Over)
  BY <1>4, <1>5 DEF S, SweptSoFar
<1>7. g.cnt <= num /\ ~(g.cnt > num) /\ Len(r) \in Nat
      /\ \A i \in 1 .. Len(r) : r[i].start_time \in Nat /\ r[i].end_time \in Nat
  <2>1. r \in Seq(Span)
    BY <1>5 DEF Counts
  <2>2. \A i \in 1 .. Len(r) : r[i] \in Span
    BY <2>1, MemberType
  <2>3. QED BY <2>1, <2>2 DEF Span
<1> HIDE DEF g
<1>8. \A i \in 1 .. Len(r) : r[i].start_time < r[i].end_time /\ r[i].end_time <= Q[n].at
  BY <1>6, <1>7 DEF EntriesSoFar
<1>9. \A c : Said(g, num, c) <=> UnitIn(r, c)
  BY <1>7 DEF Said, UnitIn, UnitOf
<1>10. ASSUME NEW c \in Nat PROVE UnitIn(r, c) <=> c \in Over
  <2>1. CASE n > 0 /\ c < Q[n].at
    BY <1>6, <1>9, <2>1
  <2>2. CASE ~(n > 0 /\ c < Q[n].at)
    <3>1. n > 0 => Q[n].at \in Nat
      <4>1. n > 0 => Q[n] \in PointType
        BY <1>1, MemberType
      <4>2. QED BY <4>1 DEF PointType
    <3>2. c \notin Over
      <4>1. n > 0 => Q[n].at <= c
        BY <2>2, <3>1
      <4>2. ~(n < n)
        BY <1>1
      <4>3. c \in Over <=> f[n].cnt > num
        BY <1>5, <4>1, <4>2 DEF Marks
      <4>4. QED BY <1>7, <4>3 DEF g
    <3>3. ~UnitIn(r, c)
      <4> SUFFICES ASSUME NEW i \in 1 .. Len(r), c + 1 <= r[i].end_time PROVE FALSE
        BY DEF UnitIn
      <4>1. r[i].end_time <= Q[n].at
        BY <1>8
      <4>2. n > 0
        <5>1. n = 0 => r = <<>>
          BY <1>6 DEF EntriesSoFar
        <5>2. r # <<>>
          BY <1>7
        <5>3. QED BY <1>1, <5>1, <5>2
      <4>3. QED BY <1>7, <2>2, <3>1, <4>1, <4>2
    <3>4. QED BY <3>2, <3>3
  <2>3. QED BY <2>1, <2>2
<1>11. Lasting(r)
  BY <1>8 DEF Lasting
<1>12. QED BY <1>10, <1>11 DEF g

\* The patches that have the unit of time that starts at c.
OpenAt(ps, c) == {i \in 1 .. Len(ps) : UnitOf(ps[i], c)}

\* A map one to one and onto makes two sets the same size.
LEMMA SameSize ==
  ASSUME NEW S, NEW T, IsFiniteSet(S), NEW f \in [S -> T],
         \A x, y \in S : f[x] = f[y] => x = y, \A z \in T : \E x \in S : f[x] = z
  PROVE  IsFiniteSet(T) /\ Cardinality(S) = Cardinality(T)
<1>1. f \in Bijection(S, T)
  BY DEF Bijection, Injection, Surjection, IsInjective
<1>2. ExistsBijection(S, T)
  BY <1>1 DEF ExistsBijection
<1>3. QED BY <1>2, FS_Bijection

\* Just when the points up to c are the first k, the patches that are open at c are as many as
\* the starts among them less the ends.
LEMMA OpenCount ==
  ASSUME NEW ps \in Seq(Span), Lasting(ps), NEW Q, NEW at, Arranged(Q, Points(ps), at),
         NEW k \in 0 .. Len(Q), NEW c \in Nat,
         k > 0 => Q[k].at <= c, k < Len(Q) => c < Q[k + 1].at
  PROVE  Cardinality(OpenAt(ps, c)) = Cardinality(StartsTo(Q, k)) - Cardinality(EndsTo(Q, k))
<1> DEFINE P == Points(ps)
           N == Len(ps)
           n == Len(Q)
           X == {i \in 1 .. N : ps[i].start_time <= c}
           Y == {i \in 1 .. N : ps[i].end_time <= c}
           U == StartsTo(Q, k)
           V == EndsTo(Q, k)
<1>1. /\ P \in Seq(PointType) /\ Len(P) = N + N /\ N \in Nat /\ n = N + N /\ Q \in Seq(PointType)
      /\ \A i \in 1 .. N : /\ P[i].at = ps[i].start_time /\ P[i].step = 1
                           /\ P[N + i].at = ps[i].end_time /\ P[N + i].step = -1
  BY PointsOf DEF Arranged
<1>2. /\ at \in [1 .. n -> 1 .. n] /\ \A m \in 1 .. n : Q[m] = P[at[m]]
      /\ \A i \in 1 .. n : \E m \in 1 .. n : at[m] = i
      /\ \A m, l \in 1 .. n : at[m] = at[l] => m = l
      /\ \A m, l \in 1 .. n : m <= l => ~Earlier(Q[l], Q[m])
  BY <1>1 DEF Arranged
<1>3. \A m \in 1 .. n : Q[m].at \in Nat /\ Q[m].step \in {1, -1}
  <2>1. \A m \in 1 .. n : Q[m] \in PointType
    BY <1>1, MemberType
  <2>2. QED BY <2>1 DEF PointType
<1>4. \A i \in 1 .. N : /\ ps[i].start_time \in Nat /\ ps[i].end_time \in Nat
                        /\ ps[i].start_time < ps[i].end_time
  <2>1. \A i \in 1 .. N : ps[i] \in Span
    BY MemberType
  <2>2. QED BY <2>1 DEF Span, Lasting
<1> HIDE DEF P, N
<1>5. k \in Nat /\ k <= n /\ n \in Nat
  BY <1>1
<1> HIDE DEF n
<1>6. ASSUME NEW m \in 1 .. n PROVE m <= k <=> Q[m].at <= c
  <2>1. CASE m <= k
    <3>1. k \in 1 .. n /\ k > 0
      BY <1>5, <2>1
    <3>2. ~Earlier(Q[k], Q[m]) /\ Q[k].at <= c
      BY <1>2, <2>1, <3>1
    <3>3. QED BY <1>3, <2>1, <3>1, <3>2 DEF Earlier
  <2>2. CASE ~(m <= k)
    <3>1. k + 1 \in 1 .. n /\ k < n /\ k + 1 <= m
      BY <1>5, <2>2
    <3>2. ~Earlier(Q[m], Q[k + 1]) /\ c < Q[k + 1].at
      BY <1>2, <3>1 DEF n
    <3>3. QED BY <1>3, <2>2, <3>1, <3>2 DEF Earlier
  <2>3. QED BY <2>1, <2>2
<1>7. /\ U = {m \in 1 .. n : Q[m].step = 1 /\ Q[m].at <= c}
      /\ V = {m \in 1 .. n : Q[m].step = -1 /\ Q[m].at <= c}
  <2>1. \A m : m \in 1 .. k <=> m \in 1 .. n /\ m <= k
    BY <1>5
  <2>2. QED BY <1>6, <2>1 DEF StartsTo, EndsTo
<1>8. \A m \in 1 .. n : /\ Q[m].step = 1 => at[m] \in 1 .. N /\ Q[m].at = ps[at[m]].start_time
                        /\ Q[m].step = -1 => /\ at[m] - N \in 1 .. N
                                             /\ Q[m].at = ps[at[m] - N].end_time
  <2> SUFFICES ASSUME NEW m \in 1 .. n
               PROVE  /\ Q[m].step = 1 => at[m] \in 1 .. N /\ Q[m].at = ps[at[m]].start_time
                      /\ Q[m].step = -1 => at[m] - N \in 1 .. N /\ Q[m].at = ps[at[m] - N].end_time
    OBVIOUS
  <2>1. at[m] \in 1 .. N + N /\ Q[m] = P[at[m]]
    BY <1>1, <1>2
  <2>2. CASE at[m] \in 1 .. N
    <3>1. Q[m].at = ps[at[m]].start_time /\ Q[m].step = 1
      BY <1>1, <2>1, <2>2
    <3>2. QED BY <2>2, <3>1
  <2>3. CASE at[m] \notin 1 .. N
    <3>1. at[m] - N \in 1 .. N /\ N + (at[m] - N) = at[m]
      BY <1>1, <2>1, <2>3
    <3>2. Q[m].at = ps[at[m] - N].end_time /\ Q[m].step = -1
      BY <1>1, <2>1, <3>1
    <3>3. QED BY <3>1, <3>2
  <2>4. QED BY <2>2, <2>3
<1>9. IsFiniteSet(U) /\ IsFiniteSet(V)
  <2>1. IsFiniteSet(1 .. k)
    BY <1>5, FS_Interval
  <2>2. U \in SUBSET (1 .. k) /\ V \in SUBSET (1 .. k)
    BY DEF StartsTo, EndsTo
  <2>3. QED BY <2>1, <2>2, FS_Subset
<1> HIDE DEF U, V
<1>10. IsFiniteSet(X) /\ Cardinality(U) = Cardinality(X)
  <2> DEFINE f == [m \in U |-> at[m]]
  <2>1. \A m \in U : m \in 1 .. n /\ at[m] \in X
    BY <1>7, <1>8
  <2>2. f \in [U -> X] /\ \A x, y \in U : f[x] = f[y] => x = y
    BY <1>2, <2>1
  <2>3. \A i \in X : \E m \in U : f[m] = i
    <3> SUFFICES ASSUME NEW i \in X PROVE \E m \in U : at[m] = i
      OBVIOUS
    <3>1. i \in 1 .. N /\ i \in 1 .. n
      BY <1>1
    <3>2. PICK m \in 1 .. n : at[m] = i
      BY <1>2, <3>1
    <3>3. Q[m].at = ps[i].start_time /\ Q[m].step = 1
      <4>1. Q[m] = P[i]
        BY <1>2, <3>2
      <4>2. P[i].at = ps[i].start_time /\ P[i].step = 1
        BY <1>1, <3>1
      <4>3. QED BY <4>1, <4>2
    <3>4. m \in U
      BY <1>7, <3>3
    <3>5. QED BY <3>2, <3>4
  <2> HIDE DEF f, X
  <2>4. QED BY <1>9, <2>2, <2>3, SameSize
<1>11. IsFiniteSet(Y) /\ Cardinality(V) = Cardinality(Y)
  <2> DEFINE f == [m \in V |-> at[m] - N]
  <2>1. \A m \in V : m \in 1 .. n /\ at[m] - N \in Y
    BY <1>7, <1>8
  <2>2. f \in [V -> Y] /\ \A x, y \in V : f[x] = f[y] => x = y
    <3>1. f \in [V -> Y]
      BY <2>1
    <3>2. ASSUME NEW x \in V, NEW y \in V, at[x] - N = at[y] - N PROVE x = y
      <4>1. x \in 1 .. n /\ y \in 1 .. n
        BY <2>1, <3>2
      <4>2. at[x] \in Int /\ at[y] \in Int
        BY <1>2, <1>5, <4>1
      <4>3. \A a, b \in Int : a - N = b - N => a = b
        BY <1>1
      <4>4. at[x] = at[y]
        BY <3>2, <4>2, <4>3
      <4>5. QED BY <1>2, <4>1, <4>4
    <3>3. QED BY <3>1, <3>2
  <2>3. \A i \in Y : \E m \in V : f[m] = i
    <3> SUFFICES ASSUME NEW i \in Y PROVE \E m \in V : at[m] - N = i
      OBVIOUS
    <3>1. i \in 1 .. N /\ N + i \in 1 .. n /\ (N + i) - N = i
      BY <1>1
    <3>2. PICK m \in 1 .. n : at[m] = N + i
      BY <1>2, <3>1
    <3>3. Q[m].at = ps[i].end_time /\ Q[m].step = -1
      <4>1. Q[m] = P[N + i]
        BY <1>2, <3>2
      <4>2. P[N + i].at = ps[i].end_time /\ P[N + i].step = -1
        BY <1>1, <3>1
      <4>3. QED BY <4>1, <4>2
    <3>4. m \in V
      BY <1>7, <3>3
    <3>5. QED BY <3>1, <3>2, <3>4
  <2> HIDE DEF f, Y
  <2>4. QED BY <1>9, <2>2, <2>3, SameSize
<1>12. OpenAt(ps, c) \union Y = X /\ OpenAt(ps, c) \intersect Y = {}
  <2>1. \A i \in 1 .. N : /\ UnitOf(ps[i], c) \/ ps[i].end_time <= c <=> ps[i].start_time <= c
                          /\ ~(UnitOf(ps[i], c) /\ ps[i].end_time <= c)
    BY <1>4 DEF UnitOf
  <2>2. QED BY <2>1 DEF OpenAt, N
<1> HIDE DEF X, Y
<1>13. IsFiniteSet(OpenAt(ps, c))
  <2>1. OpenAt(ps, c) \in SUBSET X
    BY <1>12
  <2>2. QED BY <1>10, <2>1, FS_Subset
<1>14. Cardinality(X) = Cardinality(OpenAt(ps, c)) + Cardinality(Y) - Cardinality({})
  BY <1>11, <1>12, <1>13, FS_Union
<1>15. Cardinality({}) = 0 /\ Cardinality(OpenAt(ps, c)) \in Nat /\ Cardinality(Y) \in Nat
  BY <1>11, <1>13, FS_EmptySet, FS_CardinalityType
<1>16. QED BY <1>10, <1>11, <1>14, <1>15 DEF U, V

\* _get_time_patch_count, for any patches and any number of people: the entries have just the
\* units of time at which more than that many patches are open, and none is empty.
THEOREM CountExact ==
  ASSUME NEW ps \in Seq(Span), Lasting(ps), NEW num \in Nat
  PROVE  /\ get_time_patch_count(ps, num) \in Seq(Span) /\ Lasting(get_time_patch_count(ps, num))
         /\ \A c \in Nat : UnitIn(get_time_patch_count(ps, num), c) <=> Cardinality(OpenAt(ps, c)) > num
<1> DEFINE Q == TimePoints(ps)
           n == Len(Q)
           N == Len(ps)
           P == Points(ps)
           Over == {c \in Nat : Cardinality(OpenAt(ps, c)) > num}
<1>1. PICK at : Arranged(Q, P, at)
  BY SortedPoints
<1>2. /\ P \in Seq(PointType) /\ Len(P) = N + N /\ N \in Nat
      /\ \A i \in 1 .. N : P[N + i].at = ps[i].end_time
  BY PointsOf
<1>3. Q \in Seq(PointType) /\ n = N + N /\ InTime(Q)
      /\ (\A m \in 1 .. n : Q[m] = P[at[m]]) /\ (\A i \in 1 .. n : \E m \in 1 .. n : at[m] = i)
  BY <1>1, <1>2 DEF Arranged, InTime
<1>4. get_time_patch_count(ps, num) = CountAlong(Q, num)
  BY DEF get_time_patch_count
<1> HIDE DEF Q, P
<1>5. PICK f \in [0 .. n -> Counts] : CountAlong(Q, num) = f[n].res /\ CountsAlong(f, Q, num)
  BY <1>3, CountSteps
<1>6. ASSUME NEW k \in 0 .. n, NEW c \in Nat, k > 0 => Q[k].at <= c, k < n => c < Q[k + 1].at
      PROVE  f[k].cnt = Cardinality(OpenAt(ps, c))
  <2>1. f[k].cnt = Cardinality(StartsTo(Q, k)) - Cardinality(EndsTo(Q, k))
    BY <1>3, <1>5, CountIsOpen
  <2>2. Arranged(Q, Points(ps), at)
    BY <1>1 DEF P
  <2>3. QED BY <1>6, <2>1, <2>2, OpenCount
<1>7. Marks(Over, f, Q, num)
  BY <1>6 DEF Marks
<1> HIDE DEF Over
<1>8. n \in Nat /\ n \in 0 .. n /\ ~(n < n)
  BY <1>2, <1>3
<1>9. f[n].cnt = 0
  <2> DEFINE c == IF n = 0 THEN 0 ELSE Q[n].at
  <2>1. \A m \in 1 .. n : Q[m].at \in Nat
    <3>1. \A m \in 1 .. n : Q[m] \in PointType
      BY <1>3, MemberType
    <3>2. QED BY <3>1 DEF PointType
  <2>2. c \in Nat /\ (n > 0 => Q[n].at <= c) /\ (n > 0 => n \in 1 .. n)
    BY <1>8, <2>1
  <2>3. f[n].cnt = Cardinality(OpenAt(ps, c))
    BY <1>6, <1>8, <2>2
  <2>4. OpenAt(ps, c) = {}
    <3> SUFFICES ASSUME NEW i \in 1 .. N, UnitOf(ps[i], c) PROVE FALSE
      BY DEF OpenAt
    <3>1. N + i \in 1 .. n /\ n > 0 /\ n # 0
      BY <1>2, <1>3
    <3>2. PICK m \in 1 .. n : at[m] = N + i
      BY <1>3, <3>1
    <3>3. Q[m].at = ps[i].end_time /\ m <= n /\ n \in 1 .. n
      <4>1. Q[m] = P[N + i] /\ P[N + i].at = ps[i].end_time
        BY <1>2, <1>3, <3>2
      <4>2. m <= n
        BY <1>8
      <4>3. QED BY <2>2, <3>1, <4>1, <4>2
    <3>4. ~Earlier(Q[n], Q[m])
      BY <1>3, <3>3 DEF InTime
    <3>5. Q[m].at <= Q[n].at
      BY <2>1, <3>3, <3>4 DEF Earlier
    <3>6. c + 1 <= Q[m].at /\ c = Q[n].at
      BY <3>1, <3>3 DEF UnitOf
    <3>7. QED BY <2>1, <3>3, <3>5, <3>6
  <2>5. QED BY <2>3, <2>4, FS_EmptySet
<1>10. Lasting(f[n].res) /\ \A c \in Nat : UnitIn(f[n].res, c) <=> c \in Over
  BY <1>3, <1>5, <1>7, <1>9, SweptAll
<1>11. f[n].res \in Seq(Span)
  BY <1>5, <1>8 DEF Counts
<1>12. QED BY <1>4, <1>5, <1>10, <1>11 DEF Over

\* In patches that follow each other every later one starts after an earlier one has ended.
LEMMA RowFar ==
  ASSUME NEW ps \in Seq(Span), InARow(ps)
  PROVE  \A i, j \in 1 .. Len(ps) : i < j => ps[i].end_time <= ps[j].start_time
<1> DEFINE n == Len(ps)
           S == {d \in 0 .. n : \A i \in 1 .. n :
                   i + 1 + d <= n => ps[i].end_time <= ps[i + 1 + d].start_time}
<1>1. n \in Nat /\ \A i \in 1 .. n : ps[i].start_time \in Nat /\ ps[i].end_time \in Nat
  <2>1. \A i \in 1 .. n : ps[i] \in Span
    BY MemberType
  <2>2. QED BY <2>1 DEF Span
<1>2. 0 \in S
  <2>1. ASSUME NEW i \in 1 .. n, i + 1 + 0 <= n PROVE ps[i].end_time <= ps[i + 1 + 0].start_time
    <3>1. i \in 1 .. n - 1 /\ i + 1 + 0 = i + 1
      BY <1>1, <2>1
    <3>2. QED BY <3>1 DEF InARow
  <2>2. QED BY <1>1, <2>1
<1>3. ASSUME NEW d \in 1 .. n, d - 1 \in S PROVE d \in S
  <2>1. ASSUME NEW i \in 1 .. n, i + 1 + d <= n PROVE ps[i].end_time <= ps[i + 1 + d].start_time
    <3>1. i + 1 + (d - 1) <= n /\ i + 1 + (d - 1) = i + d /\ i + 1 + d = (i + d) + 1
          /\ i + d \in 1 .. n - 1 /\ i + d \in 1 .. n /\ (i + d) + 1 \in 1 .. n
      BY <1>1, <2>1
    <3>2. ps[i].end_time <= ps[i + d].start_time
      BY <1>3, <3>1
    <3>3. ps[i + d].start_time <= ps[i + d].end_time /\ ps[i + d].end_time <= ps[(i + d) + 1].start_time
      BY <3>1 DEF InARow
    <3>4. QED BY <1>1, <3>1, <3>2, <3>3
  <2>2. d \in 0 .. n
    BY <1>1
  <2>3. QED BY <2>1, <2>2
<1> HIDE DEF S
<1>4. 0 .. n \subseteq S
  BY <1>1, <1>2, <1>3, UpTo
<1>5. ASSUME NEW i \in 1 .. n, NEW j \in 1 .. n, i < j PROVE ps[i].end_time <= ps[j].start_time
  <2>1. j - i - 1 \in 0 .. n /\ i + 1 + (j - i - 1) = j /\ j <= n
    BY <1>1, <1>5
  <2>2. QED BY <1>4, <2>1 DEF S
<1>6. QED BY <1>5

\* Patches that follow each other after any other patches: one more is open where they are.
LEMMA OpenConcat ==
  ASSUME NEW a \in Seq(Span), NEW b \in Seq(Span), Lasting(a), Lasting(b), InARow(b)
  PROVE  /\ a \o b \in Seq(Span) /\ Lasting(a \o b)
         /\ \A c \in Nat : Cardinality(OpenAt(a \o b, c)) =
              Cardinality(OpenAt(a, c)) + IF UnitIn(b, c) THEN 1 ELSE 0
<1> DEFINE m == Len(a)
           k == Len(b)
           u == a \o b
<1>1. /\ m \in Nat /\ k \in Nat /\ u \in Seq(Span) /\ Len(u) = m + k
      /\ \A i \in 1 .. m : u[i] = a[i]
      /\ \A i \in 1 .. m + k : i > m => i - m \in 1 .. k /\ u[i] = b[i - m]
  OBVIOUS
<1>2. \A i \in 1 .. m + k : i \in 1 .. m \/ i > m
  BY <1>1
<1> HIDE DEF u, m, k
<1>3. Lasting(u)
  <2>1. ASSUME NEW i \in 1 .. m + k PROVE u[i].start_time < u[i].end_time
    <3>1. CASE i \in 1 .. m
      BY <1>1, <3>1 DEF Lasting, m
    <3>2. CASE i > m
      BY <1>1, <3>2 DEF Lasting, k
    <3>3. QED BY <1>2, <3>1, <3>2
  <2>2. QED BY <1>1, <2>1 DEF Lasting
<1>4. ASSUME NEW c \in Nat
      PROVE  Cardinality(OpenAt(u, c)) = Cardinality(OpenAt(a, c)) + IF UnitIn(b, c) THEN 1 ELSE 0
  <2>1. IsFiniteSet(OpenAt(a, c)) /\ OpenAt(a, c) \subseteq 1 .. m
    <3>1. IsFiniteSet(1 .. m)
      <4>1. m \in Int /\ 1 \in Int
        BY <1>1
      <4>2. QED BY <4>1, FS_Interval
    <3>2. OpenAt(a, c) \in SUBSET (1 .. m)
      BY DEF OpenAt, m
    <3>3. QED BY <3>1, <3>2, FS_Subset
  <2>2. \A i : i \in OpenAt(u, c) <=>
          i \in OpenAt(a, c) \/ (i \in 1 .. m + k /\ i > m /\ UnitOf(b[i - m], c))
    <3>1. \A i : i \in OpenAt(u, c) <=> i \in 1 .. m + k /\ UnitOf(u[i], c)
      BY <1>1 DEF OpenAt
    <3>2. \A i : i \in OpenAt(a, c) <=> i \in 1 .. m /\ UnitOf(a[i], c)
      BY DEF OpenAt, m
    <3>3. \A i : i \in 1 .. m => i \in 1 .. m + k /\ ~(i > m)
      BY <1>1
    <3>4. QED BY <1>1, <1>2, <3>1, <3>2, <3>3
  <2>3. CASE ~UnitIn(b, c)
    <3>1. \A i \in 1 .. m + k : i > m => ~UnitOf(b[i - m], c)
      BY <1>1, <2>3 DEF UnitIn, UnitOf, k
    <3>2. OpenAt(u, c) = OpenAt(a, c)
      BY <2>2, <3>1
    <3>3. Cardinality(OpenAt(a, c)) \in Nat
      BY <2>1, FS_CardinalityType
    <3>4. QED BY <2>3, <3>2, <3>3
  <2>4. CASE UnitIn(b, c)
    <3>1. PICK j \in 1 .. k : UnitOf(b[j], c)
      BY <2>4 DEF UnitIn, UnitOf, k
    <3>2. ASSUME NEW i \in 1 .. k, UnitOf(b[i], c) PROVE i = j
      <4>1. \A x, y \in 1 .. k : x < y => ~(UnitOf(b[x], c) /\ UnitOf(b[y], c))
        <5> SUFFICES ASSUME NEW x \in 1 .. k, NEW y \in 1 .. k, x < y, UnitOf(b[x], c), UnitOf(b[y], c)
                     PROVE  FALSE
          OBVIOUS
        <5>1. b[x].end_time <= b[y].start_time
          BY RowFar DEF k
        <5>2. b[x] \in Span /\ b[y] \in Span
          BY MemberType DEF k
        <5>3. QED BY <5>1, <5>2 DEF UnitOf, Span
      <4>2. i < j \/ j < i \/ i = j
        BY <1>1
      <4>3. QED BY <3>1, <3>2, <4>1, <4>2
    <3>3. m + j \in 1 .. m + k /\ m + j > m /\ (m + j) - m = j /\ m + j \notin 1 .. m
      BY <1>1
    <3>4. ASSUME NEW i \in 1 .. m + k, i > m, UnitOf(b[i - m], c) PROVE i = m + j
      <4>1. i - m = j
        BY <1>1, <3>2, <3>4
      <4>2. QED BY <1>1, <4>1
    <3>5. OpenAt(u, c) = OpenAt(a, c) \union {m + j}
      BY <2>2, <3>1, <3>3, <3>4
    <3>6. m + j \notin OpenAt(a, c)
      BY <2>1, <3>3
    <3>7. Cardinality(OpenAt(a, c) \union {m + j}) = Cardinality(OpenAt(a, c)) + 1
      BY <2>1, <3>6, FS_AddElement
    <3>8. QED BY <2>4, <3>5, <3>7
  <2>5. QED BY <2>3, <2>4
<1>5. QED BY <1>1, <1>3, <1>4 DEF u

-----------------------------------------------------------------------------
(* What the report says *)

\* A reason for each member of a list is a list as long.
LEMMA EachList ==
  ASSUME NEW s, AList(s), NEW r
  PROVE  AList(Each(r, s)) /\ (Each(r, s) = <<>> <=> s = <<>>)
<1> DEFINE n == Len(s)
           f == Each(r, s)
<1>1. DOMAIN s = 1 .. n /\ n \in Nat
  BY ListDomain
<1>2. f = [i \in 1 .. n |-> r]
  BY <1>1 DEF Each
<1> HIDE DEF f, n
<1>3. f = [i \in 1 .. n |-> f[i]] /\ DOMAIN f = 1 .. n
  BY <1>2
<1>4. AList(f)
  BY <1>1, <1>3, FunctionList
<1>5. (f = <<>> <=> DOMAIN f = {}) /\ (s = <<>> <=> DOMAIN s = {})
  BY <1>4, EmptyList
<1>6. QED BY <1>1, <1>3, <1>4, <1>5 DEF f

\* What holds only if is a list or nothing.
LEMMA IfList ==
  ASSUME NEW c, NEW w, AList(w)
  PROVE  AList(If(c, w))
<1>1. AList(<<>>)
  <2>1. <<>> \in Seq({})
    OBVIOUS
  <2>2. QED BY <2>1, ListType
<1>2. QED BY <1>1 DEF If

\* Present, persons and the participants whose share is too small are lists.
LEMMA ReportLists ==
  ASSUME Inputs
  PROVE  /\ AList(Present) /\ AList(persons) /\ AList(RatioTooSmall) /\ AList(MissingRequired)
<1> DEFINE shown == Select(Present, {m \in Range(Present) : StoredTimes(m.track) # <<>>})
<1>1. AList(identity_mapper)
  BY MapperGood DEF WellMapped
<1>2. AList(Present)
  BY <1>1, SelectList DEF Present, HaveTrack
<1>3. AList(shown)
  BY <1>2, SelectList
<1>4. AList(Required)
  BY <1>2, SelectList DEF Required
<1>5. AList(RatioTooSmall)
  BY <1>4, SelectList DEF RatioTooSmall
<1>6. AList(participant_sequences)
  BY EachRoleOnce, ListType
<1>7. AList(MissingRequired)
  BY <1>6, SelectList DEF MissingRequired
<1>8. AList(persons)
  <2> DEFINE e(i) == [identity |-> IF IsStranger(shown[i].identity) THEN "unknown" ELSE shown[i].identity,
                      requirement |-> RequirementOf(shown[i].identity),
                      times |-> StoredTimes(shown[i].track)]
             ps == [i \in DOMAIN shown |-> e(i)]
  <2>1. persons = ps
    BY DEF persons, Described
  <2>2. DOMAIN shown = 1 .. Len(shown) /\ Len(shown) \in Nat
    BY <1>3, ListDomain
  <2> HIDE DEF shown, e
  <2>3. ps = [i \in 1 .. Len(shown) |-> ps[i]]
    BY <2>2
  <2> HIDE DEF ps
  <2>4. AList(ps)
    BY <2>2, <2>3, FunctionList
  <2>5. QED BY <2>1, <2>4
<1>9. QED BY <1>2, <1>5, <1>7, <1>8

\* Who is missing is a reason, and the report's status is 1.
LEMMA MissingIsAReason ==
  ASSUME Inputs, MissingRequired # <<>>
  PROVE  Reasons # <<>>
<1> DEFINE a == Each("missing", MissingRequired)
           b == Each("prohibited", Select(persons, {p \in Range(persons) : p.requirement = "02"}))
           c == If(cfg.cumulative_number > 0 /\ Cardinality(tracking_sequences) # cfg.cumulative_number,
                   <<"number">>)
           d == If(cfg.ratio >= 0, Each("ratio", RatioTooSmall))
           e == If(cfg.num_of_people >= 0 /\ max_participants # <<>>, <<"people">>)
           f == If(cfg.stranger_warning_flag /\ strangers # <<>>, <<"stranger">>)
<1>1. Reasons = a \o b \o c \o d \o e \o f
  BY DEF Reasons
<1>2. AList(a) /\ a # <<>>
  BY ReportLists, EachList
<1>3. AList(b)
  BY ReportLists, SelectList, EachList
<1>4. \A x : AList(<<x>>)
  <2>1. ASSUME NEW x PROVE AList(<<x>>)
    <3>1. <<x>> \in Seq({x})
      OBVIOUS
    <3>2. QED BY <3>1, ListType
  <2>2. QED BY <2>1
<1>5. AList(c) /\ AList(e) /\ AList(f)
  BY <1>4, IfList
<1>6. AList(d)
  BY ReportLists, EachList, IfList
<1> HIDE DEF a, b, c, d, e, f
<1>7. Len(a) \in Nat /\ Len(a) > 0
  <2>1. a \in Seq(Range(a))
    BY <1>2 DEF AList
  <2>2. QED BY <1>2, <2>1
<1> DEFINE More(s) == AList(s) /\ Len(s) \in Nat /\ Len(s) > 0
<1>8. ASSUME NEW s, More(s), NEW t, AList(t) PROVE More(s \o t)
  <2>1. AList(s \o t) /\ Len(t) \in Nat /\ Len(s \o t) = Len(s) + Len(t)
    BY <1>8, ListConcat
  <2>2. QED BY <1>8, <2>1
<1>9. More(a)
  BY <1>2, <1>7
<1> HIDE DEF More
<1>10. More(a \o b)
  BY <1>3, <1>8, <1>9
<1>11. More(a \o b \o c)
  BY <1>5, <1>8, <1>10
<1>12. More(a \o b \o c \o d)
  BY <1>6, <1>8, <1>11
<1>13. More(a \o b \o c \o d \o e)
  BY <1>5, <1>8, <1>12
<1>14. More(Reasons)
  BY <1>1, <1>5, <1>8, <1>13
<1>15. Len(Reasons) > 0
  BY <1>14 DEF More
<1>16. Len(<<>>) = 0
  OBVIOUS
<1>17. QED BY <1>15, <1>16

\* Whoever is like the role is another role's.
OthersHave(M, role) ==
    \A t \in relation(role) : \E l \in 1 .. Len(M) :
      M[l].track = t /\ M[l].identity \in TaskRoles \ {role}

\* A role that got nobody is like only those that other roles have.
LEMMA Unheld ==
  ASSUME Inputs, NEW M, WellMapped(M), NEW k \in 1 .. Len(M), M[k].track = NoTrack,
         NEW role, M[k].identity = role
  PROVE  role \in TaskRoles /\ OthersHave(M, role)
<1>1. M[k].track \notin tracking_sequences /\ \A r : M[k].track \notin relation(r)
  <2>1. NoTrack \notin tracking_sequences /\ \A r : relation(r) \subseteq tracking_sequences
    BY Tracks
  <2>2. QED BY <2>1
<1>2. \/ M[k].identity \in TaskRoles /\ M[k].track \in relation(M[k].identity)
      \/ M[k].identity \in TaskRoles /\ OthersHave(M, M[k].identity)
      \/ M[k].identity = M[k].track /\ M[k].track \in tracking_sequences
  BY Zenon DEF WellMapped, OthersHave
<1>3. M[k].identity \in TaskRoles /\ OthersHave(M, M[k].identity)
  BY <1>1, <1>2
<1>4. QED BY <1>3

\* A sequence is one person's, and if that is nobody's of the task, no role that got nobody is like it.
LEMMA HeldOnce ==
  ASSUME Inputs, NEW t \in tracking_sequences, NEW M, M = identity_mapper
  PROVE  /\ Cardinality({i \in DOMAIN M : M[i].track = t}) = 1
         /\ \A i \in DOMAIN M : M[i].track = t /\ M[i].identity = t =>
              \A k \in DOMAIN M : M[k].track = NoTrack => ~Alike(t, M[k].identity)
<1>1. WellMapped(M)
  BY MapperGood
<1>2. DOMAIN M = 1 .. Len(M)
  BY <1>1, ListDomain DEF WellMapped
<1>3. PICK h \in 1 .. Len(M) : M[h].track = t /\ \A j \in 1 .. Len(M) : M[j].track = t => j = h
  BY <1>1 DEF WellMapped
<1>4. {i \in DOMAIN M : M[i].track = t} = {h}
  BY <1>2, <1>3
<1>5. Cardinality({h}) = 1
  BY FS_Singleton
<1>6. /\ t \notin TaskRoles /\ NoTrack \notin tracking_sequences
      /\ \A role : relation(role) \subseteq tracking_sequences
  BY Tracks
<1>7. ASSUME NEW i \in DOMAIN M, M[i].track = t, M[i].identity = t,
             NEW k \in DOMAIN M, M[k].track = NoTrack, Alike(t, M[k].identity)
      PROVE  FALSE
  <2>1. t \in relation(M[k].identity)
    BY <1>7 DEF relation
  <2>2. M[k].identity \in TaskRoles => \E l \in 1 .. Len(M) : M[l].track = t /\ M[l].identity \in TaskRoles
    <3>1. k \in 1 .. Len(M)
      BY <1>2, <1>7
    <3>2. OthersHave(M, M[k].identity)
      BY <1>1, <1>7, <3>1, Unheld
    <3>3. QED BY <2>1, <3>2 DEF OthersHave
  <2>3. M[k].identity \in TaskRoles
    BY <1>1, <1>2, <1>7, Unheld
  <2>4. PICK l \in 1 .. Len(M) : M[l].track = t /\ M[l].identity \in TaskRoles
    BY <2>2, <2>3
  <2>5. l = i
    BY <1>2, <1>3, <1>7, <2>4
  <2>6. QED BY <1>6, <1>7, <2>4, <2>5
<1>8. QED BY <1>4, <1>5, <1>7

\* Who had to appear is answered for.
LEMMA RoleAnswered ==
  ASSUME Inputs, NEW role \in TaskRoles \ VRoles, requirement(role) = "01", NEW M, M = identity_mapper
  PROVE  \/ \E i \in DOMAIN persons : persons[i].identity = role
         \/ role \in Range(MissingRequired) /\ Reasons # <<>>
         \/ \E t \in relation(role) : video_duration <= Kept(t)[1].start_time
         \/ /\ relation(role) # {}
            /\ \A t \in relation(role) : \E l \in DOMAIN M :
                 M[l].track = t /\ M[l].identity \in TaskRoles \ {role}
<1>1. WellMapped(M)
  BY MapperGood
<1>2. DOMAIN M = 1 .. Len(M) /\ AList(M)
  BY <1>1, ListDomain DEF WellMapped
<1>3. NoTrack \notin tracking_sequences /\ (\A r : relation(r) \subseteq tracking_sequences)
      /\ role \notin tracking_sequences
  BY Tracks
<1>4. CASE relation(role) = {}
  <2>1. role \in {r \in Roles(participants) : relation(r) = {} /\ requirement(r) = "01"}
    BY <1>4 DEF TaskRoles
  <2>2. Has(MissingRequired, role)
    BY <2>1, EachRoleOnce, SelectMembers DEF MissingRequired
  <2>3. AList(MissingRequired)
    BY ReportLists
  <2>4. role \in Range(MissingRequired)
    BY <2>2, <2>3, HasRange
  <2>5. MissingRequired # <<>>
    BY <2>2 DEF Has
  <2>6. QED BY <2>4, <2>5, MissingIsAReason
<1>5. CASE relation(role) # {}
  <2>1. PICK k \in 1 .. Len(M) : M[k].identity = role
    BY <1>1, <1>5 DEF WellMapped
  <2>2. M[k].track \in relation(role) \/ M[k].track = NoTrack
    BY <1>1, <1>3, <2>1 DEF WellMapped
  <2>3. CASE M[k].track = NoTrack
    <3>1. OthersHave(M, role)
      BY <1>1, <2>1, <2>3, Unheld
    <3>2. QED BY <1>2, <1>5, <3>1 DEF OthersHave
  <2>4. CASE M[k].track \in relation(role)
    <3> DEFINE t == M[k].track
               shown == Select(Present, {m \in Range(Present) : StoredTimes(m.track) # <<>>})
               e(i) == [identity |-> IF IsStranger(shown[i].identity) THEN "unknown" ELSE shown[i].identity,
                        requirement |-> RequirementOf(shown[i].identity),
                        times |-> StoredTimes(shown[i].track)]
    <3>1. t \in tracking_sequences /\ t # NoTrack
      BY <1>3, <2>4
    <3>2. CASE StoredTimes(t) = <<>>
      BY <2>4, <3>1, <3>2, StoredSomething
    <3>3. CASE StoredTimes(t) # <<>>
      <4>1. Has(M, M[k]) /\ M[k] \in Range(M)
        BY <1>2, HasRange DEF Has
      <4>2. Has(Present, M[k]) /\ AList(Present)
        <5>1. M \in Seq(Range(M)) /\ M[k] \in {m \in Range(M) : m.track # NoTrack}
          BY <1>2, <3>1, <4>1 DEF AList
        <5>2. Has(Select(M, {m \in Range(M) : m.track # NoTrack}), M[k])
          BY <4>1, <5>1, SelectMembers
        <5>3. QED BY <5>2, ReportLists DEF Present, HaveTrack
      <4>3. Has(shown, M[k]) /\ AList(shown)
        <5>1. Present \in Seq(Range(Present)) /\ M[k] \in Range(Present)
          BY <4>2, HasRange DEF AList
        <5>2. M[k] \in {m \in Range(Present) : StoredTimes(m.track) # <<>>}
          BY <3>3, <5>1
        <5>3. QED BY <4>2, <5>1, <5>2, SelectMembers, SelectList
      <4>4. persons = [i \in DOMAIN shown |-> e(i)]
        BY DEF persons, Described
      <4>5. DOMAIN shown = 1 .. Len(shown)
        BY <4>3, ListDomain
      <4> HIDE DEF shown
      <4>6. PICK i \in 1 .. Len(shown) : shown[i] = M[k]
        BY <4>3 DEF Has
      <4>7. ~IsStranger(role)
        BY DEF IsStranger, TaskRoles
      <4>8. e(i).identity = role
        BY <2>1, <4>6, <4>7
      <4> HIDE DEF e
      <4>9. i \in DOMAIN persons /\ persons[i].identity = role
        BY <4>4, <4>5, <4>8
      <4>10. QED BY <4>9
    <3>4. QED BY <3>2, <3>3
  <2>5. QED BY <2>2, <2>3, <2>4
<1>6. QED BY <1>4, <1>5

-----------------------------------------------------------------------------
(* Who is on screen *)

\* What is reversed twice is again patches that follow each other and last, with the units kept.
LEMMA TimesRow ==
  ASSUME Inputs, NEW t \in 1 .. Len(results)
  PROVE  /\ times(t) \in Seq(Span) /\ InARow(times(t)) /\ Lasting(times(t))
         /\ \A c \in Nat : c < video_duration => (UnitIn(times(t), c) <=> UnitIn(Kept(t), c))
<1>1. video_duration \in Nat
  BY PersonReportAssumption DEF Inputs
<1>2. Kept(t) \in Seq(Span) /\ InARow(Kept(t))
  BY KeptRow
<1> DEFINE lost == lost_time_patchs(t)
<1>3. /\ lost \in Seq(Span) /\ InARow(lost)
      /\ \A c \in Nat : c < video_duration => (UnitIn(lost, c) <=> ~UnitIn(Kept(t), c))
  BY <1>1, <1>2, ReversedExact DEF lost_time_patchs
<1>4. times(t) = get_reversed_time_patchs(lost, video_duration)
  BY DEF times
<1> HIDE DEF lost
<1>5. /\ times(t) \in Seq(Span) /\ InARow(times(t)) /\ Lasting(times(t))
      /\ \A c \in Nat : c < video_duration => (UnitIn(times(t), c) <=> ~UnitIn(lost, c))
  BY <1>1, <1>3, <1>4, ReversedExact
<1>6. QED BY <1>3, <1>5

\* Entries of the sequences of the tracker.
HasTracks(ms) == AList(ms) /\ \A i \in 1 .. Len(ms) : ms[i].track \in 1 .. Len(results)

\* The loop over the entries goes by turns.
LEMMA AllTimesSteps ==
  ASSUME Inputs, NEW ms, HasTracks(ms)
  PROVE  \E f \in [0 .. Len(ms) -> Seq(Span)] :
           /\ AllTimes(ms) = f[Len(ms)] /\ f[0] = <<>>
           /\ \A i \in 1 .. Len(ms) : f[i] = f[i - 1] \o times(ms[i].track)
<1> DEFINE n == Len(ms)
           T == Seq(Span)
           w == [i \in 1 .. n |-> times(ms[i].track)]
           Eq(f) == f = [i \in 0 .. n |-> IF i = 0 THEN <<>> ELSE f[i - 1] \o times(ms[i].track)]
           k == CHOOSE f : Eq(f)
           G == [i \in 1 .. n |-> [x \in T |-> x \o w[i]]]
<1>1. AllTimes(ms) = k[n]
  BY DEF AllTimes
<1>2. n \in Nat /\ <<>> \in T /\ \A x \in T, i \in 1 .. n : x \o w[i] \in T
  <2>1. n \in Nat /\ \A i \in 1 .. n : ms[i].track \in 1 .. Len(results)
    BY ListDomain DEF HasTracks
  <2>2. \A i \in 1 .. n : w[i] \in T
    BY <2>1, TimesRow
  <2> HIDE DEF w
  <2>3. QED BY <2>1, <2>2
<1> HIDE DEF T, k
<1>4. G \in [1 .. n -> [T -> T]] /\ \A x \in T, i \in 1 .. n : G[i][x] = x \o w[i]
  <2> HIDE DEF w
  <2>1. QED BY <1>2
<1>5. \A i \in 1 .. n : w[i] = times(ms[i].track)
  OBVIOUS
<1> HIDE DEF G, n, w
<1>6. PICK f \in [0 .. n -> T] : Iterates(f, n, <<>>, G)
  BY <1>2, <1>4, Iteration
<1>7. Eq(f)
  <2>1. f = [i \in 0 .. n |-> IF i = 0 THEN <<>> ELSE G[i][f[i - 1]]]
    BY <1>6 DEF Iterates
  <2>2. \A i \in 0 .. n : i # 0 => f[i] = f[i - 1] \o times(ms[i].track)
    <3> SUFFICES ASSUME NEW i \in 0 .. n, i # 0 PROVE f[i] = f[i - 1] \o times(ms[i].track)
      OBVIOUS
    <3>1. i \in 1 .. n /\ i - 1 \in 0 .. n
      BY <1>2
    <3>2. f[i - 1] \in T
      BY <3>1
    <3>3. f[i] = G[i][f[i - 1]]
      BY <2>1
    <3>4. G[i][f[i - 1]] = f[i - 1] \o w[i]
      BY <1>4, <3>1, <3>2
    <3>5. QED BY <1>5, <3>1, <3>3, <3>4
  <2>3. f[0] = <<>>
    BY <1>2, <2>1
  <2>4. QED BY <2>1, <2>2, <2>3
<1>8. Eq(k)
  BY <1>7 DEF k
<1>9. k[0] = <<>> /\ \A i \in 1 .. n : k[i] = k[i - 1] \o times(ms[i].track)
  <2>1. 0 \in 0 .. n /\ \A i \in 1 .. n : i \in 0 .. n /\ i # 0
    BY <1>2
  <2>2. QED BY <1>8, <2>1
<1>10. k = [i \in 0 .. n |-> k[i]]
  BY <1>8
<1>11. \A i \in 1 .. n : k[i - 1] \in T => k[i] \in T
  BY <1>2, <1>5, <1>9
<1>12. k \in [0 .. n -> T]
  BY <1>2, <1>9, <1>10, <1>11, StaysIn
<1>13. QED BY <1>1, <1>9, <1>12 DEF n, T

\* The entries whose sequences are on screen in the unit that starts at c.
Showing(ms, k, c) == {i \in 1 .. k : UnitIn(times(ms[i].track), c)}

\* All the times of all the entries, one list after the other: at each unit as many patches are
\* open as there are entries on screen.
LEMMA AllTimesOpen ==
  ASSUME Inputs, NEW ms, HasTracks(ms)
  PROVE  /\ AllTimes(ms) \in Seq(Span) /\ Lasting(AllTimes(ms))
         /\ \A c \in Nat : Cardinality(OpenAt(AllTimes(ms), c)) = Cardinality(Showing(ms, Len(ms), c))
<1> DEFINE n == Len(ms)
<1>1. PICK f \in [0 .. n -> Seq(Span)] :
        /\ AllTimes(ms) = f[n] /\ f[0] = <<>>
        /\ \A i \in 1 .. n : f[i] = f[i - 1] \o times(ms[i].track)
  BY AllTimesSteps
<1>2. n \in Nat /\ \A i \in 1 .. n : ms[i].track \in 1 .. Len(results)
  BY ListDomain DEF HasTracks
<1> DEFINE Same(i) == \A c \in Nat : Cardinality(OpenAt(f[i], c)) = Cardinality(Showing(ms, i, c))
           S == {i \in 0 .. n : Lasting(f[i]) /\ Same(i)}
<1>3. 0 \in S
  <2>1. f[0] = <<>>
    BY <1>1
  <2>2. \A c : OpenAt(f[0], c) = {} /\ Showing(ms, 0, c) = {}
    BY <2>1 DEF OpenAt, Showing
  <2>3. Same(0)
    BY <2>2
  <2>4. Lasting(f[0])
    BY <2>1 DEF Lasting
  <2>5. QED BY <1>2, <2>3, <2>4
<1>4. ASSUME NEW i \in 1 .. n, i - 1 \in S PROVE i \in S
  <2> DEFINE b == times(ms[i].track)
  <2>1. i \in 0 .. n /\ i - 1 \in 0 .. n /\ f[i - 1] \in Seq(Span) /\ Lasting(f[i - 1]) /\ Same(i - 1)
    BY <1>2, <1>4
  <2>2. b \in Seq(Span) /\ InARow(b) /\ Lasting(b)
    BY <1>2, TimesRow
  <2>3. f[i] = f[i - 1] \o b
    BY <1>1
  <2>4. /\ Lasting(f[i])
        /\ \A c \in Nat : Cardinality(OpenAt(f[i], c)) =
             Cardinality(OpenAt(f[i - 1], c)) + IF UnitIn(b, c) THEN 1 ELSE 0
    BY <2>1, <2>2, <2>3, OpenConcat
  <2>5. ASSUME NEW c \in Nat
        PROVE  Cardinality(OpenAt(f[i], c)) = Cardinality(Showing(ms, i, c))
    <3> DEFINE old == Showing(ms, i - 1, c)
    <3>1. \A j : j \in 1 .. i <=> j \in 1 .. i - 1 \/ j = i
      BY <1>2
    <3>2. i \notin 1 .. i - 1
      BY <1>2
    <3>3. Showing(ms, i, c) = IF UnitIn(b, c) THEN old \union {i} ELSE old
      BY <3>1 DEF Showing
    <3>4. i \notin old
      BY <3>2 DEF Showing
    <3>5. IsFiniteSet(old)
      <4>1. i - 1 \in Int /\ 1 \in Int
        BY <1>2
      <4>2. IsFiniteSet(1 .. i - 1)
        BY <4>1, FS_Interval
      <4>3. old \in SUBSET (1 .. i - 1)
        BY DEF Showing
      <4>4. QED BY <4>2, <4>3, FS_Subset
    <3> HIDE DEF old, b
    <3>6. Cardinality(old \union {i}) = Cardinality(old) + 1 /\ Cardinality(old) \in Nat
      BY <3>4, <3>5, FS_AddElement, FS_CardinalityType
    <3>7. Cardinality(OpenAt(f[i - 1], c)) = Cardinality(old)
      BY <2>1 DEF old
    <3>8. Cardinality(OpenAt(f[i], c)) = Cardinality(old) + IF UnitIn(b, c) THEN 1 ELSE 0
      BY <2>4, <3>7
    <3>9. QED BY <3>3, <3>6, <3>8
  <2>6. Same(i)
    BY <2>5
  <2> HIDE DEF Same
  <2>7. QED BY <2>1, <2>4, <2>6
<1> HIDE DEF S
<1>5. 0 .. n \subseteq S
  BY <1>2, <1>3, <1>4, UpTo
<1>6. n \in 0 .. n
  BY <1>2
<1>7. QED BY <1>1, <1>5, <1>6 DEF S

\* A list has a unit just when some patch of it is open there.
LEMMA UnitOpen ==
  ASSUME NEW ps \in Seq(Span), NEW c
  PROVE  /\ IsFiniteSet(OpenAt(ps, c)) /\ Cardinality(OpenAt(ps, c)) \in Nat
         /\ UnitIn(ps, c) <=> Cardinality(OpenAt(ps, c)) # 0
<1>1. IsFiniteSet(1 .. Len(ps))
  BY FS_Interval
<1>2. OpenAt(ps, c) \in SUBSET (1 .. Len(ps))
  BY DEF OpenAt
<1>3. IsFiniteSet(OpenAt(ps, c))
  BY <1>1, <1>2, FS_Subset
<1>4. Cardinality(OpenAt(ps, c)) = 0 <=> OpenAt(ps, c) = {}
  BY <1>3, FS_EmptySet
<1>5. UnitIn(ps, c) <=> OpenAt(ps, c) # {}
  BY DEF UnitIn, OpenAt, UnitOf
<1>6. QED BY <1>3, <1>4, <1>5, FS_CardinalityType

\* The patches of all entries have the units of each, and no other.
LEMMA AllTimesUnits ==
  ASSUME Inputs, NEW ms, HasTracks(ms), NEW c \in Nat
  PROVE  UnitIn(AllTimes(ms), c) <=> \E i \in 1 .. Len(ms) : UnitIn(times(ms[i].track), c)
<1> DEFINE X == Showing(ms, Len(ms), c)
<1>1. /\ AllTimes(ms) \in Seq(Span)
      /\ Cardinality(OpenAt(AllTimes(ms), c)) = Cardinality(X)
  BY AllTimesOpen
<1>2. UnitIn(AllTimes(ms), c) <=> Cardinality(X) # 0
  BY <1>1, UnitOpen
<1>3. Len(ms) \in Int /\ 1 \in Int
  BY ListDomain DEF HasTracks
<1>4. IsFiniteSet(1 .. Len(ms))
  BY <1>3, FS_Interval
<1>5. X \in SUBSET (1 .. Len(ms))
  BY DEF Showing
<1>6. IsFiniteSet(X)
  BY <1>4, <1>5, FS_Subset
<1>7. Cardinality(X) = 0 <=> X = {}
  BY <1>6, FS_EmptySet
<1>8. X # {} <=> \E i \in 1 .. Len(ms) : UnitIn(times(ms[i].track), c)
  BY DEF Showing
<1>9. QED BY <1>2, <1>7, <1>8

\* The entries that have a sequence have each of the tracker's that was kept just once.
LEMMA PresentOnce ==
  ASSUME Inputs
  PROVE  /\ AList(Present)
         /\ \A k \in 1 .. Len(Present) :
              /\ Present[k].track \in tracking_sequences
              /\ \E i \in 1 .. Len(identity_mapper) : identity_mapper[i] = Present[k]
         /\ \A k, l \in 1 .. Len(Present) : Present[k].track = Present[l].track => k = l
         /\ \A t \in tracking_sequences : \E k \in 1 .. Len(Present) : Present[k].track = t
<1> DEFINE M == identity_mapper
           R == {m \in Range(M) : m.track # NoTrack}
           X == Present
<1>1. WellMapped(M)
  BY MapperGood
<1>2. AList(M) /\ AList(X)
  BY <1>1, ReportLists DEF WellMapped
<1>3. NoTrack \notin tracking_sequences /\ \A r : relation(r) \subseteq tracking_sequences
  BY Tracks
<1>4. X = Select(M, R) /\ M \in Seq(Range(M))
  BY <1>2 DEF Present, HaveTrack, AList
<1>5. \A i \in 1 .. Len(M) : M[i] \in R <=> M[i].track # NoTrack
  <2>1. \A i \in 1 .. Len(M) : M[i] \in Range(M)
    BY <1>2, HasRange DEF Has
  <2>2. QED BY <2>1
<1>6. \A i \in 1 .. Len(M) : M[i].track # NoTrack => M[i].track \in tracking_sequences
  BY <1>1, <1>3 DEF WellMapped
<1>7. \A i, j \in 1 .. Len(M) : M[i].track = M[j].track /\ M[i].track # NoTrack => i = j
  <2> SUFFICES ASSUME NEW i \in 1 .. Len(M), NEW j \in 1 .. Len(M), M[i].track = M[j].track,
                      M[i].track # NoTrack
               PROVE  i = j
    OBVIOUS
  <2>1. M[i].track \in tracking_sequences
    BY <1>6
  <2>2. \A t \in tracking_sequences : \E h \in 1 .. Len(M) : \A l \in 1 .. Len(M) : M[l].track = t => l = h
    <3> HIDE DEF M
    <3>1. QED BY <1>1 DEF WellMapped
  <2>3. PICK h \in 1 .. Len(M) : \A l \in 1 .. Len(M) : M[l].track = M[i].track => l = h
    BY <2>1, <2>2
  <2>4. QED BY <2>3
<1>8. \A x : Has(X, x) <=> x \in R /\ Has(M, x)
  BY <1>4, SelectMembers
<1>9. OnceIn(M, R)
  BY <1>5, <1>7 DEF OnceIn
<1>10. Distinct(X)
  BY <1>4, <1>9, SelectOnce
<1> HIDE DEF M, R, X
<1>11. \A k \in 1 .. Len(X) : \E i \in 1 .. Len(M) : M[i] = X[k] /\ M[i].track # NoTrack
  <2> SUFFICES ASSUME NEW k \in 1 .. Len(X)
               PROVE  \E i \in 1 .. Len(M) : M[i] = X[k] /\ M[i].track # NoTrack
    OBVIOUS
  <2>1. Has(M, X[k]) /\ X[k] \in R
    BY <1>8 DEF Has
  <2>2. PICK i \in 1 .. Len(M) : M[i] = X[k]
    BY <2>1 DEF Has
  <2>3. QED BY <1>5, <2>1, <2>2
<1>12. \A k, l \in 1 .. Len(X) : X[k].track = X[l].track => k = l
  <2> SUFFICES ASSUME NEW k \in 1 .. Len(X), NEW l \in 1 .. Len(X), X[k].track = X[l].track
               PROVE  k = l
    OBVIOUS
  <2>1. PICK i \in 1 .. Len(M) : M[i] = X[k] /\ M[i].track # NoTrack
    BY <1>11
  <2>2. PICK j \in 1 .. Len(M) : M[j] = X[l] /\ M[j].track # NoTrack
    BY <1>11
  <2>3. i = j
    BY <1>7, <2>1, <2>2
  <2>4. QED BY <1>10, <2>1, <2>2, <2>3 DEF Distinct
<1>13. \A t \in tracking_sequences : \E k \in 1 .. Len(X) : X[k].track = t
  <2> SUFFICES ASSUME NEW t \in tracking_sequences PROVE \E k \in 1 .. Len(X) : X[k].track = t
    OBVIOUS
  <2>1. PICK i \in 1 .. Len(M) : M[i].track = t
    BY <1>1 DEF WellMapped
  <2>2. t # NoTrack
    BY <1>3
  <2>3. Has(X, M[i])
    BY <1>5, <1>8, <2>1, <2>2 DEF Has
  <2>4. QED BY <2>1, <2>3 DEF Has
<1>14. QED BY <1>2, <1>6, <1>11, <1>12, <1>13 DEF M, X

\* The entries that count as strangers.
Strange == Select(Present, {m \in Range(Present) : IsStranger(m.identity)})

\* Both lists have tracks of the tracker, and the strangers' are those of strangers.
LEMMA StrangeOnes ==
  ASSUME Inputs
  PROVE  /\ HasTracks(Present) /\ HasTracks(Strange)
         /\ \A m : Has(Strange, m) <=> Has(Present, m) /\ IsStranger(m.identity)
<1>1. /\ AList(Present) /\ \A k \in 1 .. Len(Present) : Present[k].track \in tracking_sequences
  BY PresentOnce
<1>2. tracking_sequences \subseteq 1 .. Len(results)
  BY Tracks
<1>3. HasTracks(Present)
  BY <1>1, <1>2 DEF HasTracks
<1> DEFINE R == {m \in Range(Present) : IsStranger(m.identity)}
<1>4. AList(Strange)
  BY <1>1, SelectList DEF Strange
<1>5. ASSUME NEW m PROVE Has(Strange, m) <=> Has(Present, m) /\ IsStranger(m.identity)
  <2>1. Present \in Seq(Range(Present))
    BY <1>1 DEF AList
  <2>2. Has(Select(Present, R), m) <=> m \in R /\ Has(Present, m)
    BY <2>1, SelectMembers
  <2>3. Has(Present, m) => m \in Range(Present)
    BY <1>1, HasRange
  <2>4. QED BY <2>2, <2>3 DEF Strange
<1>6. ASSUME NEW i \in 1 .. Len(Strange) PROVE Strange[i].track \in 1 .. Len(results)
  <2>1. Has(Present, Strange[i])
    BY <1>5 DEF Has
  <2>2. QED BY <1>3, <2>1 DEF Has, HasTracks
<1>7. QED BY <1>3, <1>4, <1>5, <1>6 DEF HasTracks

\* As many patches of the entries are open in a unit as there are sequences on screen.
LEMMA OnScreenCount ==
  ASSUME Inputs, NEW c \in Nat, c < video_duration
  PROVE  Cardinality(OpenAt(AllTimes(Present), c))
           = Cardinality({t \in tracking_sequences : UnitIn(Kept(t), c)})
<1> DEFINE n == Len(Present)
           S == Showing(Present, n, c)
           T == {t \in tracking_sequences : UnitIn(Kept(t), c)}
           f == [k \in S |-> Present[k].track]
<1>1. Cardinality(OpenAt(AllTimes(Present), c)) = Cardinality(S)
  BY StrangeOnes, AllTimesOpen
<1>2. /\ \A k \in 1 .. n : Present[k].track \in tracking_sequences
      /\ \A k, l \in 1 .. n : Present[k].track = Present[l].track => k = l
      /\ \A t \in tracking_sequences : \E k \in 1 .. n : Present[k].track = t
  BY PresentOnce
<1>3. \A t \in tracking_sequences : UnitIn(times(t), c) <=> UnitIn(Kept(t), c)
  <2>1. tracking_sequences \subseteq 1 .. Len(results)
    BY Tracks
  <2>2. QED BY <2>1, TimesRow
<1>4. IsFiniteSet(S)
  <2>1. n \in Int /\ 1 \in Int
    BY PresentOnce, ListDomain
  <2>2. IsFiniteSet(1 .. n)
    BY <2>1, FS_Interval
  <2>3. S \in SUBSET (1 .. n)
    BY DEF Showing
  <2>4. QED BY <2>2, <2>3, FS_Subset
<1>5. \A k : k \in S <=> k \in 1 .. n /\ UnitIn(times(Present[k].track), c)
  BY DEF Showing
<1>6. \A k \in S : f[k] = Present[k].track
  OBVIOUS
<1>7. f \in [S -> T]
  <2>1. \A k \in S : Present[k].track \in T
    BY <1>2, <1>3, <1>5
  <2> HIDE DEF S, T
  <2>2. QED BY <2>1
<1>8. \A x, y \in S : f[x] = f[y] => x = y
  BY <1>2, <1>5, <1>6
<1>9. \A t \in T : \E k \in S : f[k] = t
  <2> SUFFICES ASSUME NEW t \in T PROVE \E k \in S : f[k] = t
    OBVIOUS
  <2>1. PICK k \in 1 .. n : Present[k].track = t
    BY <1>2
  <2>2. k \in S
    BY <1>3, <1>5, <2>1
  <2>3. QED BY <1>6, <2>1, <2>2
<1> HIDE DEF S, T, f
<1>10. Cardinality(S) = Cardinality(T)
  BY <1>4, <1>7, <1>8, <1>9, SameSize
<1>11. QED BY <1>1, <1>10 DEF T

\* What the check of strangers finds: the units in which one of them is on screen.
LEMMA StrangersShown ==
  ASSUME Inputs
  PROVE  /\ strangers \in Seq(PatchType) /\ Lasting(strangers)
         /\ \A c \in Nat : c < video_duration =>
              (UnitIn(strangers, c) <=>
                 \E i \in 1 .. Len(identity_mapper) :
                   /\ identity_mapper[i].track \in tracking_sequences
                   /\ IsStranger(identity_mapper[i].identity)
                   /\ UnitIn(Kept(identity_mapper[i].track), c))
<1> DEFINE M == identity_mapper
           all == AllTimes(Strange)
<1>1. HasTracks(Strange) /\ \A m : Has(Strange, m) <=> Has(Present, m) /\ IsStranger(m.identity)
  BY StrangeOnes
<1>2. all \in Seq(Span) /\ Lasting(all)
  BY <1>1, AllTimesOpen
<1>3. Seq(Span) \subseteq Seq(PatchType)
  <2>1. Span \subseteq PatchType
    BY DEF Span, PatchType
  <2>2. QED BY <2>1
<1>4. strangers = merge_intervals(all)
  BY DEF strangers, Strange
<1>5. /\ strangers \in Seq(PatchType) /\ Lasting(strangers)
      /\ \A c \in Int : UnitIn(strangers, c) <=> UnitIn(all, c)
  <2> HIDE DEF all
  <2>1. all \in Seq(PatchType)
    BY <1>2, <1>3
  <2>2. QED BY <1>2, <1>4, <2>1, MergedUnits
<1>6. ASSUME NEW c \in Nat
      PROVE  UnitIn(all, c) <=> \E i \in 1 .. Len(Strange) : UnitIn(times(Strange[i].track), c)
  BY <1>1, AllTimesUnits
<1> HIDE DEF all
<1>7. ASSUME NEW m
      PROVE  Has(Present, m) <=> m.track \in tracking_sequences /\ \E i \in 1 .. Len(M) : M[i] = m
  <2>1. Has(Present, m) => m.track \in tracking_sequences /\ \E i \in 1 .. Len(M) : M[i] = m
    BY PresentOnce DEF Has
  <2>2. ASSUME m.track \in tracking_sequences, NEW i \in 1 .. Len(M), M[i] = m
        PROVE  Has(Present, m)
    <3>1. PICK k \in 1 .. Len(Present) : Present[k].track = m.track
      BY <2>2, PresentOnce
    <3>2. PICK j \in 1 .. Len(M) : M[j] = Present[k]
      BY PresentOnce
    <3>3. WellMapped(M)
      BY MapperGood
    <3>4. PICK h \in 1 .. Len(M) : \A l \in 1 .. Len(M) : M[l].track = m.track => l = h
      BY <2>2, <3>3 DEF WellMapped
    <3>5. i = j
      BY <2>2, <3>1, <3>2, <3>4
    <3>6. QED BY <2>2, <3>2, <3>5 DEF Has
  <2>3. QED BY <2>1, <2>2
<1>8. \A t \in tracking_sequences, c \in Nat :
        c < video_duration => (UnitIn(times(t), c) <=> UnitIn(Kept(t), c))
  <2>1. tracking_sequences \subseteq 1 .. Len(results)
    BY Tracks
  <2>2. QED BY <2>1, TimesRow
<1> HIDE DEF M
<1>9. ASSUME NEW c \in Nat, c < video_duration
      PROVE  UnitIn(strangers, c) <=>
               \E i \in 1 .. Len(M) : /\ M[i].track \in tracking_sequences /\ IsStranger(M[i].identity)
                                      /\ UnitIn(Kept(M[i].track), c)
  <2>1. UnitIn(strangers, c) <=> \E i \in 1 .. Len(Strange) : UnitIn(times(Strange[i].track), c)
    BY <1>5, <1>6
  <2>2. ASSUME NEW i \in 1 .. Len(Strange), UnitIn(times(Strange[i].track), c)
        PROVE  \E j \in 1 .. Len(M) : /\ M[j].track \in tracking_sequences /\ IsStranger(M[j].identity)
                                      /\ UnitIn(Kept(M[j].track), c)
    <3>1. Has(Present, Strange[i]) /\ IsStranger(Strange[i].identity)
      BY <1>1 DEF Has
    <3>2. PICK j \in 1 .. Len(M) : M[j] = Strange[i] /\ M[j].track \in tracking_sequences
      BY <1>7, <3>1
    <3>3. UnitIn(Kept(M[j].track), c)
      BY <1>8, <1>9, <2>2, <3>2
    <3>4. QED BY <3>1, <3>2, <3>3
  <2>3. ASSUME NEW j \in 1 .. Len(M), M[j].track \in tracking_sequences, IsStranger(M[j].identity),
               UnitIn(Kept(M[j].track), c)
        PROVE  \E i \in 1 .. Len(Strange) : UnitIn(times(Strange[i].track), c)
    <3>1. Has(Strange, M[j])
      BY <1>1, <1>7, <2>3
    <3>2. PICK i \in 1 .. Len(Strange) : Strange[i] = M[j]
      BY <3>1 DEF Has
    <3>3. UnitIn(times(M[j].track), c)
      BY <1>8, <1>9, <2>3
    <3>4. QED BY <3>2, <3>3
  <2>4. QED BY <2>1, <2>2, <2>3
<1>10. QED BY <1>5, <1>9 DEF M

\* What the check of numbers finds: the units with more than num_of_people on screen.
LEMMA CrowdShown ==
  ASSUME Inputs, cfg.num_of_people >= 0
  PROVE  /\ max_participants \in Seq(Span) /\ Lasting(max_participants)
         /\ \A c \in Nat : c < video_duration =>
              (UnitIn(max_participants, c) <=>
                 Cardinality({t \in tracking_sequences : UnitIn(Kept(t), c)}) > cfg.num_of_people)
<1> DEFINE num == cfg.num_of_people
<1>1. num \in Nat
  BY PersonReportAssumption DEF Inputs
<1>2. AllTimes(Present) \in Seq(Span) /\ Lasting(AllTimes(Present))
  BY StrangeOnes, AllTimesOpen
<1>3. max_participants = get_time_patch_count(AllTimes(Present), num)
  BY DEF max_participants
<1> HIDE DEF num
<1>4. /\ max_participants \in Seq(Span) /\ Lasting(max_participants)
      /\ \A c \in Nat : UnitIn(max_participants, c) <=> Cardinality(OpenAt(AllTimes(Present), c)) > num
  BY <1>1, <1>2, <1>3, CountExact
<1>5. QED BY <1>4, OnScreenCount DEF num

\* Patches that last, in one list or the other, last.
LEMMA BothLast ==
  ASSUME NEW a \in Seq(PatchType), NEW b \in Seq(PatchType), Lasting(a), Lasting(b)
  PROVE  \A p \in Range(a \o b) : get_duration(p) > 0
<1> SUFFICES ASSUME NEW p \in Range(a \o b) PROVE get_duration(p) > 0
  OBVIOUS
<1>1. a \o b \in Seq(PatchType)
  OBVIOUS
<1>2. PICK i \in 1 .. Len(a \o b) : (a \o b)[i] = p
  BY <1>1, MemberType DEF Range
<1>3. \/ i \in 1 .. Len(a) /\ p = a[i]
      \/ i - Len(a) \in 1 .. Len(b) /\ p = b[i - Len(a)]
  BY <1>2
<1>4. p \in PatchType
  BY <1>1, <1>2, MemberType
<1>5. p.start_time < p.end_time
  BY <1>3 DEF Lasting
<1>6. QED BY <1>4, <1>5 DEF get_duration, PatchType

-----------------------------------------------------------------------------
(* The theorems about the report *)

\* What the report is made from stays as it was.
LEMMA SameInputs ==
  ASSUME UNCHANGED <<results, participants, similarity, cfg, video_duration>>
  PROVE  /\ tracking_sequences' = tracking_sequences /\ TaskRoles' = TaskRoles
         /\ \A t : Kept(t)' = Kept(t)
         /\ \A t, role : Alike(t, role)' = Alike(t, role)
         /\ \A role : relation(role)' = relation(role) /\ requirement(role)' = requirement(role)
         /\ Inputs' = Inputs /\ video_duration' = video_duration
<1>1. MinInterval' = MinInterval
  BY DEF MinInterval
<1>2. ASSUME NEW t PROVE Kept(t)' = Kept(t)
  BY <1>1 DEF Kept
<1>3. tracking_sequences' = tracking_sequences
  BY <1>2 DEF tracking_sequences
<1>4. verification_threshold' = verification_threshold
  BY DEF verification_threshold
<1>5. ASSUME NEW t, NEW role PROVE Alike(t, role)' = Alike(t, role)
  BY <1>4 DEF Alike
<1>6. ASSUME NEW role PROVE relation(role)' = relation(role)
  BY <1>3, <1>5 DEF relation
<1>7. ASSUME NEW role PROVE requirement(role)' = requirement(role)
  BY DEF requirement
<1>8. TaskRoles' = TaskRoles
  BY DEF TaskRoles
<1>9. Inputs' = Inputs
  BY <1>8 DEF Inputs
<1>10. QED BY <1>2, <1>3, <1>5, <1>6, <1>7, <1>8, <1>9

\* What a report with the mapper M and these lists must say of the unit that starts at c.
ExactAt(M, odd, many, c) ==
    /\ \A t \in tracking_sequences : Shows(Kept(t), c) <=> Shows(StoredTimes(t), c)
    /\ cfg.stranger_warning_flag =>
         (Shows(odd, c) <=> \E t \in tracking_sequences :
            /\ Shows(Kept(t), c)
            /\ IsStranger(M[CHOOSE i \in {k \in DOMAIN M : M[k].track = t} : TRUE].identity))
    /\ cfg.num_of_people >= 0 =>
         (Shows(many, c) <=>
            Cardinality({t \in tracking_sequences : Shows(Kept(t), c)}) > cfg.num_of_people)
    /\ \A p \in Range(many \o odd) : get_duration(p) > 0

\* A list shows the units it has.
LEMMA ShowsUnits ==
  ASSUME NEW A, NEW ps \in Seq(A), NEW c
  PROVE  Shows(ps, c) <=> UnitIn(ps, c)
BY DEF Shows, UnitIn

\* The lists of the report say just what there is to see.
LEMMA ListsExact ==
  ASSUME Inputs, NEW c \in Nat, c < video_duration
  PROVE  ExactAt(identity_mapper, If(cfg.stranger_warning_flag, strangers),
                 If(cfg.num_of_people >= 0, max_participants), c)
<1> DEFINE M == identity_mapper
           odd == If(cfg.stranger_warning_flag, strangers)
           many == If(cfg.num_of_people >= 0, max_participants)
           one(t) == CHOOSE i \in {k \in DOMAIN M : M[k].track = t} : TRUE
<1>1. tracking_sequences \subseteq 1 .. Len(results)
  BY Tracks
<1>2. ASSUME NEW t \in tracking_sequences PROVE Shows(Kept(t), c) <=> UnitIn(Kept(t), c)
  <2>1. Kept(t) \in Seq(Span)
    BY <1>1, KeptRow
  <2>2. QED BY <2>1, ShowsUnits
<1>3. ASSUME NEW t \in tracking_sequences PROVE Shows(StoredTimes(t), c) <=> UnitIn(Kept(t), c)
  <2>1. StoredTimes(t) \in Seq(Span) /\ (UnitIn(StoredTimes(t), c) <=> UnitIn(Kept(t), c))
    BY <1>1, StoredExact
  <2>2. QED BY <2>1, ShowsUnits
<1>4. odd \in Seq(PatchType) /\ Lasting(odd)
      /\ (cfg.stranger_warning_flag => (Shows(odd, c) <=> UnitIn(strangers, c)))
  <2>1. strangers \in Seq(PatchType) /\ Lasting(strangers)
    BY StrangersShown
  <2>2. <<>> \in Seq(PatchType) /\ Lasting(<<>>)
    BY DEF Lasting
  <2>3. odd = IF cfg.stranger_warning_flag THEN strangers ELSE <<>>
    BY DEF If
  <2> HIDE DEF odd
  <2>4. odd \in Seq(PatchType) /\ Lasting(odd)
    BY <2>1, <2>2, <2>3
  <2>5. QED BY <2>3, <2>4, ShowsUnits
<1>5. many \in Seq(PatchType) /\ Lasting(many)
      /\ (cfg.num_of_people >= 0 => (Shows(many, c) <=> UnitIn(max_participants, c)))
  <2>1. cfg.num_of_people >= 0 => max_participants \in Seq(Span) /\ Lasting(max_participants)
    BY CrowdShown
  <2>2. <<>> \in Seq(PatchType) /\ Lasting(<<>>)
    BY DEF Lasting
  <2>3. Seq(Span) \subseteq Seq(PatchType)
    <3>1. Span \subseteq PatchType
      BY DEF Span, PatchType
    <3>2. QED BY <3>1
  <2>4. many = IF cfg.num_of_people >= 0 THEN max_participants ELSE <<>>
    BY DEF If
  <2> HIDE DEF many
  <2>5. many \in Seq(PatchType) /\ Lasting(many)
    BY <2>1, <2>2, <2>3, <2>4
  <2>6. QED BY <2>4, <2>5, ShowsUnits
<1>6. \A p \in Range(many \o odd) : get_duration(p) > 0
  <2> HIDE DEF many, odd
  <2>1. QED BY <1>4, <1>5, BothLast
<1>7. ASSUME cfg.num_of_people >= 0
      PROVE  Shows(many, c) <=>
               Cardinality({t \in tracking_sequences : Shows(Kept(t), c)}) > cfg.num_of_people
  <2>1. {t \in tracking_sequences : Shows(Kept(t), c)} = {t \in tracking_sequences : UnitIn(Kept(t), c)}
    BY <1>2
  <2>2. QED BY <1>5, <1>7, <2>1, CrowdShown
<1> HIDE DEF many
<1>8. WellMapped(M)
  BY MapperGood
<1>9. DOMAIN M = 1 .. Len(M)
  BY <1>8, ListDomain DEF WellMapped
<1>10. \A t \in tracking_sequences : one(t) \in DOMAIN M /\ M[one(t)].track = t
  BY <1>8, <1>9 DEF WellMapped
<1>11. ASSUME NEW i \in 1 .. Len(M), M[i].track \in tracking_sequences PROVE one(M[i].track) = i
  <2>1. PICK h \in 1 .. Len(M) : \A j \in 1 .. Len(M) : M[j].track = M[i].track => j = h
    BY <1>8, <1>11 DEF WellMapped
  <2>2. QED BY <1>9, <1>10, <1>11, <2>1
<1>12. ASSUME cfg.stranger_warning_flag
       PROVE  Shows(odd, c) <=>
                \E t \in tracking_sequences : Shows(Kept(t), c) /\ IsStranger(M[one(t)].identity)
  <2> DEFINE Odd(i) == /\ M[i].track \in tracking_sequences /\ IsStranger(M[i].identity)
                       /\ UnitIn(Kept(M[i].track), c)
  <2>1. Shows(odd, c) <=> \E i \in 1 .. Len(M) : Odd(i)
    BY <1>4, <1>12, StrangersShown
  <2> HIDE DEF odd, M, one
  <2>2. ASSUME NEW i \in 1 .. Len(M), Odd(i)
        PROVE  \E t \in tracking_sequences : Shows(Kept(t), c) /\ IsStranger(M[one(t)].identity)
    BY <1>2, <1>11, <2>2
  <2>3. ASSUME NEW t \in tracking_sequences, Shows(Kept(t), c), IsStranger(M[one(t)].identity)
        PROVE  \E i \in 1 .. Len(M) : Odd(i)
    BY <1>2, <1>9, <1>10, <2>3
  <2>4. QED BY <2>1, <2>2, <2>3
<1> HIDE DEF odd
<1>13. QED BY <1>2, <1>3, <1>6, <1>7, <1>12 DEF ExactAt, odd, many

\* The property, unit by unit.
ExactAlong ==
    Checked /\ video_duration > 0 =>
      \A c \in 0 .. video_duration - 1 :
        ExactAt(report.mapper, report.strangers, report.max_participants, c)

\* The two say the same.
LEMMA TimesExactAt == TimesExact <=> ExactAlong
<1> DEFINE M == report.mapper
           here(c) == {t \in tracking_sequences : Shows(Kept(t), c)}
           one(t) == CHOOSE i \in {k \in DOMAIN M : M[k].track = t} : TRUE
           A(c) == \A t \in tracking_sequences : t \in here(c) <=> Shows(StoredTimes(t), c)
           B(c) == cfg.stranger_warning_flag =>
                     (Shows(report.strangers, c) <=> \E t \in here(c) : IsStranger(M[one(t)].identity))
           C(c) == cfg.num_of_people >= 0 =>
                     (Shows(report.max_participants, c) <=> Cardinality(here(c)) > cfg.num_of_people)
           D == \A p \in Range(report.max_participants \o report.strangers) : get_duration(p) > 0
           E(c) == ExactAt(M, report.strangers, report.max_participants, c)
<1>1. TimesExact <=> (Checked /\ video_duration > 0 =>
        \A c \in 0 .. video_duration - 1 : A(c) /\ B(c) /\ C(c) /\ D)
  BY DEF TimesExact, Holders
<1>2. ASSUME NEW c PROVE E(c) <=> A(c) /\ B(c) /\ C(c) /\ D
  BY DEF ExactAt
<1> HIDE DEF A, B, C, D, E
<1>3. QED BY <1>1, <1>2 DEF E, M, ExactAlong

\* So do the times of the sequences and who is a stranger.
LEMMA SameShown ==
  ASSUME UNCHANGED <<results, participants, similarity, cfg, video_duration>>
  PROVE  /\ tracking_sequences' = tracking_sequences /\ cfg' = cfg /\ video_duration' = video_duration
         /\ \A t : Kept(t)' = Kept(t) /\ StoredTimes(t)' = StoredTimes(t)
         /\ \A x : IsStranger(x)' <=> IsStranger(x)
<1>1. /\ tracking_sequences' = tracking_sequences /\ \A t : Kept(t)' = Kept(t)
      /\ video_duration' = video_duration
  BY SameInputs
<1>2. ASSUME NEW t PROVE lost_time_patchs(t)' = lost_time_patchs(t)
  BY <1>1 DEF lost_time_patchs
<1>3. ASSUME NEW t PROVE times(t)' = times(t)
  BY <1>1, <1>2 DEF times
<1>4. ASSUME NEW t PROVE StoredTimes(t)' = StoredTimes(t)
  BY <1>1, <1>2, <1>3 DEF StoredTimes
<1>5. ASSUME NEW x PROVE IsStranger(x)' <=> IsStranger(x)
  BY DEF IsStranger
<1>6. QED BY <1>1, <1>4, <1>5

\* What the report that run makes says of each unit of the video.
LEMMA RunTimes ==
  ASSUME Inputs, run
  PROVE  TimesExact'
<1>1. UNCHANGED <<results, participants, similarity, cfg, video_duration>>
  BY DEF run
<1> DEFINE odd == If(cfg.stranger_warning_flag, strangers)
           many == If(cfg.num_of_people >= 0, max_participants)
<1>2. report'.mapper = identity_mapper /\ report'.strangers = odd /\ report'.max_participants = many
  BY DEF run
<1>3. \A c \in 0 .. video_duration - 1 : ExactAt(identity_mapper, odd, many, c)
  <2>1. \A c \in 0 .. video_duration - 1 : c \in Nat /\ c < video_duration
    <3>1. video_duration \in Nat
      BY PersonReportAssumption DEF Inputs
    <3>2. QED BY <3>1
  <2>2. QED BY <2>1, ListsExact
<1> HIDE DEF odd, many
<1>4. /\ tracking_sequences' = tracking_sequences /\ cfg' = cfg /\ video_duration' = video_duration
      /\ \A t : Kept(t)' = Kept(t) /\ StoredTimes(t)' = StoredTimes(t)
      /\ \A x : IsStranger(x)' <=> IsStranger(x)
  BY <1>1, SameShown
<1>5. ASSUME NEW x, NEW y, NEW z, NEW c PROVE ExactAt(x, y, z, c)' <=> ExactAt(x, y, z, c)
  BY <1>4 DEF ExactAt
<1>6. TimesExact' <=> ExactAlong'
  BY TimesExactAt, PTL
<1>7. ExactAlong'
  BY <1>2, <1>3, <1>4, <1>5 DEF ExactAlong
<1>8. QED BY <1>6, <1>7

\* The inputs are as they were, and what the report says follows from them.
ReportInv == Inputs /\ OnePersonEach /\ RequiredAnswered /\ TimesExact

\* A video without a report has nothing wrong in it.
LEMMA ReportStarts ==
  ASSUME ReportInit
  PROVE  ReportInv
<1>1. Inputs
  BY DEF ReportInit, Inputs, TaskRoles
<1>2. ~Checked
  BY DEF ReportInit, Unset, Checked
<1>3. QED BY <1>1, <1>2 DEF ReportInv, OnePersonEach, RequiredAnswered, TimesExact

\* The report that run makes gives each sequence to one.
LEMMA RunGivesOnce ==
  ASSUME Inputs, run
  PROVE  OnePersonEach'
<1> DEFINE M == identity_mapper
<1>1. UNCHANGED <<results, participants, similarity, cfg, video_duration>> /\ report'.mapper = M
  BY DEF run
<1>2. tracking_sequences' = tracking_sequences /\ \A t, role : Alike(t, role)' = Alike(t, role)
  BY <1>1, SameInputs
<1> HIDE DEF M
<1> SUFFICES ASSUME NEW t \in tracking_sequences
             PROVE  /\ Cardinality(Holders(t)') = 1
                    /\ \A i \in Holders(t)' : report'.mapper[i].identity = t =>
                         \A k \in DOMAIN report'.mapper : report'.mapper[k].track = NoTrack =>
                           ~Alike(t, report'.mapper[k].identity)
  BY <1>2 DEF OnePersonEach
<1>3. Holders(t)' = {i \in DOMAIN M : M[i].track = t}
  BY <1>1 DEF Holders
<1>4. /\ Cardinality({i \in DOMAIN M : M[i].track = t}) = 1
      /\ \A i \in DOMAIN M : M[i].track = t /\ M[i].identity = t =>
           \A k \in DOMAIN M : M[k].track = NoTrack => ~Alike(t, M[k].identity)
  BY HeldOnce DEF M
<1>5. QED BY <1>1, <1>3, <1>4

\* The report that run makes answers for who had to appear.
LEMMA RunAnswers ==
  ASSUME Inputs, run
  PROVE  RequiredAnswered'
<1> DEFINE M == identity_mapper
<1>1. UNCHANGED <<results, participants, similarity, cfg, video_duration>>
  BY DEF run
<1>2. /\ report'.mapper = M /\ report'.persons = persons /\ report'.missing = MissingRequired
      /\ Reasons # <<>> => report'.status = 1
  BY DEF run
<1>3. /\ video_duration' = video_duration /\ TaskRoles' = TaskRoles /\ \A t : Kept(t)' = Kept(t)
      /\ \A role : relation(role)' = relation(role) /\ requirement(role)' = requirement(role)
  BY <1>1, SameInputs
<1> HIDE DEF M
<1>4. \A t : Holders(t)' = {i \in DOMAIN M : M[i].track = t}
  BY <1>2 DEF Holders
<1> DEFINE Answer(role) ==
      \/ \E i \in DOMAIN report'.persons : report'.persons[i].identity = role
      \/ role \in Range(report'.missing) /\ report'.status = 1
      \/ \E t \in relation(role) : video_duration <= Kept(t)[1].start_time
      \/ /\ relation(role) # {}
         /\ \A t \in relation(role) : \E i \in Holders(t)' :
              report'.mapper[i].identity \in TaskRoles \ {role}
<1>5. ASSUME NEW role \in TaskRoles \ VRoles, requirement(role) = "01" PROVE Answer(role)
  <2>1. \/ \E i \in DOMAIN persons : persons[i].identity = role
        \/ role \in Range(MissingRequired) /\ Reasons # <<>>
        \/ \E t \in relation(role) : video_duration <= Kept(t)[1].start_time
        \/ /\ relation(role) # {}
           /\ \A t \in relation(role) : \E l \in DOMAIN M :
                M[l].track = t /\ M[l].identity \in TaskRoles \ {role}
    BY <1>5, RoleAnswered DEF M
  <2>2. ASSUME NEW t, NEW l \in DOMAIN M, M[l].track = t, M[l].identity \in TaskRoles \ {role}
        PROVE  \E i \in Holders(t)' : report'.mapper[i].identity \in TaskRoles \ {role}
    BY <1>2, <1>4, <2>2
  <2>3. QED BY <1>2, <2>1, <2>2
<1>6. QED BY <1>3, <1>5 DEF RequiredAnswered, TaskRoles

\* Every step keeps it.
LEMMA ReportKeeps ==
  ASSUME ReportInv, [ReportNext]_report_vars
  PROVE  ReportInv'
<1>1. Inputs'
  <2>1. UNCHANGED <<results, participants, similarity, cfg, video_duration>>
    BY DEF ReportNext, run, report_vars
  <2>2. QED BY <2>1, SameInputs DEF ReportInv
<1>2. CASE run
  BY <1>1, <1>2, RunGivesOnce, RunAnswers, RunTimes DEF ReportInv
<1>3. CASE UNCHANGED report_vars
  <2>1. report' = report /\ UNCHANGED <<results, participants, similarity, cfg, video_duration>>
    BY <1>3 DEF report_vars
  <2>2. /\ video_duration' = video_duration /\ TaskRoles' = TaskRoles /\ \A t : Kept(t)' = Kept(t)
        /\ tracking_sequences' = tracking_sequences /\ \A t, role : Alike(t, role)' = Alike(t, role)
        /\ \A role : relation(role)' = relation(role) /\ requirement(role)' = requirement(role)
    BY <2>1, SameInputs
  <2>3. (Checked' <=> Checked) /\ \A t : Holders(t)' = Holders(t)
    BY <2>1 DEF Checked, Holders
  <2>4. OnePersonEach'
    BY <2>1, <2>2, <2>3 DEF ReportInv, OnePersonEach
  <2>5. RequiredAnswered'
    BY <2>1, <2>2, <2>3 DEF ReportInv, RequiredAnswered, TaskRoles
  <2>6. ExactAlong'
    <3>1. ASSUME NEW x, NEW y, NEW z, NEW c PROVE ExactAt(x, y, z, c)' <=> ExactAt(x, y, z, c)
      BY <2>1, SameShown DEF ExactAt
    <3>2. ExactAlong
      BY TimesExactAt DEF ReportInv
    <3>3. QED BY <2>1, <2>2, <2>3, <3>1, <3>2 DEF ExactAlong
  <2>7. TimesExact' <=> ExactAlong'
    BY TimesExactAt, PTL
  <2>8. QED BY <1>1, <2>4, <2>5, <2>6, <2>7 DEF ReportInv
<1>4. QED BY <1>2, <1>3 DEF ReportNext

\* Every report is made from inputs as the program takes them, and it says what it should.
THEOREM Reported == ReportSpec => []ReportInv
<1>1. QED BY ReportStarts, ReportKeeps, PTL DEF ReportSpec

\* Every sequence stands under one identity, and one that stands for itself is like no
\* participant who was given nobody, for any participants and any likeness of faces
\* (_get_identity_mapper).
THEOREM OneForEach == ReportSpec => []OnePersonEach
<1>1. QED BY Reported, PTL DEF ReportInv

\* Who had to appear is in the report, is named as missing with status 1, is seen only after
\* the end of the video, or is like only those taken for others.
THEOREM RequiredNamed == ReportSpec => []RequiredAnswered
<1>1. QED BY Reported, PTL DEF ReportInv

\* The report says of each unit of the video what is to be seen: a person's times are those of
\* his sequence, the list of strangers has the units in which one of them is on screen, and the
\* list of crowds those in which more than num_of_people are; none of its entries is empty.
THEOREM TimesReported == ReportSpec => []TimesExact
<1>1. QED BY Reported, PTL DEF ReportInv
=============================================================================
