---------------------------- MODULE Selection_proofs ----------------------------
(***************************************************************************)
(* Loops: induction over numbers and over sequences without an operator    *)
(* for a parameter, steps that can be iterated, and from these what Select *)
(* computes for every list.                                                *)
(***************************************************************************)
EXTENDS Selection, Functions, FiniteSets, FiniteSetTheorems, FunctionTheorems, SequenceTheorems, TLAPS

(* Induction from 0 up to n. *)
LEMMA UpTo ==
  ASSUME NEW n \in Nat, NEW S, 0 \in S, \A i \in 1 .. n : i - 1 \in S => i \in S
  PROVE  0 .. n \subseteq S
<1> SUFFICES ASSUME NEW m \in 0 .. n, m \notin S PROVE FALSE
  OBVIOUS
<1> DEFINE U == {k \in 0 .. m : k \notin S}
           f == [k \in U |-> k - 1]
<1>1. IsFiniteSet(U)
  <2>1. IsFiniteSet(0 .. m)
    BY FS_Interval
  <2>2. U \in SUBSET (0 .. m)
    OBVIOUS
  <2>3. QED BY <2>1, <2>2, FS_Subset
<1>2. \A k \in U : k - 1 \in U
  <2> SUFFICES ASSUME NEW k \in U PROVE k - 1 \in U
    OBVIOUS
  <2>1. k # 0 /\ k \in 1 .. n
    OBVIOUS
  <2>2. k - 1 \in 0 .. m /\ k - 1 \notin S
    BY <2>1
  <2>3. QED BY <2>2
<1>3. f \in Injection(U, U)
  BY <1>2 DEF Injection, IsInjective
<1>4. f \in Surjection(U, U)
  BY <1>1, <1>3, FS_Injection
<1>5. m \in U
  OBVIOUS
<1>6. PICK k \in U : f[k] = m
  <2> HIDE DEF U, f
  <2>1. QED BY <1>4, <1>5 DEF Surjection
<1>7. QED BY <1>6

(* f starts with a and goes on by the steps G. *)
Iterates(f, n, a, G) == f = [i \in 0 .. n |-> IF i = 0 THEN a ELSE G[i][f[i - 1]]]

(* A step given as a function can be iterated. *)
LEMMA Iteration ==
  ASSUME NEW n \in Nat, NEW A, NEW a \in A, NEW G \in [1 .. n -> [A -> A]]
  PROVE  \E f \in [0 .. n -> A] : Iterates(f, n, a, G)
<1> DEFINE Runs(f, m) == f[0] = a /\ \A i \in 1 .. m : f[i] = G[i][f[i - 1]]
           S == {m \in 0 .. n : \E f \in [0 .. m -> A] : Runs(f, m)}
<1>1. 0 \in S
  <2>1. [i \in 0 .. 0 |-> a] \in [0 .. 0 -> A] /\ Runs([i \in 0 .. 0 |-> a], 0)
    OBVIOUS
  <2>2. 0 \in 0 .. n
    OBVIOUS
  <2>3. QED BY <2>1, <2>2
<1>2. ASSUME NEW m \in 1 .. n, m - 1 \in S PROVE m \in S
  <2>1. PICK f \in [0 .. m - 1 -> A] : Runs(f, m - 1)
    BY <1>2
  <2> DEFINE g == [i \in 0 .. m |-> IF i = m THEN G[m][f[m - 1]] ELSE f[i]]
  <2>2. f[m - 1] \in A /\ G[m] \in [A -> A] /\ G[m][f[m - 1]] \in A
    OBVIOUS
  <2>3. g \in [0 .. m -> A]
    BY <2>2
  <2>4. g[0] = a
    BY <2>1
  <2>5. ASSUME NEW i \in 1 .. m PROVE g[i] = G[i][g[i - 1]]
    <3>1. g[i - 1] = f[i - 1]
      OBVIOUS
    <3>2. CASE i = m
      <4>1. g[m] = G[m][f[m - 1]]
        OBVIOUS
      <4> HIDE DEF g
      <4>2. QED BY <3>1, <3>2, <4>1
    <3>3. CASE i # m
      <4>1. i \in 1 .. m - 1 /\ g[i] = f[i]
        BY <3>3
      <4>2. QED BY <2>1, <3>1, <4>1
    <3>4. QED BY <3>2, <3>3
  <2>6. Runs(g, m)
    BY <2>4, <2>5
  <2> HIDE DEF g, Runs
  <2>7. m \in 0 .. n
    OBVIOUS
  <2>8. QED BY <2>3, <2>6, <2>7
<1> HIDE DEF S
<1>3. 0 .. n \subseteq S
  BY <1>1, <1>2, UpTo
<1>4. n \in S
  BY <1>3
<1>5. PICK f \in [0 .. n -> A] : Runs(f, n)
  BY <1>4 DEF S
<1>6. \A i \in 0 .. n : f[i] = IF i = 0 THEN a ELSE G[i][f[i - 1]]
  BY <1>5
<1>7. Iterates(f, n, a, G)
  BY <1>6 DEF Iterates
<1>8. QED BY <1>7

(* f is what Select builds of s, member by member. *)
SelectsAlong(f, s, S) ==
    /\ f[0] = <<>>
    /\ \A i \in 1 .. Len(s) : f[i] = IF s[i] \in S THEN Append(f[i - 1], s[i]) ELSE f[i - 1]

(* The loop of Select goes by turns. *)
LEMMA SelectSteps ==
  ASSUME NEW A, NEW s \in Seq(A), NEW S
  PROVE \E f \in [0 .. Len(s) -> Seq(A)] : Select(s, S) = f[Len(s)] /\ SelectsAlong(f, s, S)
<1> DEFINE n == Len(s)
           T == Seq(A)
           step(x, i) == IF s[i] \in S THEN Append(x, s[i]) ELSE x
           Eq(f) == f = [i \in 0 .. n |-> IF i = 0 THEN <<>>
                     ELSE IF s[i] \in S THEN Append(f[i - 1], s[i]) ELSE f[i - 1]]
           k == CHOOSE f : Eq(f)
           G == [i \in 1 .. n |-> [x \in T |-> step(x, i)]]
<1>1. Select(s, S) = k[n]
  BY DEF Select
<1>2. n \in Nat /\ <<>> \in T /\ \A x \in T, i \in 1 .. n : step(x, i) \in T
  OBVIOUS
<1> HIDE DEF T
<1>3. G \in [1 .. n -> [T -> T]] /\ \A x \in T, i \in 1 .. n : G[i][x] = step(x, i)
  BY <1>2
<1> HIDE DEF G, n
<1>4. PICK f \in [0 .. n -> T] : Iterates(f, n, <<>>, G)
  BY <1>2, <1>3, Iteration
<1>5. \A i \in 1 .. n : f[i - 1] \in T /\ G[i][f[i - 1]] = step(f[i - 1], i)
  BY <1>2, <1>3
<1>6. Eq(f)
  <2>1. f = [i \in 0 .. n |-> IF i = 0 THEN <<>> ELSE G[i][f[i - 1]]]
    BY <1>4 DEF Iterates
  <2> HIDE DEF step
  <2>2. ASSUME NEW i \in 0 .. n PROVE f[i] = IF i = 0 THEN <<>> ELSE step(f[i - 1], i)
    <3>1. i # 0 => i \in 1 .. n
      OBVIOUS
    <3>2. f[i] = IF i = 0 THEN <<>> ELSE G[i][f[i - 1]]
      BY <2>1
    <3>3. QED BY <1>5, <3>1, <3>2
  <2>3. f = [i \in 0 .. n |-> IF i = 0 THEN <<>> ELSE step(f[i - 1], i)]
    BY <2>2
  <2>4. QED BY <2>3 DEF step
<1>7. Eq(k)
  BY <1>6
<1> HIDE DEF k
<1>8. k[0] = <<>> /\ \A i \in 1 .. n : k[i] = step(k[i - 1], i)
  <2>1. \A i \in 0 .. n : k[i] = IF i = 0 THEN <<>> ELSE step(k[i - 1], i)
    BY <1>7
  <2>2. 0 \in 0 .. n /\ \A i \in 1 .. n : i \in 0 .. n /\ i # 0
    BY <1>2
  <2> HIDE DEF step
  <2>3. QED BY <2>1, <2>2
<1>9. k = [i \in 0 .. n |-> k[i]]
  BY <1>7
<1> DEFINE R == {i \in 0 .. n : k[i] \in T}
<1>10. 0 .. n \subseteq R
  <2>1. 0 \in R
    BY <1>2, <1>8
  <2>2. \A i \in 1 .. n : i - 1 \in R => i \in R
    BY <1>2, <1>8
  <2> HIDE DEF R
  <2>3. QED BY <1>2, <2>1, <2>2, UpTo
<1>11. k \in [0 .. n -> T]
  BY <1>9, <1>10
<1>12. SelectsAlong(k, s, S)
  BY <1>8 DEF SelectsAlong, n
<1>13. QED BY <1>1, <1>11, <1>12 DEF n, T

(* Members of a typed list have the type. *)
LEMMA MemberType ==
  ASSUME NEW A, NEW s \in Seq(A)
  PROVE  (\A i \in 1 .. Len(s) : s[i] \in A) /\ (s # <<>> => s[Len(s)] \in A)
OBVIOUS

(* What starts in A and stays in it with every step is in A all the time. *)
LEMMA StaysIn ==
  ASSUME NEW n \in Nat, NEW A, NEW k, k = [i \in 0 .. n |-> k[i]], k[0] \in A,
         \A i \in 1 .. n : k[i - 1] \in A => k[i] \in A
  PROVE  k \in [0 .. n -> A]
<1> DEFINE S == {i \in 0 .. n : k[i] \in A}
<1>1. 0 \in S /\ \A i \in 1 .. n : i - 1 \in S => i \in S
  OBVIOUS
<1> HIDE DEF S
<1>2. 0 .. n \subseteq S
  BY <1>1, UpTo
<1>3. \A i \in 0 .. n : k[i] \in A
  BY <1>2 DEF S
<1>4. QED BY <1>3

(* Of finitely many numbers one is the greatest. *)
LEMMA Greatest ==
  ASSUME NEW n \in Nat \ {0}, NEW f \in [1 .. n -> Int]
  PROVE  \E m \in 1 .. n : \A j \in 1 .. n : f[j] <= f[m]
<1> DEFINE Top(m, i) == m \in 1 .. i /\ \A j \in 1 .. i : f[j] <= f[m]
           S == {i \in 0 .. n : i = 0 \/ \E m \in 1 .. n : Top(m, i)}
<1>1. 0 \in S
  OBVIOUS
<1>2. ASSUME NEW i \in 1 .. n, i - 1 \in S PROVE i \in S
  <2>1. CASE i = 1
    <3>1. Top(1, i)
      BY <2>1
    <3>2. QED BY <2>1, <3>1
  <2>2. CASE i # 1
    <3>1. PICK m \in 1 .. n : Top(m, i - 1)
      BY <1>2, <2>2
    <3>2. f[m] \in Int /\ f[i] \in Int
      OBVIOUS
    <3>3. \A j \in 1 .. i : j \in 1 .. i - 1 \/ j = i
      OBVIOUS
    <3>4. CASE f[i] <= f[m]
      <4>1. Top(m, i)
        BY <3>1, <3>3, <3>4
      <4>2. QED BY <4>1
    <3>5. CASE f[m] < f[i]
      <4>1. \A j \in 1 .. i - 1 : f[j] \in Int /\ f[j] <= f[m]
        BY <3>1
      <4>2. Top(i, i)
        BY <3>2, <3>3, <3>5, <4>1
      <4>3. QED BY <4>2
    <3>6. QED BY <3>2, <3>4, <3>5
  <2>3. QED BY <2>1, <2>2
<1> HIDE DEF S
<1>3. 0 .. n \subseteq S
  BY <1>1, <1>2, UpTo
<1>4. n \in S
  BY <1>3
<1>5. QED BY <1>4 DEF S

(* Some numbers up to n have a least one. *)
LEMMA LeastNumber ==
  ASSUME NEW n \in Nat, NEW S \in SUBSET (1 .. n), S # {}
  PROVE  \E i \in S : \A j \in S : i <= j
<1> SUFFICES ASSUME ~(\E i \in S : \A j \in S : i <= j) PROVE FALSE
  OBVIOUS
<1> DEFINE U == {m \in 0 .. n : \A j \in S : j > m}
<1>1. 0 \in U
  OBVIOUS
<1>2. ASSUME NEW m \in 1 .. n, m - 1 \in U PROVE m \in U
  <2>1. \A j \in S : j >= m
    BY <1>2
  <2>2. m \notin S
    BY <2>1
  <2>3. QED BY <2>1, <2>2
<1> HIDE DEF U
<1>3. 0 .. n \subseteq U
  BY <1>1, <1>2, UpTo
<1>4. n \in U
  BY <1>3
<1>5. \A j \in S : j > n /\ j <= n /\ j \in Int
  BY <1>4 DEF U
<1>6. PICK j \in S : j > n /\ j <= n /\ j \in Int
  BY <1>5
<1>7. n \in Int
  OBVIOUS
<1>8. QED BY <1>6, <1>7

(* Induction over sequences that grow at the end. *)
LEMMA Growing ==
  ASSUME NEW A, NEW P, <<>> \in P, \A s \in Seq(A), x \in A : s \in P => Append(s, x) \in P
  PROVE  Seq(A) \subseteq P
<1> SUFFICES ASSUME NEW t \in Seq(A) PROVE t \in P
  OBVIOUS
<1> DEFINE n == Len(t)
           first(i) == SubSeq(t, 1, i)
           S == {i \in 0 .. n : first(i) \in P}
<1>1. n \in Nat /\ first(n) = t /\ first(0) = <<>>
  OBVIOUS
<1>2. ASSUME NEW i \in 1 .. n
      PROVE  first(i - 1) \in Seq(A) /\ t[i] \in A /\ first(i) = Append(first(i - 1), t[i])
  OBVIOUS
<1> HIDE DEF n, first
<1>3. 0 \in S
  BY <1>1
<1>4. ASSUME NEW i \in 1 .. n, i - 1 \in S PROVE i \in S
  <2>1. first(i - 1) \in P /\ i \in 0 .. n
    BY <1>1, <1>4
  <2>2. QED BY <1>2, <2>1
<1> HIDE DEF S
<1>5. 0 .. n \subseteq S
  BY <1>1, <1>3, <1>4, UpTo
<1>6. n \in S
  BY <1>1, <1>5
<1>7. QED BY <1>1, <1>6 DEF S

-----------------------------------------------------------------------------
(* Select *)

(* Of nothing it keeps nothing. *)
LEMMA SelectEmpty == \A S : Select(<<>>, S) = <<>>
<1> SUFFICES ASSUME NEW S PROVE Select(<<>>, S) = <<>>
  OBVIOUS
<1>1. PICK f \in [0 .. Len(<<>>) -> Seq({})] : Select(<<>>, S) = f[Len(<<>>)] /\ SelectsAlong(f, <<>>, S)
  <2>1. <<>> \in Seq({})
    OBVIOUS
  <2>2. QED BY <2>1, SelectSteps
<1>2. QED BY <1>1 DEF SelectsAlong

(* A member more is kept or passed over, whatever came before. *)
LEMMA SelectAppend ==
  ASSUME NEW A, NEW s \in Seq(A), NEW x \in A, NEW S
  PROVE  Select(Append(s, x), S) = IF x \in S THEN Append(Select(s, S), x) ELSE Select(s, S)
<1> DEFINE n == Len(s)
           t == Append(s, x)
<1>1. /\ n \in Nat /\ t \in Seq(A) /\ Len(t) = n + 1 /\ t[n + 1] = x
      /\ \A i \in 1 .. n : t[i] = s[i]
  OBVIOUS
<1> HIDE DEF t
<1>2. PICK f \in [0 .. n -> Seq(A)] : Select(s, S) = f[n] /\ SelectsAlong(f, s, S)
  BY SelectSteps
<1>3. PICK g \in [0 .. Len(t) -> Seq(A)] : Select(t, S) = g[Len(t)] /\ SelectsAlong(g, t, S)
  BY <1>1, SelectSteps
<1>4. /\ f[0] = <<>>
      /\ \A i \in 1 .. n : f[i] = IF s[i] \in S THEN Append(f[i - 1], s[i]) ELSE f[i - 1]
  BY <1>2 DEF SelectsAlong
<1>5. /\ g[0] = <<>>
      /\ \A i \in 1 .. n + 1 : g[i] = IF t[i] \in S THEN Append(g[i - 1], t[i]) ELSE g[i - 1]
  BY <1>1, <1>3 DEF SelectsAlong
<1> HIDE DEF n
<1> DEFINE R == {i \in 0 .. n : f[i] = g[i]}
<1>6. 0 \in R
  BY <1>1, <1>4, <1>5
<1>7. ASSUME NEW i \in 1 .. n, i - 1 \in R PROVE i \in R
  <2>1. f[i - 1] = g[i - 1] /\ t[i] = s[i] /\ i \in 1 .. n + 1 /\ i \in 0 .. n
    BY <1>1, <1>7
  <2>2. f[i] = g[i]
    BY <1>4, <1>5, <2>1
  <2>3. QED BY <2>1, <2>2
<1> HIDE DEF R
<1>8. 0 .. n \subseteq R
  BY <1>1, <1>6, <1>7, UpTo
<1>9. f[n] = g[n]
  BY <1>1, <1>8 DEF R
<1>10. g[n + 1] = IF x \in S THEN Append(g[n], x) ELSE g[n]
  <2>1. n + 1 \in 1 .. n + 1 /\ (n + 1) - 1 = n /\ t[n + 1] = x
    BY <1>1
  <2>2. g[n + 1] = IF t[n + 1] \in S THEN Append(g[(n + 1) - 1], t[n + 1]) ELSE g[(n + 1) - 1]
    BY <1>5, <2>1
  <2>3. QED BY <2>1, <2>2
<1>11. Select(t, S) = g[n + 1] /\ Select(s, S) = f[n]
  BY <1>1, <1>2, <1>3
<1>12. Select(t, S) = IF x \in S THEN Append(Select(s, S), x) ELSE Select(s, S)
  BY <1>9, <1>10, <1>11
<1>13. QED BY <1>12 DEF t

(* What is kept was there and is in S. *)
LEMMA SelectType ==
  ASSUME NEW A, NEW s \in Seq(A), NEW S
  PROVE  Select(s, S) \in Seq(A \cap S)
<1> DEFINE P == {t \in Seq(A) : Select(t, S) \in Seq(A \cap S)}
<1>1. <<>> \in P
  <2>1. <<>> \in Seq(A) /\ <<>> \in Seq(A \cap S) /\ Select(<<>>, S) = <<>>
    BY SelectEmpty
  <2>2. QED BY <2>1
<1>2. ASSUME NEW t \in Seq(A), NEW x \in A, t \in P PROVE Append(t, x) \in P
  <2>1. Select(Append(t, x), S) = IF x \in S THEN Append(Select(t, S), x) ELSE Select(t, S)
    BY SelectAppend
  <2>2. Append(t, x) \in Seq(A)
    OBVIOUS
  <2>3. Select(t, S) \in Seq(A \cap S)
    BY <1>2
  <2>4. Select(Append(t, x), S) \in Seq(A \cap S)
    BY <2>1, <2>3
  <2>5. QED BY <2>2, <2>4
<1> HIDE DEF P
<1>3. Seq(A) \subseteq P
  BY <1>1, <1>2, Growing
<1>4. QED BY <1>3 DEF P

(* Of two lists one after the other it keeps what it keeps of each. *)
LEMMA SelectConcat ==
  ASSUME NEW A, NEW s \in Seq(A), NEW t \in Seq(A), NEW S
  PROVE  Select(s \o t, S) = Select(s, S) \o Select(t, S)
<1> DEFINE P == {u \in Seq(A) : Select(s \o u, S) = Select(s, S) \o Select(u, S)}
<1>1. <<>> \in P
  <2>1. Select(s, S) \in Seq(A \cap S)
    BY SelectType
  <2>2. s \o <<>> = s /\ Select(s, S) \o <<>> = Select(s, S)
    BY <2>1
  <2>3. Select(<<>>, S) = <<>> /\ <<>> \in Seq(A)
    BY SelectEmpty
  <2>4. Select(s \o <<>>, S) = Select(s, S) \o Select(<<>>, S)
    BY <2>2, <2>3
  <2>5. QED BY <2>3, <2>4
<1>2. ASSUME NEW u \in Seq(A), NEW x \in A, u \in P PROVE Append(u, x) \in P
  <2>1. s \o Append(u, x) = Append(s \o u, x) /\ s \o u \in Seq(A) /\ Append(u, x) \in Seq(A)
    OBVIOUS
  <2>2. Select(s, S) \in Seq(A) /\ Select(u, S) \in Seq(A)
    <3>1. Select(s, S) \in Seq(A \cap S) /\ Select(u, S) \in Seq(A \cap S)
      BY SelectType
    <3>2. QED BY <3>1
  <2>3. Select(s, S) \o Append(Select(u, S), x) = Append(Select(s, S) \o Select(u, S), x)
    BY <2>2
  <2>4. Select(Append(u, x), S) = IF x \in S THEN Append(Select(u, S), x) ELSE Select(u, S)
    BY SelectAppend
  <2>5. Select(Append(s \o u, x), S) = IF x \in S THEN Append(Select(s \o u, S), x) ELSE Select(s \o u, S)
    BY <2>1, SelectAppend
  <2>6. Select(s \o u, S) = Select(s, S) \o Select(u, S)
    BY <1>2
  <2>7. Select(s \o Append(u, x), S) = Select(s, S) \o Select(Append(u, x), S)
    BY <2>1, <2>3, <2>4, <2>5, <2>6
  <2>8. QED BY <2>1, <2>7
<1> HIDE DEF P
<1>3. Seq(A) \subseteq P
  BY <1>1, <1>2, Growing
<1>4. QED BY <1>3 DEF P

(* x is in the list s. *)
Has(s, x) == \E i \in 1 .. Len(s) : s[i] = x

(* What a list with one more member has. *)
LEMMA HasAppend ==
  ASSUME NEW A, NEW s \in Seq(A), NEW z, NEW x
  PROVE  Has(Append(s, z), x) <=> Has(s, x) \/ z = x
<1>1. /\ Len(Append(s, z)) = Len(s) + 1 /\ Append(s, z)[Len(s) + 1] = z
      /\ \A i \in 1 .. Len(s) : Append(s, z)[i] = s[i]
  OBVIOUS
<1>2. Len(s) \in Nat
  OBVIOUS
<1>3. QED BY <1>1, <1>2 DEF Has

(* Just the members that are in S are kept. *)
LEMMA SelectMembers ==
  ASSUME NEW A, NEW s \in Seq(A), NEW S, NEW x
  PROVE  Has(Select(s, S), x) <=> x \in S /\ Has(s, x)
<1> DEFINE P == {t \in Seq(A) : Has(Select(t, S), x) <=> x \in S /\ Has(t, x)}
<1>1. <<>> \in P
  <2>1. <<>> \in Seq(A) /\ Select(<<>>, S) = <<>> /\ ~Has(<<>>, x)
    BY SelectEmpty DEF Has
  <2>2. QED BY <2>1
<1>2. ASSUME NEW t \in Seq(A), NEW y \in A, t \in P PROVE Append(t, y) \in P
  <2>1. Select(Append(t, y), S) = IF y \in S THEN Append(Select(t, S), y) ELSE Select(t, S)
    BY SelectAppend
  <2>2. Append(t, y) \in Seq(A) /\ Select(t, S) \in Seq(A \cap S)
    BY SelectType
  <2>3. Has(Append(t, y), x) <=> Has(t, x) \/ y = x
    BY HasAppend
  <2>4. Has(Append(Select(t, S), y), x) <=> Has(Select(t, S), x) \/ y = x
    BY <2>2, HasAppend
  <2>5. Has(Select(t, S), x) <=> x \in S /\ Has(t, x)
    BY <1>2
  <2>6. QED BY <2>1, <2>2, <2>3, <2>4, <2>5
<1> HIDE DEF P
<1>3. Seq(A) \subseteq P
  BY <1>1, <1>2, Growing
<1>4. QED BY <1>3 DEF P

(* No member of s comes twice. *)
Distinct(s) == \A i, j \in 1 .. Len(s) : s[i] = s[j] => i = j

(* A list stays without repetition if the new member was not in it. *)
LEMMA DistinctAppend ==
  ASSUME NEW A, NEW s \in Seq(A), NEW x
  PROVE  Distinct(Append(s, x)) <=> Distinct(s) /\ ~Has(s, x)
<1>1. /\ Len(Append(s, x)) = Len(s) + 1 /\ Append(s, x)[Len(s) + 1] = x
      /\ \A i \in 1 .. Len(s) : Append(s, x)[i] = s[i]
  OBVIOUS
<1>2. Len(s) \in Nat
  OBVIOUS
<1>3. QED BY <1>1, <1>2 DEF Distinct, Has

(* No member of s that is in S comes twice. *)
OnceIn(s, S) == \A i, j \in 1 .. Len(s) : s[i] = s[j] /\ s[i] \in S => i = j

(* What is kept of a list has no repetition if no member that is kept comes twice. *)
LEMMA SelectOnce ==
  ASSUME NEW A, NEW s \in Seq(A), NEW S, OnceIn(s, S)
  PROVE  Distinct(Select(s, S))
<1> DEFINE P == {t \in Seq(A) : OnceIn(t, S) => Distinct(Select(t, S))}
<1>1. <<>> \in P
  <2>1. <<>> \in Seq(A) /\ Select(<<>>, S) = <<>> /\ Distinct(<<>>)
    BY SelectEmpty DEF Distinct
  <2>2. QED BY <2>1
<1>2. ASSUME NEW t \in Seq(A), NEW y \in A, t \in P PROVE Append(t, y) \in P
  <2>1. Select(Append(t, y), S) = IF y \in S THEN Append(Select(t, S), y) ELSE Select(t, S)
    BY SelectAppend
  <2>2. Append(t, y) \in Seq(A) /\ Select(t, S) \in Seq(A \cap S)
    BY SelectType
  <2>3. ASSUME OnceIn(Append(t, y), S) PROVE Distinct(Select(Append(t, y), S))
    <3>1. /\ Len(Append(t, y)) = Len(t) + 1 /\ Append(t, y)[Len(t) + 1] = y /\ Len(t) \in Nat
          /\ \A i \in 1 .. Len(t) : Append(t, y)[i] = t[i]
      OBVIOUS
    <3>2. OnceIn(t, S) /\ (y \in S => ~Has(t, y))
      BY <2>3, <3>1 DEF OnceIn, Has
    <3>3. Distinct(Select(t, S))
      BY <1>2, <3>2
    <3>4. y \in S => ~Has(Select(t, S), y)
      BY <3>2, SelectMembers
    <3>5. y \in S => Distinct(Append(Select(t, S), y))
      BY <2>2, <3>3, <3>4, DistinctAppend
    <3>6. QED BY <2>1, <3>3, <3>5
  <2>4. QED BY <2>2, <2>3
<1> HIDE DEF P
<1>3. Seq(A) \subseteq P
  BY <1>1, <1>2, Growing
<1>4. QED BY <1>3 DEF P

(* What is kept of a list without repetition has none. *)
LEMMA SelectDistinct ==
  ASSUME NEW A, NEW s \in Seq(A), NEW S, Distinct(s)
  PROVE  Distinct(Select(s, S))
<1>1. OnceIn(s, S)
  BY DEF Distinct, OnceIn
<1>2. QED BY <1>1, SelectOnce

(* A concatenation has what its parts have. *)
LEMMA HasConcat ==
  ASSUME NEW A, NEW s \in Seq(A), NEW t \in Seq(A), NEW x
  PROVE  Has(s \o t, x) <=> Has(s, x) \/ Has(t, x)
<1> DEFINE m == Len(s)
           n == Len(t)
           u == s \o t
<1>1. /\ m \in Nat /\ n \in Nat /\ Len(u) = m + n
      /\ \A i \in 1 .. m : u[i] = s[i]
      /\ \A i \in 1 .. n : u[m + i] = t[i]
  OBVIOUS
<1> HIDE DEF u
<1>2. ASSUME Has(u, x) PROVE Has(s, x) \/ Has(t, x)
  <2>1. PICK i \in 1 .. m + n : u[i] = x
    BY <1>1, <1>2 DEF Has
  <2>2. CASE i \in 1 .. m
    BY <1>1, <2>1, <2>2 DEF Has
  <2>3. CASE i \notin 1 .. m
    <3>1. i - m \in 1 .. n /\ m + (i - m) = i
      BY <1>1, <2>3
    <3>2. t[i - m] = x
      BY <1>1, <2>1, <3>1
    <3>3. QED BY <3>1, <3>2 DEF Has
  <2>4. QED BY <2>2, <2>3
<1>3. ASSUME Has(s, x) PROVE Has(u, x)
  <2>1. PICK i \in 1 .. m : s[i] = x
    BY <1>3 DEF Has
  <2>2. i \in 1 .. m + n
    BY <1>1
  <2>3. QED BY <1>1, <2>1, <2>2 DEF Has
<1>4. ASSUME Has(t, x) PROVE Has(u, x)
  <2>1. PICK i \in 1 .. n : t[i] = x
    BY <1>4 DEF Has
  <2>2. m + i \in 1 .. m + n
    BY <1>1
  <2>3. QED BY <1>1, <2>1, <2>2 DEF Has
<1>5. QED BY <1>2, <1>3, <1>4 DEF u

(* Two lists that have nothing in common make one without repetition. *)
LEMMA DistinctConcat ==
  ASSUME NEW A, NEW s \in Seq(A), NEW t \in Seq(A), Distinct(s), Distinct(t),
         \A x : ~(Has(s, x) /\ Has(t, x))
  PROVE  Distinct(s \o t)
<1> DEFINE m == Len(s)
           n == Len(t)
           u == s \o t
<1>1. /\ m \in Nat /\ n \in Nat /\ Len(u) = m + n
      /\ \A i \in 1 .. m : u[i] = s[i]
      /\ \A i \in 1 .. m + n : i > m => i - m \in 1 .. n /\ u[i] = t[i - m]
  OBVIOUS
<1> HIDE DEF u
<1>2. ASSUME NEW i \in 1 .. m + n, NEW j \in 1 .. m + n, u[i] = u[j] PROVE i = j
  <2>1. CASE i <= m /\ j <= m
    <3>1. i \in 1 .. m /\ j \in 1 .. m
      BY <1>1, <2>1
    <3>2. QED BY <1>1, <1>2, <3>1 DEF Distinct
  <2>2. CASE i > m /\ j > m
    <3>1. i - m \in 1 .. n /\ j - m \in 1 .. n /\ t[i - m] = t[j - m]
      BY <1>1, <1>2, <2>2
    <3>2. i - m = j - m
      BY <3>1 DEF Distinct
    <3>3. QED BY <1>1, <3>2
  <2>3. \A k, l \in 1 .. m + n : ~(k <= m /\ l > m /\ u[k] = u[l])
    <3> SUFFICES ASSUME NEW k \in 1 .. m + n, NEW l \in 1 .. m + n, k <= m, l > m, u[k] = u[l]
                 PROVE  FALSE
      OBVIOUS
    <3>1. k \in 1 .. m /\ l - m \in 1 .. n /\ s[k] = u[k] /\ t[l - m] = u[k]
      BY <1>1
    <3>2. Has(s, u[k]) /\ Has(t, u[k])
      BY <3>1 DEF Has
    <3>3. QED BY <3>2
  <2>4. (i <= m \/ i > m) /\ (j <= m \/ j > m)
    BY <1>1
  <2>5. QED BY <1>2, <2>1, <2>2, <2>3, <2>4
<1>3. QED BY <1>1, <1>2 DEF Distinct, u

-----------------------------------------------------------------------------
(* Lists *)

(* s is a list, whatever it holds. *)
AList(s) == s \in Seq(Range(s))

(* What appending does. *)
LEMMA ListAppend ==
  ASSUME NEW s, AList(s), NEW x
  PROVE  /\ AList(Append(s, x)) /\ Len(s) \in Nat /\ Len(Append(s, x)) = Len(s) + 1
         /\ Append(s, x)[Len(s) + 1] = x /\ \A i \in 1 .. Len(s) : Append(s, x)[i] = s[i]
<1> DEFINE A == Range(s) \union {x}
           t == Append(s, x)
<1>1. s \in Seq(A)
  <2>1. s \in Seq(Range(s))
    BY DEF AList
  <2>2. QED BY <2>1
<1>2. /\ t \in Seq(A) /\ Len(s) \in Nat /\ Len(t) = Len(s) + 1
      /\ t[Len(s) + 1] = x /\ \A i \in 1 .. Len(s) : t[i] = s[i]
  BY <1>1
<1> HIDE DEF t, A
<1>3. \A B : t \in Seq(B) => t \in Seq(Range(t))
  BY DEF Range
<1>4. QED BY <1>2, <1>3 DEF AList, t

(* A typed list is a list. *)
LEMMA ListType ==
  ASSUME NEW A, NEW s \in Seq(A)
  PROVE  AList(s)
BY DEF AList, Range

(* A function on 1 .. n is a list. *)
LEMMA FunctionList ==
  ASSUME NEW n \in Nat, NEW f, f = [i \in 1 .. n |-> f[i]]
  PROVE  AList(f)
<1>1. Range(f) = {f[i] : i \in 1 .. n}
  BY DEF Range
<1>2. f \in Seq({f[i] : i \in 1 .. n})
  OBVIOUS
<1>3. QED BY <1>1, <1>2 DEF AList

(* What is kept of a list is a list. *)
LEMMA SelectList ==
  ASSUME NEW s, AList(s), NEW S
  PROVE  AList(Select(s, S))
<1>1. s \in Seq(Range(s))
  BY DEF AList
<1>2. Select(s, S) \in Seq(Range(s) \cap S)
  BY <1>1, SelectType
<1>3. QED BY <1>2, ListType

(* The domain of a list. *)
LEMMA ListDomain ==
  ASSUME NEW s, AList(s)
  PROVE  DOMAIN s = 1 .. Len(s) /\ Len(s) \in Nat
<1>1. s \in Seq(Range(s))
  BY DEF AList
<1>2. QED BY <1>1

(* Only the empty list has none. *)
LEMMA EmptyList ==
  ASSUME NEW s, AList(s)
  PROVE  DOMAIN s = {} <=> s = <<>>
<1>1. s \in Seq(Range(s))
  BY DEF AList
<1>2. QED BY <1>1

(* Two lists one after the other are a list. *)
LEMMA ListConcat ==
  ASSUME NEW s, AList(s), NEW t, AList(t)
  PROVE  AList(s \o t) /\ Len(s) \in Nat /\ Len(t) \in Nat /\ Len(s \o t) = Len(s) + Len(t)
<1> DEFINE A == Range(s) \union Range(t)
<1>1. s \in Seq(Range(s)) /\ t \in Seq(Range(t))
  BY DEF AList
<1>2. s \in Seq(A) /\ t \in Seq(A)
  BY <1>1
<1> HIDE DEF A
<1>3. s \o t \in Seq(A) /\ Len(s) \in Nat /\ Len(t) \in Nat /\ Len(s \o t) = Len(s) + Len(t)
  BY <1>2
<1>4. QED BY <1>3, ListType

(* What a list has is its range. *)
LEMMA HasRange ==
  ASSUME NEW s, AList(s), NEW x
  PROVE  Has(s, x) <=> x \in Range(s)
<1>1. DOMAIN s = 1 .. Len(s)
  BY ListDomain
<1>2. QED BY <1>1 DEF Has, Range
=============================================================================
