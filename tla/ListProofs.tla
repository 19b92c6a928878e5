----------------------------- MODULE ListProofs -----------------------------
(***************************************************************************)
(* Facts about numbers, ranks and lists that the proofs about the other    *)
(* modules rest on.  Where an induction is needed it is the absence of a   *)
(* least counterexample, for a predicate that is fixed.                    *)
(***************************************************************************)
EXTENDS Lists, FiniteSetTheorems, SequenceTheorems, WellFoundedInduction, TLAPS

\* A set of natural numbers has a least element.
LEMMA LeastNumber ==
  ASSUME NEW G, G \subseteq Nat, G # {}
  PROVE  \E x \in G : \A y \in G : x <= y
<1> DEFINE R == OpToRel(<, Nat)
<1>1. IsWellFoundedOn(R, Nat)
  BY NatLessThanWellFounded
<1>2. \A m, n \in Nat : <<m, n>> \in R <=> m < n
  BY DEF OpToRel
<1> HIDE DEF R
<1>3. PICK x \in G : \A y \in G : ~ (<<y, x>> \in R)
  BY <1>1, WFMin
<1>4. \A y \in G : x <= y
  <2> TAKE y \in G
  <2>1. x \in Nat /\ y \in Nat
    OBVIOUS
  <2>2. ~ (<<y, x>> \in R)
    BY <1>3
  <2>3. ~ (y < x)
    BY <1>2, <2>1, <2>2
  <2> QED
    BY <2>1, <2>3
<1> QED
  BY <1>4

\* A set of natural numbers with a bound has a greatest element.
LEMMA GreatestNumber ==
  ASSUME NEW b \in Nat, NEW F, F \subseteq 0 .. b, F # {}
  PROVE  \E x \in F : \A y \in F : x >= y
<1> DEFINE G == {n \in 0 .. b : b - n \in F}
<1>1. G \subseteq Nat /\ G # {}
  <2>1. PICK n \in F : TRUE
    OBVIOUS
  <2>2. b - n \in 0 .. b /\ b - (b - n) = n
    BY <2>1
  <2>3. b - n \in G
    BY <2>1, <2>2
  <2> QED
    BY <2>3
<1>2. PICK x \in G : \A y \in G : x <= y
  <2> HIDE DEF G
  <2> QED
    BY <1>1, LeastNumber
<1>3. \A n \in F : b - x >= n
  <2> TAKE n \in F
  <2>1. n \in 0 .. b /\ b - n \in 0 .. b /\ b - (b - n) = n /\ x \in 0 .. b
    OBVIOUS
  <2>2. b - n \in G
    BY <2>1
  <2>3. x <= b - n
    <3> HIDE DEF G
    <3> QED
      BY <1>2, <2>2
  <2> QED
    BY <2>1, <2>3
<1> QED
  BY <1>2, <1>3

LEMMA MaxIsMember ==
  ASSUME NEW b \in Nat, NEW F, F \subseteq 0 .. b, F # {}
  PROVE  Max(F) \in F /\ \A y \in F : Max(F) >= y
BY GreatestNumber DEF Max

LEMMA MinIsMember ==
  ASSUME NEW F, F \subseteq Nat, F # {}
  PROVE  Min(F) \in F /\ \A y \in F : Min(F) <= y
BY LeastNumber DEF Min
-----------------------------------------------------------------------------
(***************************************************************************)
(* Ranks.                                                                  *)
(***************************************************************************)
\* The members of a finite set of numbers, by how many are no greater.
LEMMA Ranks ==
  ASSUME NEW S, IsFiniteSet(S), S \subseteq Nat
  PROVE  LET f == [i \in S |-> Cardinality({j \in S : j <= i})]
         IN  /\ f \in [S -> 1 .. Cardinality(S)]
             /\ \A i, j \in S : f[i] = f[j] => i = j
             /\ \A i, j \in S : i < j => f[i] < f[j]
             /\ \A k \in 1 .. Cardinality(S) : \E i \in S : f[i] = k
<1> DEFINE Upto(i) == {j \in S : j <= i}
           n == Cardinality(S)
           f == [i \in S |-> Cardinality(Upto(i))]
<1>1. n \in Nat
  BY FS_CardinalityType
<1>2. ASSUME NEW i \in S
      PROVE  IsFiniteSet(Upto(i)) /\ Cardinality(Upto(i)) \in 1 .. n
  <2>1. Upto(i) \in SUBSET S /\ i \in Upto(i)
    OBVIOUS
  <2> HIDE DEF Upto
  <2>2. IsFiniteSet(Upto(i)) /\ Cardinality(Upto(i)) <= n
    BY <2>1, FS_Subset
  <2>3. Cardinality(Upto(i)) \in Nat
    BY <2>2, FS_CardinalityType
  <2>4. Cardinality(Upto(i)) # 0
    BY <2>1, <2>2, FS_EmptySet
  <2>5. QED
    BY <1>1, <2>2, <2>3, <2>4
<1>3. ASSUME NEW i \in S, NEW j \in S, i < j
      PROVE  Cardinality(Upto(i)) < Cardinality(Upto(j))
  <2>1. Upto(i) \in SUBSET Upto(j) /\ j \in Upto(j) /\ j \notin Upto(i)
    <3>1. i \in Nat /\ j \in Nat /\ i < j
      BY <1>3
    <3>2. \A l \in S : l <= i => l <= j
      <4> TAKE l \in S
      <4>1. l \in Nat
        OBVIOUS
      <4>2. QED
        BY <3>1, <4>1
    <3>3. j <= j /\ ~ (j <= i)
      BY <3>1
    <3>4. QED
      BY <3>2, <3>3
  <2>2. Cardinality(Upto(i)) \in Nat /\ Cardinality(Upto(j)) \in Nat
    BY <1>2, <1>1
  <2> HIDE DEF Upto
  <2>3. IsFiniteSet(Upto(j)) /\ Upto(i) # Upto(j)
    BY <1>2, <2>1
  <2>4. QED
    BY <2>1, <2>2, <2>3, FS_Subset
<1> HIDE DEF Upto, n
<1>4. f \in [S -> 1 .. n]
  BY <1>2
<1>5. \A i, j \in S : i < j => f[i] < f[j]
  BY <1>3
<1>6. \A i, j \in S : f[i] = f[j] => i = j
  <2> TAKE i \in S, j \in S
  <2>1. i \in Nat /\ j \in Nat /\ f[i] \in 1 .. n /\ f[j] \in 1 .. n
    BY <1>4
  <2> HIDE DEF f
  <2>2. CASE i < j
    BY <1>5, <2>1, <2>2, <1>1
  <2>3. CASE j < i
    BY <1>5, <2>1, <2>3, <1>1
  <2> QED
    BY <2>1, <2>2, <2>3
<1>7. f \in Injection(S, 1 .. n)
  BY <1>4, <1>6 DEF Injection, IsInjective
<1>8. IsFiniteSet(1 .. n) /\ Cardinality(1 .. n) = n
  BY <1>1, FS_Interval
<1>9. f \in Surjection(S, 1 .. n)
  <2> HIDE DEF f
  <2>1. Cardinality(S) = Cardinality(1 .. n)
    BY <1>8 DEF n
  <2>2. QED
    BY <1>7, <1>8, <2>1, FS_Injection
<1>10. \A k \in 1 .. n : \E i \in S : f[i] = k
  <2> HIDE DEF f
  <2> QED
    BY <1>9 DEF Surjection
<1> QED
  BY <1>4, <1>5, <1>6, <1>10 DEF Upto, n

\* Nth goes through a finite set of numbers, upwards.
LEMMA NthFacts ==
  ASSUME NEW S, IsFiniteSet(S), S \subseteq Nat
  PROVE  /\ \A k \in 1 .. Cardinality(S) : Nth(S, k) \in S
         /\ \A k, l \in 1 .. Cardinality(S) : Nth(S, k) = Nth(S, l) => k = l
         /\ \A k, l \in 1 .. Cardinality(S) : k < l => Nth(S, k) < Nth(S, l)
         /\ \A i \in S : \E k \in 1 .. Cardinality(S) : Nth(S, k) = i
<1> DEFINE f == [i \in S |-> Cardinality({j \in S : j <= i})]
           n == Cardinality(S)
<1>1. /\ f \in [S -> 1 .. n]
      /\ \A i, j \in S : f[i] = f[j] => i = j
      /\ \A i, j \in S : i < j => f[i] < f[j]
      /\ \A k \in 1 .. n : \E i \in S : f[i] = k
  BY Ranks
<1>2. \A k : Nth(S, k) = CHOOSE i \in S : f[i] = k
  BY DEF Nth
<1>3. n \in Nat
  BY FS_CardinalityType
<1> HIDE DEF f, n
<1>4. \A k \in 1 .. n : Nth(S, k) \in S /\ f[Nth(S, k)] = k
  BY <1>1, <1>2
<1>5. \A i \in S : f[i] \in 1 .. n /\ Nth(S, f[i]) = i
  <2> TAKE i \in S
  <2>1. f[i] \in 1 .. n
    BY <1>1
  <2>2. Nth(S, f[i]) \in S /\ f[Nth(S, f[i])] = f[i]
    BY <1>4, <2>1
  <2> QED
    BY <1>1, <2>1, <2>2
<1>6. ASSUME NEW k \in 1 .. n, NEW l \in 1 .. n, k < l
      PROVE  Nth(S, k) < Nth(S, l)
  <2>1. Nth(S, k) \in Nat /\ Nth(S, l) \in Nat /\ k \in Nat /\ l \in Nat
    <3>1. Nth(S, k) \in S /\ Nth(S, l) \in S
      BY <1>4
    <3>2. k \in Nat /\ l \in Nat
      BY <1>3
    <3> QED
      BY <3>1, <3>2
  <2>2. Nth(S, k) # Nth(S, l)
    BY <1>4, <1>6, <2>1
  <2>3. ~ (Nth(S, l) < Nth(S, k))
    BY <1>1, <1>4, <1>6, <2>1
  <2> QED
    BY <2>1, <2>2, <2>3
<1> QED
  BY <1>4, <1>5, <1>6 DEF n
-----------------------------------------------------------------------------
(***************************************************************************)
(* Lists.                                                                  *)
(***************************************************************************)
LEMMA RemainsFacts ==
  ASSUME NEW M, NEW s \in Seq(M), NEW I, I \subseteq DOMAIN s
  PROVE  /\ Remains(s, I) \in Seq(M)
         /\ Range(Remains(s, I)) = {s[i] : i \in I}
         /\ (\A i, j \in DOMAIN s : s[i] = s[j] => i = j)
              => \A i, j \in DOMAIN Remains(s, I) :
                   Remains(s, I)[i] = Remains(s, I)[j] => i = j
<1> DEFINE n == Cardinality(I)
           r == [k \in 1 .. n |-> s[Nth(I, k)]]
<1>1. Len(s) \in Nat /\ DOMAIN s = 1 .. Len(s)
  OBVIOUS
<1>2. IsFiniteSet(I) /\ n \in Nat /\ I \subseteq Nat
  <2>1. IsFiniteSet(DOMAIN s) /\ I \in SUBSET DOMAIN s
    BY <1>1, FS_Interval
  <2> QED
    BY <1>1, <2>1, FS_Subset, FS_CardinalityType
<1>3. /\ \A k \in 1 .. n : Nth(I, k) \in I
      /\ \A k, l \in 1 .. n : Nth(I, k) = Nth(I, l) => k = l
      /\ \A i \in I : \E k \in 1 .. n : Nth(I, k) = i
  BY <1>2, NthFacts
<1> HIDE DEF n
<1>4. \A k \in 1 .. n : s[Nth(I, k)] \in M
  BY <1>3
<1>5. r \in Seq(M)
  BY <1>2, <1>4
<1>6. Range(r) = {s[i] : i \in I}
  BY <1>3 DEF Range
<1>7. (\A i, j \in DOMAIN s : s[i] = s[j] => i = j)
        => \A i, j \in DOMAIN r : r[i] = r[j] => i = j
  BY <1>3
<1>8. Remains(s, I) = r
  BY DEF Remains, n
<1> QED
  BY <1>5, <1>6, <1>7, <1>8

\* A list of a finite set has each of its members once.
LEMMA ListOfSet ==
  ASSUME NEW S, IsFiniteSet(S)
  PROVE  /\ SetToSeq(S) \in Seq(S)
         /\ Len(SetToSeq(S)) = Cardinality(S)
         /\ Range(SetToSeq(S)) = S
         /\ \A i, j \in DOMAIN SetToSeq(S) : SetToSeq(S)[i] = SetToSeq(S)[j] => i = j
<1> DEFINE n == Cardinality(S)
           s == SetToSeq(S)
<1>1. n \in Nat
  BY FS_CardinalityType
<1>2. PICK g : g \in Bijection(1 .. n, S)
  BY FS_CountingElements, FS_NatBijection, FS_CardinalityType DEF ExistsBijection
<1>3. g \in [1 .. n -> S] /\ IsInjective(g)
  BY <1>2 DEF Bijection, Injection
<1>4. s \in [1 .. n -> S] /\ IsInjective(s)
  BY <1>3 DEF SetToSeq
<1> HIDE DEF s, n
<1>5. s \in Seq(S) /\ DOMAIN s = 1 .. n /\ Len(s) = n
  BY <1>1, <1>4
<1>6. \A i, j \in DOMAIN s : s[i] = s[j] => i = j
  BY <1>4 DEF IsInjective
<1>7. s \in Injection(1 .. n, S)
  BY <1>4 DEF Injection
<1>8. IsFiniteSet(1 .. n) /\ Cardinality(1 .. n) = Cardinality(S)
  BY <1>1, FS_Interval DEF n
<1>9. s \in Surjection(1 .. n, S)
  BY <1>7, <1>8, FS_Injection
<1>10. Range(s) = S
  BY <1>5, <1>9 DEF Surjection, Range
<1> QED
  BY <1>5, <1>6, <1>10 DEF s, n

\* One list behind another.
LEMMA Joined ==
  ASSUME NEW M, NEW s \in Seq(M), NEW t \in Seq(M)
  PROVE  /\ s \o t \in Seq(M)
         /\ Len(s \o t) = Len(s) + Len(t)
         /\ Range(s \o t) = Range(s) \cup Range(t)
         /\ (/\ \A i, j \in DOMAIN s : s[i] = s[j] => i = j
             /\ \A i, j \in DOMAIN t : t[i] = t[j] => i = j
             /\ Range(s) \cap Range(t) = {})
              => \A i, j \in DOMAIN (s \o t) : (s \o t)[i] = (s \o t)[j] => i = j
<1> DEFINE r == s \o t
           m == Len(s)
           n == Len(t)
<1>1. /\ r \in Seq(M) /\ Len(r) = m + n /\ m \in Nat /\ n \in Nat
      /\ DOMAIN s = 1 .. m /\ DOMAIN t = 1 .. n /\ DOMAIN r = 1 .. m + n
  OBVIOUS
<1>2. /\ \A i \in 1 .. m : r[i] = s[i]
      /\ \A i \in 1 .. n : r[m + i] = t[i]
  OBVIOUS
<1> HIDE DEF r, m, n
<1>3. \A i \in 1 .. m + n : i \in 1 .. m \/ \E j \in 1 .. n : i = m + j
  <2> TAKE i \in 1 .. m + n
  <2>1. i \in Nat
    BY <1>1
  <2>2. CASE i <= m
    BY <1>1, <2>1, <2>2
  <2>3. CASE i > m
    <3>1. i - m \in 1 .. n /\ i = m + (i - m)
      BY <1>1, <2>1, <2>3
    <3> QED
      BY <3>1
  <2> QED
    BY <1>1, <2>1, <2>2, <2>3
<1>4. \A i \in 1 .. m : i \in 1 .. m + n
  BY <1>1
<1>5. \A i \in 1 .. n : m + i \in 1 .. m + n
  BY <1>1
<1>6. Range(r) = Range(s) \cup Range(t)
  <2>1. ASSUME NEW i \in 1 .. m + n PROVE r[i] \in Range(s) \cup Range(t)
    <3>1. CASE i \in 1 .. m
      BY <1>1, <1>2, <3>1 DEF Range
    <3>2. ASSUME NEW j \in 1 .. n, i = m + j PROVE r[i] \in Range(t)
      BY <1>1, <1>2, <3>2 DEF Range
    <3> QED
      BY <1>3, <3>1, <3>2
  <2>2. \A x \in Range(s) : x \in Range(r)
    BY <1>1, <1>2, <1>4 DEF Range
  <2>3. \A x \in Range(t) : x \in Range(r)
    BY <1>1, <1>2, <1>5 DEF Range
  <2>4. Range(r) = {r[i] : i \in 1 .. m + n}
    BY <1>1 DEF Range
  <2> QED
    BY <2>1, <2>2, <2>3, <2>4
<1>7. ASSUME \A i, j \in DOMAIN s : s[i] = s[j] => i = j,
             \A i, j \in DOMAIN t : t[i] = t[j] => i = j,
             Range(s) \cap Range(t) = {}
      PROVE  \A i, j \in DOMAIN r : r[i] = r[j] => i = j
  <2> SUFFICES ASSUME NEW i \in 1 .. m + n, NEW j \in 1 .. m + n, r[i] = r[j]
               PROVE  i = j
    BY <1>1
  <2>1. CASE i \in 1 .. m /\ j \in 1 .. m
    BY <1>1, <1>2, <1>7, <2>1
  <2>2. ASSUME NEW k \in 1 .. n, NEW l \in 1 .. n, i = m + k, j = m + l PROVE i = j
    BY <1>1, <1>2, <1>7, <2>2
  <2>3. ASSUME NEW k \in 1 .. n, i \in 1 .. m, j = m + k PROVE FALSE
    <3>1. s[i] \in Range(s) /\ t[k] \in Range(t) /\ s[i] = t[k]
      BY <1>1, <1>2, <2>3 DEF Range
    <3> QED
      BY <1>7, <3>1
  <2>4. ASSUME NEW k \in 1 .. n, j \in 1 .. m, i = m + k PROVE FALSE
    <3>1. s[j] \in Range(s) /\ t[k] \in Range(t) /\ s[j] = t[k]
      BY <1>1, <1>2, <2>4 DEF Range
    <3> QED
      BY <1>7, <3>1
  <2> QED
    BY <1>3, <2>1, <2>2, <2>3, <2>4
<1> QED
  BY <1>1, <1>6, <1>7 DEF r, m, n

\* The beginnings of lists strung together, each the one before and another list.
LEMMA Flattened ==
  ASSUME NEW M, NEW q \in Seq(Seq(M))
  PROVE  \E f \in [0 .. Len(q) -> Seq(M)] :
           /\ f[0] = <<>>
           /\ \A i \in 1 .. Len(q) : f[i] = f[i - 1] \o q[i]
           /\ FlattenSeq(q) = f[Len(q)]
<1> DEFINE n == Len(q)
           Step(f, i) == IF i = 1 THEN q[i] ELSE f[i - 1] \o q[i]
           Upto(m) == \E f : f = [i \in 1 .. m |-> Step(f, i)]
           Bad == {m \in 0 .. n : ~ Upto(m)}
<1>1. n \in Nat /\ \A i \in 1 .. n : q[i] \in Seq(M)
  OBVIOUS
<1>2. Upto(0)
  <2> DEFINE e == [i \in 1 .. 0 |-> <<>>]
  <2>1. e = [i \in 1 .. 0 |-> Step(e, i)]
    OBVIOUS
  <2> QED
    BY <2>1
<1>3. ASSUME NEW m \in 1 .. n, Upto(m - 1)
      PROVE  Upto(m)
  <2>1. PICK f : f = [i \in 1 .. m - 1 |-> Step(f, i)]
    BY <1>3
  <2> DEFINE v == Step(f, m)
             g == [i \in 1 .. m |-> IF i = m THEN v ELSE f[i]]
  <2>2. m \in Nat /\ m >= 1
    BY <1>1
  <2>3. \A i \in 1 .. m - 1 : f[i] = Step(f, i)
    BY <2>1, Zenon
  <2>4. \A i \in 1 .. m : i # 1 => i - 1 \in 1 .. m - 1 /\ i - 1 # m /\ i - 1 \in 1 .. m
    BY <2>2
  <2> HIDE DEF v
  <2>5. \A i \in 1 .. m : Step(g, i) = Step(f, i)
    BY <2>4
  <2>6. \A i \in 1 .. m : i # m => i \in 1 .. m - 1
    BY <2>2
  <2>7. \A i \in 1 .. m : g[i] = Step(f, i)
    BY <2>3, <2>6 DEF v
  <2>8. g = [i \in 1 .. m |-> Step(f, i)]
    BY <2>3, <2>6 DEF v
  <2> HIDE DEF g, Step
  <2>9. g = [i \in 1 .. m |-> Step(g, i)]
    BY <2>5, <2>8
  <2> QED
    BY <2>9
<1> HIDE DEF Upto
<1>4. Upto(n)
  <2> SUFFICES ASSUME ~ Upto(n) PROVE FALSE
    OBVIOUS
  <2> HIDE DEF n
  <2>1. Bad # {} /\ Bad \subseteq Nat
    BY <1>1
  <2>2. PICK m \in Bad : \A k \in Bad : m <= k
    <3> HIDE DEF Bad
    <3> QED
      BY <2>1, LeastNumber
  <2>3. m \in 1 .. n /\ m \in Nat
    BY <1>1, <1>2
  <2>4. m - 1 \in 0 .. n /\ ~ (m <= m - 1)
    BY <2>3, <1>1
  <2>5. Upto(m - 1)
    BY <2>2, <2>4
  <2> QED
    BY <1>3, <2>3, <2>5
<1> DEFINE h == CHOOSE f : f = [i \in 1 .. n |-> Step(f, i)]
<1>5. h = [i \in 1 .. n |-> Step(h, i)]
  BY <1>4, Zenon DEF Upto
<1>6. FlattenSeq(q) = IF n = 0 THEN q ELSE h[n]
  BY DEF FlattenSeq
<1> HIDE DEF h
<1>7. \A i \in 1 .. n : h[i] = Step(h, i)
  <2> HIDE DEF Step, n
  <2> QED
    BY <1>5
<1>8. ASSUME NEW m \in 1 .. n, m # 1 => h[m - 1] \in Seq(M)
      PROVE  h[m] \in Seq(M)
  <2>1. h[m] = Step(h, m) /\ q[m] \in Seq(M)
    BY <1>1, <1>7
  <2> QED
    BY <1>8, <2>1
<1>9. \A i \in 1 .. n : h[i] \in Seq(M)
  <2> DEFINE Odd == {m \in 1 .. n : h[m] \notin Seq(M)}
  <2> HIDE DEF n
  <2> SUFFICES ASSUME Odd # {} PROVE FALSE
    OBVIOUS
  <2>1. Odd \subseteq Nat
    BY <1>1
  <2>2. PICK m \in Odd : \A k \in Odd : m <= k
    <3> HIDE DEF Odd
    <3> QED
      BY <2>1, LeastNumber
  <2>3. m \in 1 .. n /\ h[m] \notin Seq(M) /\ m \in Nat /\ ~ (m <= m - 1)
    BY <1>1
  <2>4. m # 1 /\ h[m - 1] \notin Seq(M)
    BY <1>8, <2>3
  <2>5. m - 1 \in 1 .. n
    BY <1>1, <2>3, <2>4
  <2> QED
    BY <2>2, <2>3, <2>4, <2>5
<1> DEFINE f == [i \in 0 .. n |-> IF i = 0 THEN <<>> ELSE h[i]]
<1>10. f \in [0 .. n -> Seq(M)]
  <2> HIDE DEF n
  <2>1. \A i \in 0 .. n : i # 0 => i \in 1 .. n
    BY <1>1
  <2> QED
    BY <1>9, <2>1
<1>11. f[0] = <<>>
  BY <1>1
<1>12. ASSUME NEW i \in 1 .. n PROVE f[i] = f[i - 1] \o q[i]
  <2>1. i \in Nat /\ i \in 0 .. n /\ i - 1 \in 0 .. n /\ i # 0 /\ (i = 1 <=> i - 1 = 0)
    BY <1>1
  <2>2. f[i] = Step(h, i) /\ f[i - 1] = IF i = 1 THEN <<>> ELSE h[i - 1]
    BY <1>7, <2>1
  <2>3. q[i] \in Seq(M) /\ <<>> \o q[i] = q[i]
    BY <1>1
  <2> QED
    BY <2>2, <2>3
<1>13. FlattenSeq(q) = f[n]
  <2>1. n = 0 => q = <<>>
    OBVIOUS
  <2>2. n \in 0 .. n
    BY <1>1
  <2> HIDE DEF n
  <2> QED
    BY <1>6, <2>1, <2>2
<1> HIDE DEF f
<1> QED
  BY <1>10, <1>11, <1>12, <1>13
=============================================================================
