----------------------------- MODULE DataLemmas -----------------------------
(***************************************************************************)
(* Lemmas about numbers, finite sets and sequences that the proofs about   *)
(* the components share.                                                   *)
(***************************************************************************)
EXTENDS Integers, Sequences, FiniteSets, Functions, FiniteSetsExt, FiniteSetTheorems,
        SequenceTheorems, WellFoundedInduction, TLAPS

-------------------------------------------------------------------------------
(* Numbers. *)

\* A non-empty set of natural numbers has a minimum.
LEMMA MinOfNats ==
  ASSUME NEW S \in SUBSET Nat, S # {}
  PROVE  Min(S) \in S /\ \A y \in S : Min(S) <= y
<1>1. PICK x \in S : \A y \in S : ~(<<y, x>> \in OpToRel(<, Nat))
  BY NatLessThanWellFounded, WFMin
<1>2. \A y \in S : x <= y
  <2> TAKE y \in S
  <2>1. x \in Nat /\ y \in Nat
    OBVIOUS
  <2>2. ~(<<y, x>> \in OpToRel(<, Nat))
    BY <1>1
  <2>3. <<y, x>> \in OpToRel(<, Nat) <=> y < x
    BY <2>1 DEF OpToRel
  <2>4. ~(y < x)
    BY <2>2, <2>3, Zenon
  <2> QED
    BY <2>1, <2>4
<1> QED
  BY <1>2 DEF Min

\* Finitely many integers, and at least one: there is a least and a greatest.
LEMMA MinMaxOfImage ==
  ASSUME NEW n \in Nat \ {0}, NEW f \in [1 .. n -> Int],
         NEW S, S = {f[i] : i \in 1 .. n}
  PROVE  /\ Min(S) \in S /\ \A y \in S : Min(S) <= y
         /\ Max(S) \in S /\ \A y \in S : Max(S) >= y
<1>1. ASSUME NEW g \in [1 .. n -> Int]
      PROVE  \E m \in 1 .. n : \A j \in 1 .. n : g[m] <= g[j]
  <2> DEFINE Least(k, m) == m \in 1 .. k /\ \A j \in 1 .. k : g[m] <= g[j]
             C == {k \in 1 .. n : ~\E m \in 1 .. n : Least(k, m)}
  <2>1. C = {}
    <3> SUFFICES ASSUME C # {} PROVE FALSE
      OBVIOUS
    <3>1. C \in SUBSET Nat
      OBVIOUS
    <3> PICK k : k = Min(C)
      OBVIOUS
    <3>2. k \in C /\ \A y \in C : k <= y
      <4> HIDE DEF C
      <4> QED
        BY <3>1, MinOfNats
    <3>3. k # 1
      <4>1. Least(1, 1) /\ 1 \in 1 .. n
        OBVIOUS
      <4> QED
        BY <3>2, <4>1
    <3>4. k \in 1 .. n
      BY <3>2
    <3>5. k - 1 \in 1 .. n
      BY ONLY <3>3, <3>4, n \in Nat
    <3>6. k - 1 \notin C
      <4> HIDE DEF C
      <4> QED
        BY <3>2, <3>4
    <3>7. PICK m \in 1 .. n : m \in 1 .. (k - 1) /\ \A j \in 1 .. (k - 1) : g[m] <= g[j]
      BY <3>5, <3>6
    <3>8. \A j \in 1 .. k : g[j] \in Int /\ (j = k \/ j \in 1 .. (k - 1))
      BY <3>4
    <3>9. CASE g[m] <= g[k]
      <4>1. m \in 1 .. k /\ \A j \in 1 .. k : g[m] <= g[j]
        BY ONLY <3>4, <3>7, <3>8, <3>9
      <4> QED
        BY <3>2, <4>1
    <3>10. CASE g[k] < g[m]
      <4>1. \A j \in 1 .. k : g[k] <= g[j]
        <5> TAKE j \in 1 .. k
        <5>1. g[m] \in Int /\ g[k] \in Int /\ g[j] \in Int
          BY <3>4, <3>7, <3>8
        <5>2. CASE j = k
          BY <5>1, <5>2
        <5>3. CASE j \in 1 .. (k - 1)
          <6>1. g[m] <= g[j]
            BY <3>7, <5>3
          <6> QED
            BY ONLY <3>10, <5>1, <6>1
        <5> QED
          BY <3>8, <5>2, <5>3
      <4>2. k \in 1 .. k
        BY <3>4
      <4> QED
        BY <3>2, <3>4, <4>1, <4>2
    <3>11. g[m] \in Int /\ g[k] \in Int
      BY <3>4
    <3> QED
      BY <3>9, <3>10, <3>11
  <2>2. n \notin C /\ n \in 1 .. n
    <3>1. n \in 1 .. n
      OBVIOUS
    <3> HIDE DEF C
    <3> QED
      BY <2>1, <3>1
  <2>3. PICK m \in 1 .. n : m \in 1 .. n /\ \A j \in 1 .. n : g[m] <= g[j]
    <3>1. \E m \in 1 .. n : Least(n, m)
      BY <2>2, Zenon
    <3> QED
      BY <3>1
  <2> QED
    BY <2>3
<1>2. S \in SUBSET Int
  OBVIOUS
<1>3. \E x \in S : \A y \in S : x <= y
  <2>1. PICK m \in 1 .. n : \A j \in 1 .. n : f[m] <= f[j]
    BY <1>1
  <2> QED
    BY <2>1
<1>4. \E x \in S : \A y \in S : x >= y
  <2> PICK g : g = [i \in 1 .. n |-> -f[i]]
    OBVIOUS
  <2>1. g \in [1 .. n -> Int]
    OBVIOUS
  <2>2. PICK m \in 1 .. n : \A j \in 1 .. n : g[m] <= g[j]
    BY <1>1, <2>1
  <2>3. \A j \in 1 .. n : f[m] >= f[j]
    BY <2>2
  <2> QED
    BY <2>3
<1>5. Min(S) \in S /\ \A y \in S : Min(S) <= y
  BY ONLY <1>3 DEF Min
<1>6. Max(S) \in S /\ \A y \in S : Max(S) >= y
  BY ONLY <1>4 DEF Max
<1> QED
  BY <1>5, <1>6

\* A flat index below a * b has its row below a.
LEMMA RowInRange ==
  ASSUME NEW a \in Nat, NEW b \in Nat, NEW k \in 0 .. (a * b - 1)
  PROVE  /\ b > 0
         /\ k \div b \in 0 .. (a - 1)
         /\ k % b \in 0 .. (b - 1)
<1>1. b > 0
  <2>1. CASE b = 0
    <3>1. a * b = 0
      BY <2>1
    <3> QED
      BY <3>1
  <2> QED
    BY <2>1
<1> DEFINE q == k \div b
           r == k % b
<1>2. q \in Int /\ r \in 0 .. (b - 1) /\ k = b * q + r
  BY <1>1
<1> HIDE DEF q, r
<1>3. q >= 0
  <2>1. SUFFICES ASSUME q <= -1 PROVE FALSE
    BY <1>2
  <2>2. b * q <= b * (-1)
    BY <1>1, <1>2, <2>1
  <2> QED
    BY <1>1, <1>2, <2>2
<1>4. q < a
  <2>1. SUFFICES ASSUME q >= a PROVE FALSE
    BY <1>2
  <2>2. b * q >= b * a
    BY <1>1, <1>2, <2>1
  <2>3. b * a = a * b
    OBVIOUS
  <2> QED
    BY <1>2, <2>2, <2>3
<1> QED
  BY <1>1, <1>2, <1>3, <1>4 DEF q, r

\* Row r and column c give the flat index r * b + c, which decodes to them.
LEMMA FlatIndex ==
  ASSUME NEW a \in Nat, NEW b \in Nat, NEW r \in 0 .. (a - 1), NEW c \in 0 .. (b - 1)
  PROVE  /\ r * b + c \in 0 .. (a * b - 1)
         /\ (r * b + c) \div b = r
         /\ (r * b + c) % b = c
<1> PICK k \in Int : k = r * b + c
  OBVIOUS
<1>1. b > 0 /\ k >= 0
  <2>1. r * b >= 0
    OBVIOUS
  <2> QED
    BY <2>1
<1>2. k <= a * b - 1
  <2>1. r * b <= (a - 1) * b
    <3>1. r <= a - 1 /\ r \in Int /\ a - 1 \in Int
      OBVIOUS
    <3> QED
      BY <3>1
  <2>2. (a - 1) * b = a * b - b
    OBVIOUS
  <2> QED
    BY <2>1, <2>2
<1>3. k \div b = r /\ k % b = c
  <2>1. k = b * r + c
    OBVIOUS
  <2> QED
    BY <1>1, <2>1
<1> QED
  BY <1>1, <1>2, <1>3

-------------------------------------------------------------------------------
(* Finite sets of numbers. *)

\* The numbers from 1 to n are n.
LEMMA CountToN ==
  ASSUME NEW n \in Nat
  PROVE  IsFiniteSet(1 .. n) /\ Cardinality(1 .. n) = n
<1>1. IsFiniteSet(1 .. n) /\ Cardinality(1 .. n) = IF 1 > n THEN 0 ELSE n - 1 + 1
  BY FS_Interval
<1> QED
  BY <1>1

\* A set of numbers up to n is finite and has at most n elements.
LEMMA CountBelow ==
  ASSUME NEW n \in Nat, NEW T \in SUBSET (1 .. n)
  PROVE  IsFiniteSet(T) /\ Cardinality(T) \in 0 .. n
<1>1. IsFiniteSet(T) /\ Cardinality(T) <= Cardinality(1 .. n)
  BY CountToN, FS_Subset
<1>2. Cardinality(T) \in Nat
  BY <1>1, FS_CardinalityType
<1> QED
  BY <1>1, <1>2, CountToN

\* A set that has every number below each of its members is an initial segment,
\* and its cardinality is where it ends.
LEMMA InitialSegment ==
  ASSUME NEW n \in Nat, NEW T \in SUBSET (1 .. n),
         \A i \in T : \A j \in 1 .. i : j \in T
  PROVE  Cardinality(T) \in 0 .. n /\ T = 1 .. Cardinality(T)
<1> DEFINE C == (1 .. (n + 1)) \ T
           k == Min(C)
<1>1. C \in SUBSET Nat /\ n + 1 \in C
  OBVIOUS
<1>2. k \in C /\ \A y \in C : k <= y
  <2> HIDE DEF C
  <2> QED
    BY <1>1, MinOfNats
<1> HIDE DEF k
<1>3. T = 1 .. (k - 1)
  <2>1. \A j \in 1 .. (k - 1) : j \in T
    BY <1>2
  <2>2. \A i \in T : i <= k - 1
    BY <1>2
  <2>3. k \in Int /\ \A i \in T : i \in Int /\ 1 <= i
    BY <1>2
  <2> HIDE DEF C
  <2>4. T \subseteq 1 .. (k - 1)
    BY <2>2, <2>3
  <2>5. 1 .. (k - 1) \subseteq T
    BY <2>1
  <2> QED
    BY <2>4, <2>5
<1>4. k - 1 \in Nat
  BY <1>2
<1>5. Cardinality(T) = k - 1
  BY <1>3, <1>4, CountToN
<1> QED
  BY <1>2, <1>3, <1>5

\* The members of a set by the number of members of lower rank.
ByRank(T, rank) ==
    [k \in 1 .. Cardinality(T) |->
        CHOOSE x \in T : Cardinality({y \in T : rank[y] < rank[x]}) = k - 1]

\* The elements of f are those of T, in their order, without a gap.
Lists(f, T) ==
    /\ f \in [1 .. Cardinality(T) -> T]
    /\ \A i, j \in 1 .. Cardinality(T) : i < j => f[i] < f[j]
    /\ \A x \in T : \E k \in 1 .. Cardinality(T) : f[k] = x

\* In a set of numbers up to n, the number of smaller members ranks the members
\* without gaps: so they can be listed in their order.
LEMMA Enumeration ==
  ASSUME NEW n \in Nat, NEW T \in SUBSET (1 .. n),
         NEW rank, rank = [x \in T |-> x]
  PROVE  Cardinality(T) \in 0 .. n /\ Lists(ByRank(T, rank), T)
<1> DEFINE Rank(x) == Cardinality({y \in T : rank[y] < rank[x]})
           c == Cardinality(T)
           f == [k \in 1 .. c |-> CHOOSE x \in T : Rank(x) = k - 1]
<1>0. \A x \in T : x \in Int /\ rank[x] = x
  OBVIOUS
<1>1. c \in 0 .. n /\ IsFiniteSet(T)
  BY CountBelow
<1>2. ASSUME NEW x \in T
      PROVE  Rank(x) \in 0 .. (c - 1)
  <2> DEFINE B == {y \in T : rank[y] < rank[x]}
  <2>1. B \subseteq T \ {x}
    BY <1>0
  <2>2. IsFiniteSet(T \ {x}) /\ Cardinality(T \ {x}) = c - 1
    BY <1>1, FS_RemoveElement
  <2>3. IsFiniteSet(B) /\ Cardinality(B) <= c - 1
    <3> HIDE DEF B, c
    <3> QED
      BY <2>1, <2>2, FS_Subset
  <2>4. Cardinality(B) \in Nat
    <3> HIDE DEF B
    <3> QED
      BY <2>3, FS_CardinalityType
  <2> HIDE DEF B, c
  <2>5. Cardinality(B) \in 0 .. (c - 1)
    BY <1>1, <2>3, <2>4
  <2> QED
    BY <2>5 DEF B
<1>3. ASSUME NEW x \in T, NEW z \in T, x < z
      PROVE  Rank(x) < Rank(z)
  <2> DEFINE B == {y \in T : rank[y] < rank[x]}
             C == {y \in T : rank[y] < rank[z]}
  <2>0. x \in Int /\ z \in Int /\ T \subseteq Int
    OBVIOUS
  <2>1. B \subseteq C \ {x} /\ x \in C /\ C \subseteq T
    <3>1. x \in C /\ C \subseteq T
      BY <1>0, <1>3
    <3>2. ASSUME NEW y \in B PROVE y \in C /\ y # x
      BY <1>0, <1>3, <2>0
    <3> QED
      BY <3>1, <3>2
  <2>2. IsFiniteSet(C)
    <3> HIDE DEF C
    <3> QED
      BY <1>1, <2>1, FS_Subset
  <2>3. IsFiniteSet(C \ {x}) /\ Cardinality(C \ {x}) = Cardinality(C) - 1
    <3> HIDE DEF C
    <3> QED
      BY <2>1, <2>2, FS_RemoveElement
  <2>4. IsFiniteSet(B) /\ Cardinality(B) <= Cardinality(C) - 1
    <3> HIDE DEF B, C
    <3> QED
      BY <2>1, <2>3, FS_Subset
  <2>5. Cardinality(B) \in Nat /\ Cardinality(C) \in Nat
    <3> HIDE DEF B, C
    <3> QED
      BY <2>2, <2>4, FS_CardinalityType
  <2>6. Cardinality(B) < Cardinality(C)
    <3> HIDE DEF B, C
    <3> QED
      BY <2>4, <2>5
  <2> QED
    BY <2>6
<1>4. ASSUME NEW k \in 1 .. c
      PROVE  \E x \in T : Rank(x) = k - 1
  <2> DEFINE r == [x \in T |-> Rank(x)]
  <2> HIDE DEF Rank
  <2>1. r \in [T -> 0 .. (c - 1)]
    BY <1>2
  <2>2. \A x, y \in T : r[x] = r[y] => x = y
    <3> SUFFICES ASSUME NEW x \in T, NEW y \in T, r[x] = r[y], x # y PROVE FALSE
      OBVIOUS
    <3>1. x \in Int /\ y \in Int /\ Rank(x) = Rank(y) /\ Rank(x) \in Int
      BY <1>2
    <3>2. x < y \/ y < x
      BY <3>1
    <3>3. Rank(x) < Rank(y) \/ Rank(y) < Rank(x)
      BY <1>3, <3>2
    <3> QED
      BY <3>1, <3>3
  <2>3. r \in Injection(T, 0 .. (c - 1))
    BY <2>1, <2>2 DEF Injection, IsInjective
  <2>4. IsFiniteSet(0 .. (c - 1)) /\ Cardinality(0 .. (c - 1)) = c
    <3>1. c - 1 \in Int /\ 0 \in Int /\ c \in Nat
      BY <1>1
    <3>2. /\ IsFiniteSet(0 .. (c - 1))
          /\ Cardinality(0 .. (c - 1)) = IF 0 > c - 1 THEN 0 ELSE (c - 1) - 0 + 1
      BY <3>1, FS_Interval
    <3> HIDE DEF c
    <3> QED
      BY <3>1, <3>2
  <2>5. r \in Surjection(T, 0 .. (c - 1))
    <3> HIDE DEF r
    <3> QED
      BY <2>3, <2>4, FS_Injection
  <2>6. k - 1 \in 0 .. (c - 1)
    <3> HIDE DEF c
    <3> QED
      BY <1>1
  <2>7. PICK x \in T : r[x] = k - 1
    BY <2>5, <2>6 DEF Surjection
  <2> QED
    BY <2>7
<1>5. \A k \in 1 .. c : f[k] \in T /\ Rank(f[k]) = k - 1
  <2> TAKE k \in 1 .. c
  <2> HIDE DEF Rank
  <2>1. f[k] = CHOOSE x \in T : Rank(x) = k - 1
    OBVIOUS
  <2> QED
    BY <1>4, <2>1
<1>6. f \in [1 .. c -> T]
  <2>1. \A k \in 1 .. c : (CHOOSE x \in T : Rank(x) = k - 1) \in T
    <3> TAKE k \in 1 .. c
    <3> HIDE DEF Rank, c
    <3>1. f[k] \in T
      <4> HIDE DEF f
      <4> QED
        BY <1>5
    <3>2. f[k] = CHOOSE x \in T : Rank(x) = k - 1
      OBVIOUS
    <3> QED
      BY <3>1, <3>2, Zenon
  <2> HIDE DEF Rank, c
  <2> QED
    BY <2>1
<1> HIDE DEF Rank, c, f
<1>7. ASSUME NEW i \in 1 .. c, NEW j \in 1 .. c, i < j
      PROVE  f[i] < f[j]
  <2>1. f[i] \in Int /\ f[j] \in Int /\ f[i] \in T /\ f[j] \in T
    <3>1. f[i] \in T /\ f[j] \in T
      BY <1>5
    <3>2. f[i] \in 1 .. n /\ f[j] \in 1 .. n
      BY <3>1
    <3> QED
      BY <3>1, <3>2
  <2>2. Rank(f[i]) < Rank(f[j])
    BY <1>1, <1>5, <1>7
  <2>3. ~(f[j] < f[i]) /\ f[i] # f[j]
    <3>1. ~(f[j] < f[i])
      <4> SUFFICES ASSUME f[j] < f[i] PROVE FALSE
        OBVIOUS
      <4>1. Rank(f[j]) < Rank(f[i]) /\ Rank(f[i]) \in Int /\ Rank(f[j]) \in Int
        BY <1>2, <1>3, <2>1
      <4> QED
        BY <2>2, <4>1
    <3>2. Rank(f[i]) \in Int
      BY <1>2, <2>1
    <3> QED
      BY <2>2, <3>1, <3>2
  <2> QED
    BY <2>1, <2>3
<1>8. ASSUME NEW x \in T
      PROVE  \E k \in 1 .. c : f[k] = x
  <2> PICK k \in Int : k = Rank(x) + 1
    BY <1>2
  <2>1. k \in 1 .. c /\ Rank(x) = k - 1
    BY <1>1, <1>2
  <2>2. f[k] \in T /\ Rank(f[k]) = Rank(x)
    BY <1>5, <2>1
  <2>3. x \in Int /\ f[k] \in Int /\ Rank(x) \in Int
    <3>1. Rank(x) \in 0 .. (c - 1)
      BY <1>2
    <3>2. x \in 1 .. n /\ f[k] \in 1 .. n
      BY <2>2
    <3> QED
      BY <3>1, <3>2
  <2>4. ~(x < f[k])
    BY <1>3, <2>2, <2>3
  <2>5. ~(f[k] < x)
    BY <1>3, <2>2, <2>3
  <2>6. f[k] = x
    BY <2>3, <2>4, <2>5
  <2> QED
    BY <2>1, <2>6
<1> QED
  <2>1. ByRank(T, rank) = f
    BY DEF ByRank, f, Rank, c
  <2> QED
    BY <1>1, <1>6, <1>7, <1>8, <2>1 DEF Lists, c

-------------------------------------------------------------------------------
(* Sequences. *)

\* Two sequences without repetition and without a common element concatenate
\* to a sequence without repetition.
LEMMA ConcatInjective ==
  ASSUME NEW S, NEW s \in Seq(S), NEW r \in Seq(S),
         IsInjective(s), IsInjective(r), Range(s) \intersect Range(r) = {}
  PROVE  IsInjective(s \o r)
<1> SUFFICES ASSUME NEW a \in DOMAIN (s \o r), NEW b \in DOMAIN (s \o r),
                    (s \o r)[a] = (s \o r)[b]
             PROVE  a = b
  BY DEF IsInjective
<1>1. /\ a \in 1 .. Len(s) + Len(r)
      /\ b \in 1 .. Len(s) + Len(r)
      /\ Len(s) \in Nat /\ Len(r) \in Nat
  OBVIOUS
<1>2. \A i \in 1 .. Len(s) + Len(r) :
         (s \o r)[i] = IF i <= Len(s) THEN s[i] ELSE r[i - Len(s)]
  BY ConcatProperties
<1>3. \A i \in 1 .. Len(s) : s[i] \in Range(s)
  BY DEF Range
<1>4. \A i \in 1 .. Len(r) : r[i] \in Range(r)
  BY DEF Range
<1>5. CASE a <= Len(s) /\ b <= Len(s)
  <2>1. s[a] = s[b] /\ a \in DOMAIN s /\ b \in DOMAIN s
    BY <1>1, <1>2, <1>5
  <2> QED
    BY <2>1 DEF IsInjective
<1>6. CASE a > Len(s) /\ b > Len(s)
  <2>1. /\ r[a - Len(s)] = r[b - Len(s)]
        /\ a - Len(s) \in DOMAIN r /\ b - Len(s) \in DOMAIN r
    BY <1>1, <1>2, <1>6
  <2>2. a - Len(s) = b - Len(s)
    BY <2>1 DEF IsInjective
  <2> QED
    BY <1>1, <2>2
<1>7. CASE a <= Len(s) /\ b > Len(s)
  <2>1. s[a] = r[b - Len(s)] /\ a \in 1 .. Len(s) /\ b - Len(s) \in 1 .. Len(r)
    BY <1>1, <1>2, <1>7
  <2> QED
    BY <2>1, <1>3, <1>4
<1>8. CASE a > Len(s) /\ b <= Len(s)
  <2>1. r[a - Len(s)] = s[b] /\ b \in 1 .. Len(s) /\ a - Len(s) \in 1 .. Len(r)
    BY <1>1, <1>2, <1>8
  <2> QED
    BY <2>1, <1>3, <1>4
<1> QED
  BY <1>1, <1>5, <1>6, <1>7, <1>8

\* Appending adds the new element to the range, and a new element causes no
\* repetition.
LEMMA AppendRange ==
  ASSUME NEW S, NEW s \in Seq(S), NEW e \in S
  PROVE  /\ Range(Append(s, e)) = Range(s) \union {e}
         /\ IsInjective(s) /\ e \notin Range(s) => IsInjective(Append(s, e))
<1>1. <<e>> \in Seq(S) /\ Append(s, e) = s \o <<e>>
  BY AppendIsConcat
<1>2. Range(<<e>>) = {e}
  BY DEF Range
<1>3. IsInjective(<<e>>)
  BY DEF IsInjective
<1>4. Range(Append(s, e)) = Range(s) \union {e}
  <2>1. Range(s \o <<e>>) = Range(s) \union Range(<<e>>)
    BY <1>1, RangeConcatenation
  <2> QED
    BY <1>1, <1>2, <2>1
<1>5. ASSUME IsInjective(s), e \notin Range(s) PROVE IsInjective(Append(s, e))
  BY <1>1, <1>2, <1>3, <1>5, ConcatInjective
<1> QED
  BY <1>4, <1>5

\* The empty sequence has no elements and no repetition.
LEMMA EmptyRange == Range(<<>>) = {} /\ IsInjective(<<>>)
BY DEF Range, IsInjective

\* An element of a concatenation is one of the first or of the second sequence.
LEMMA ConcatPosition ==
  ASSUME NEW S, NEW s \in Seq(S), NEW r \in Seq(S), NEW p \in DOMAIN (s \o r)
  PROVE  \/ p \in DOMAIN s /\ (s \o r)[p] = s[p]
         \/ p - Len(s) \in DOMAIN r /\ (s \o r)[p] = r[p - Len(s)]
<1>1. /\ p \in 1 .. Len(s) + Len(r)
      /\ Len(s) \in Nat /\ Len(r) \in Nat
      /\ DOMAIN s = 1 .. Len(s) /\ DOMAIN r = 1 .. Len(r)
  OBVIOUS
<1>2. (s \o r)[p] = IF p <= Len(s) THEN s[p] ELSE r[p - Len(s)]
  BY <1>1, ConcatProperties
<1> QED
  BY <1>1, <1>2

\* An element of an extended sequence is an old one or the new one, which comes
\* last.
LEMMA AppendPosition ==
  ASSUME NEW S, NEW s \in Seq(S), NEW e \in S, NEW p \in DOMAIN Append(s, e)
  PROVE  \/ p \in DOMAIN s /\ Append(s, e)[p] = s[p]
         \/ p = Len(s) + 1 /\ Append(s, e)[p] = e
BY AppendProperties

\* Without its first element.
LEMMA TailRange ==
  ASSUME NEW S, NEW s \in Seq(S), s # <<>>
  PROVE  /\ Head(s) \in S /\ Tail(s) \in Seq(S)
         /\ Range(s) = {Head(s)} \union Range(Tail(s))
         /\ IsInjective(s) => Head(s) \notin Range(Tail(s)) /\ IsInjective(Tail(s))
<1> PICK n \in Nat \ {0} : n = Len(s)
  OBVIOUS
<1> PICK r : r = Tail(s)
  OBVIOUS
<1>1. /\ Head(s) = s[1] /\ s[1] \in S
      /\ r \in Seq(S) /\ DOMAIN r = 1 .. (n - 1) /\ DOMAIN s = 1 .. n
      /\ \A i \in 1 .. (n - 1) : r[i] = s[i + 1]
  OBVIOUS
<1>2. Range(s) = {s[1]} \union Range(r)
  <2>1. \A i \in 1 .. n : i = 1 \/ (i - 1 \in 1 .. (n - 1) /\ s[i] = r[i - 1])
    BY <1>1
  <2>2. \A i \in 1 .. (n - 1) : i + 1 \in 1 .. n /\ r[i] = s[i + 1]
    BY <1>1
  <2>3. ASSUME NEW x \in Range(s) PROVE x = s[1] \/ x \in Range(r)
    <3> PICK i \in 1 .. n : x = s[i]
      BY <1>1 DEF Range
    <3> QED
      BY <1>1, <2>1 DEF Range
  <2>4. ASSUME NEW x \in Range(r) PROVE x \in Range(s)
    <3> PICK i \in 1 .. (n - 1) : x = r[i]
      BY <1>1 DEF Range
    <3> QED
      BY <1>1, <2>2 DEF Range
  <2>5. s[1] \in Range(s)
    BY <1>1 DEF Range
  <2> QED
    BY <2>3, <2>4, <2>5
<1>3. ASSUME IsInjective(s) PROVE s[1] \notin Range(r) /\ IsInjective(r)
  <2>1. \A i \in 1 .. (n - 1) : 1 \in 1 .. n /\ i + 1 \in 1 .. n /\ i + 1 # 1
    OBVIOUS
  <2>2. s[1] \notin Range(r)
    BY <1>1, <1>3, <2>1 DEF Range, IsInjective
  <2>3. \A i, j \in 1 .. (n - 1) : r[i] = r[j] => i + 1 = j + 1
    BY <1>1, <1>3, <2>1 DEF IsInjective
  <2> QED
    BY <1>1, <2>2, <2>3 DEF IsInjective
<1> QED
  BY <1>1, <1>2, <1>3

\* How often x is in a sequence.
Occurrences(s, x) == Cardinality({i \in DOMAIN s : s[i] = x})

\* Numbers moved up by m are as many as before.
LEMMA Shifted ==
  ASSUME NEW n \in Nat, NEW T \in SUBSET (1 .. n), NEW m \in Nat
  PROVE  /\ IsFiniteSet({i + m : i \in T})
         /\ Cardinality({i + m : i \in T}) = Cardinality(T)
<1> DEFINE U == {i + m : i \in T}
           f == [i \in T |-> i + m]
<1>1. IsFiniteSet(T)
  BY CountBelow
<1>2. f \in Bijection(T, U)
  <2>1. \A i, j \in T : i + m = j + m => i = j
    OBVIOUS
  <2> QED
    BY <2>1 DEF Bijection, Injection, Surjection, IsInjective
<1>3. ExistsBijection(T, U)
  BY <1>2 DEF ExistsBijection
<1> QED
  BY <1>1, <1>3, FS_Bijection

\* Occurrences in two sequences add up.
LEMMA OccurrencesJoin ==
  ASSUME NEW S, NEW s \in Seq(S), NEW r \in Seq(S), NEW x
  PROVE  /\ Occurrences(s, x) \in Nat
         /\ Occurrences(s \o r, x) = Occurrences(s, x) + Occurrences(r, x)
<1> PICK m \in Nat : m = Len(s)
  OBVIOUS
<1> PICK n \in Nat : n = Len(r)
  OBVIOUS
<1> PICK A : A = {i \in 1 .. m : s[i] = x}
  OBVIOUS
<1> PICK B : B = {i \in 1 .. n : r[i] = x}
  OBVIOUS
<1> PICK C : C = {i + m : i \in B}
  OBVIOUS
<1> PICK q : q = s \o r
  OBVIOUS
<1>1. DOMAIN s = 1 .. m /\ DOMAIN r = 1 .. n
  OBVIOUS
<1>2. DOMAIN q = 1 .. (m + n) /\ \A i \in 1 .. (m + n) : q[i] = IF i <= m THEN s[i] ELSE r[i - m]
  BY ConcatProperties
<1>3. {i \in DOMAIN q : q[i] = x} = A \union C
  <2>1. ASSUME NEW i \in 1 .. (m + n), q[i] = x PROVE i \in A \union C
    <3>1. CASE i <= m
      BY <1>2, <2>1, <3>1
    <3>2. CASE ~(i <= m)
      <4>1. i - m \in B /\ (i - m) + m = i
        BY <1>2, <2>1, <3>2
      <4> QED
        BY <4>1
    <3> QED
      BY <3>1, <3>2
  <2>2. ASSUME NEW i \in A PROVE i \in 1 .. (m + n) /\ q[i] = x
    BY <1>2
  <2>3. ASSUME NEW i \in C PROVE i \in 1 .. (m + n) /\ q[i] = x
    <3> PICK j \in B : i = j + m
      OBVIOUS
    <3>1. j \in 1 .. n /\ r[j] = x /\ i - m = j /\ i \in 1 .. (m + n) /\ ~(i <= m)
      OBVIOUS
    <3> QED
      BY <1>2, <3>1
  <2> QED
    BY <1>2, <2>1, <2>2, <2>3
<1>4. A \intersect C = {}
  OBVIOUS
<1>5. /\ IsFiniteSet(A) /\ IsFiniteSet(B) /\ IsFiniteSet(C)
      /\ Cardinality(A) \in Nat /\ Cardinality(B) \in Nat /\ Cardinality(C) = Cardinality(B)
  <2>1. A \in SUBSET (1 .. m) /\ B \in SUBSET (1 .. n)
    OBVIOUS
  <2>2. IsFiniteSet(A) /\ IsFiniteSet(B) /\ Cardinality(A) \in Nat /\ Cardinality(B) \in Nat
    BY <2>1, CountBelow
  <2>3. IsFiniteSet(C) /\ Cardinality(C) = Cardinality(B)
    BY ONLY <2>1, Shifted, C = {i + m : i \in B}, m \in Nat, n \in Nat
  <2> QED
    BY <2>2, <2>3
<1>6. Cardinality(A \union C) = Cardinality(A) + Cardinality(B)
  <2>1. Cardinality(A \union C) = Cardinality(A) + Cardinality(C) - Cardinality(A \intersect C)
    BY <1>5, FS_Union
  <2>2. Cardinality(A \intersect C) = 0
    BY <1>4, FS_EmptySet
  <2> QED
    BY <1>5, <2>1, <2>2
<1>7. /\ Occurrences(s, x) = Cardinality(A) /\ Occurrences(r, x) = Cardinality(B)
      /\ Occurrences(q, x) = Cardinality(A \union C)
  BY <1>1, <1>3 DEF Occurrences
<1> QED
  BY <1>5, <1>6, <1>7

\* In a sequence without repetition an element is once.
LEMMA OccurrencesOnce ==
  ASSUME NEW S, NEW s \in Seq(S), IsInjective(s), NEW x
  PROVE  Occurrences(s, x) = IF x \in Range(s) THEN 1 ELSE 0
<1>1. CASE x \in Range(s)
  <2>1. PICK i \in DOMAIN s : s[i] = x
    BY <1>1 DEF Range
  <2>2. {j \in DOMAIN s : s[j] = x} = {i}
    BY <2>1 DEF IsInjective
  <2> QED
    BY <1>1, <2>2, FS_Singleton DEF Occurrences
<1>2. CASE x \notin Range(s)
  <2>1. {j \in DOMAIN s : s[j] = x} = {}
    BY <1>2 DEF Range
  <2> QED
    BY <1>2, <2>1, FS_EmptySet DEF Occurrences
<1> QED
  BY <1>1, <1>2

\* Without its first element a sequence has that element once less.
LEMMA OccurrencesTail ==
  ASSUME NEW S, NEW s \in Seq(S), s # <<>>, NEW x
  PROVE  Occurrences(s, x) = (IF x = Head(s) THEN 1 ELSE 0) + Occurrences(Tail(s), x)
<1> PICK h : h = Head(s)
  OBVIOUS
<1> PICK r : r = Tail(s)
  OBVIOUS
<1>1. h \in S /\ r \in Seq(S) /\ s = <<h>> \o r
  OBVIOUS
<1>2. <<h>> \in Seq(S) /\ IsInjective(<<h>>) /\ Range(<<h>>) = {h}
  BY <1>1 DEF IsInjective, Range
<1>3. Occurrences(<<h>>, x) = IF x = h THEN 1 ELSE 0
  BY <1>2, OccurrencesOnce
<1>4. Occurrences(<<h>> \o r, x) = Occurrences(<<h>>, x) + Occurrences(r, x)
  BY ONLY <1>1, <1>2, OccurrencesJoin
<1> QED
  BY <1>1, <1>3, <1>4

-------------------------------------------------------------------------------
(* Sums. *)

\* The sum of the values of f on the finite set S.
Pick(s) == CHOOSE x \in s : TRUE
Sums(g, f, S) ==
    g = [s \in SUBSET S |-> IF s = {} THEN 0 ELSE f[Pick(s)] + g[s \ {Pick(s)}]]

\* A subset of a finite set without one of its elements is smaller.
LEMMA SmallerSet ==
  ASSUME NEW S, IsFiniteSet(S), NEW s \in SUBSET S
  PROVE  /\ IsFiniteSet(s) /\ Cardinality(s) \in Nat
         /\ s = {} <=> Cardinality(s) = 0
         /\ \A x \in s : Cardinality(s \ {x}) = Cardinality(s) - 1
<1>1. IsFiniteSet(s)
  BY FS_Subset
<1> QED
  BY <1>1, FS_CardinalityType, FS_EmptySet, FS_RemoveElement

\* The sums of all subsets are defined.
LEMMA SumsExist ==
  ASSUME NEW f, NEW S, IsFiniteSet(S)
  PROVE  \E g : Sums(g, f, S)
<1> DEFINE Small(k) == {s \in SUBSET S : Cardinality(s) <= k}
           Rest(s) == s \ {Pick(s)}
           Upto(g, k) == g = [s \in Small(k) |-> IF s = {} THEN 0 ELSE f[Pick(s)] + g[Rest(s)]]
           Bad == {k \in Nat : ~\E g : Upto(g, k)}
<1>1. \A s \in SUBSET S : s # {} => Pick(s) \in s
  BY DEF Pick
<1>2. \A s \in SUBSET S : s # {} => /\ Rest(s) \in SUBSET S
                                    /\ Cardinality(Rest(s)) = Cardinality(s) - 1
  BY <1>1, SmallerSet
<1>3. \A s \in SUBSET S : Cardinality(s) \in Nat /\ (Cardinality(s) = 0 <=> s = {})
  BY SmallerSet
<1> HIDE DEF Rest, Upto
<1>4. Bad = {}
  <2> SUFFICES ASSUME Bad # {} PROVE FALSE
    OBVIOUS
  <2>1. Bad \in SUBSET Nat
    OBVIOUS
  <2> PICK k : k = Min(Bad)
    OBVIOUS
  <2>2. k \in Bad /\ \A y \in Bad : k <= y
    BY <2>1, MinOfNats
  <2>3. k \in Nat
    BY <2>2
  <2>4. CASE k = 0
    <3> DEFINE g == [s \in Small(0) |-> 0]
    <3>1. \A s \in Small(0) : s = {}
      BY <1>3
    <3>2. Upto(g, 0)
      BY <3>1 DEF Upto
    <3> QED
      BY <3>2, <2>4, <2>2
  <2>5. CASE k # 0
    <3>1. k - 1 \in Nat /\ ~(k <= k - 1)
      BY <2>3, <2>5
    <3>2. k - 1 \notin Bad
      <4> HIDE DEF Bad
      <4> QED
        BY <3>1, <2>2
    <3>3. PICK f1 : Upto(f1, k - 1)
      BY <3>1, <3>2
    <3> DEFINE g == [s \in Small(k) |-> IF s = {} THEN 0 ELSE f[Pick(s)] + f1[Rest(s)]]
    <3>4. \A s \in Small(k - 1) : s \in Small(k) /\ f1[s] = g[s]
      <4> TAKE s \in Small(k - 1)
      <4>1. s \in Small(k)
        BY <1>3, <2>3
      <4>2. f1[s] = IF s = {} THEN 0 ELSE f[Pick(s)] + f1[Rest(s)]
        BY <3>3 DEF Upto
      <4> QED
        BY <4>1, <4>2
    <3>5. \A s \in Small(k) : s # {} => Rest(s) \in Small(k - 1)
      BY <1>2, <1>3, <2>3
    <3>6. Upto(g, k)
      <4>1. \A s \in Small(k) : s # {} => f1[Rest(s)] = g[Rest(s)]
        BY <3>4, <3>5
      <4> HIDE DEF Small
      <4>2. g = [s \in Small(k) |-> IF s = {} THEN 0 ELSE f[Pick(s)] + g[Rest(s)]]
        BY <4>1
      <4> HIDE DEF g
      <4> QED
        BY <4>2 DEF Upto
    <3> QED
      BY <2>2, <3>6
  <2> QED
    BY <2>4, <2>5
<1> PICK n : n = Cardinality(S)
  OBVIOUS
<1>5. n \in Nat /\ \A s \in SUBSET S : Cardinality(s) <= n
  BY FS_CardinalityType, FS_Subset
<1>6. Small(n) = SUBSET S
  BY <1>5
<1>7. PICK g : Upto(g, n)
  BY <1>4, <1>5
<1>8. Sums(g, f, S)
  BY <1>6, <1>7 DEF Upto, Sums, Rest
<1> QED
  BY <1>8

\* Whatever element is taken away first, the sum is the same.
LEMMA SumsTake ==
  ASSUME NEW S, IsFiniteSet(S), NEW f, \A x \in S : f[x] \in Int, NEW g, Sums(g, f, S)
  PROVE  /\ g[{}] = 0
         /\ \A s \in SUBSET S : g[s] \in Int /\ \A x \in s : g[s] = f[x] + g[s \ {x}]
<1> DEFINE Right(s) == g[s] \in Int /\ \A x \in s : g[s] = f[x] + g[s \ {x}]
           Bad == {k \in Nat : \E s \in SUBSET S : Cardinality(s) = k /\ ~Right(s)}
<1>1. \A s \in SUBSET S : g[s] = IF s = {} THEN 0 ELSE f[Pick(s)] + g[s \ {Pick(s)}]
  BY DEF Sums
<1>2. g[{}] = 0
  BY <1>1
<1>3. Bad = {}
  <2> SUFFICES ASSUME Bad # {} PROVE FALSE
    OBVIOUS
  <2> HIDE DEF Right
  <2>1. Bad \in SUBSET Nat
    OBVIOUS
  <2> PICK k : k = Min(Bad)
    OBVIOUS
  <2>2. k \in Bad /\ \A y \in Bad : k <= y
    BY <2>1, MinOfNats
  <2>3. PICK s \in SUBSET S : Cardinality(s) = k /\ ~Right(s)
    BY <2>2
  <2>4. ASSUME NEW r \in SUBSET S, Cardinality(r) = k - 1 PROVE Right(r)
    <3>1. k - 1 \in Nat /\ ~(k <= k - 1)
      BY <2>4, <2>2, SmallerSet
    <3>2. k - 1 \notin Bad
      <4> HIDE DEF Bad
      <4> QED
        BY <3>1, <2>2
    <3> QED
      BY <2>4, <3>1, <3>2
  <2>5. CASE s = {}
    BY <2>3, <2>5, <1>2 DEF Right
  <2>6. CASE s # {}
    <3> PICK c : c = Pick(s)
      OBVIOUS
    <3>1. c \in s /\ g[s] = f[c] + g[s \ {c}]
      BY <1>1, <2>6 DEF Pick
    <3>2. \A x \in s : /\ s \ {x} \in SUBSET S /\ Right(s \ {x}) /\ f[x] \in Int
      BY <2>3, <2>4, SmallerSet
    <3>3. ASSUME NEW x \in s PROVE g[s] = f[x] + g[s \ {x}]
      <4>1. CASE x = c
        BY <3>1, <4>1
      <4>2. CASE x # c
        <5>1. g[s \ {c}] = f[x] + g[(s \ {c}) \ {x}]
          BY <3>1, <3>2, <4>2 DEF Right
        <5>2. g[s \ {x}] = f[c] + g[(s \ {x}) \ {c}]
          BY <3>1, <3>2, <4>2 DEF Right
        <5>3. (s \ {c}) \ {x} = (s \ {x}) \ {c}
          OBVIOUS
        <5> PICK rest : rest = (s \ {c}) \ {x}
          OBVIOUS
        <5>4. g[rest] \in Int
          <6>1. x \in s \ {c} /\ s \ {c} \in SUBSET S /\ Cardinality(s \ {c}) = k - 1
            BY <2>3, <3>1, <4>2, SmallerSet
          <6> PICK r : r = s \ {c}
            OBVIOUS
          <6>2. rest \in SUBSET S /\ Cardinality(rest) = (k - 1) - 1 /\ Cardinality(rest) \in Nat
            <7>1. Cardinality(r \ {x}) = Cardinality(r) - 1
              BY ONLY <6>1, SmallerSet, r = s \ {c}, IsFiniteSet(S)
            <7>2. rest = r \ {x} /\ rest \in SUBSET S
              BY <6>1
            <7> QED
              BY <6>1, <7>1, <7>2, SmallerSet
          <6>3. k \in Nat /\ k - 2 \in Nat /\ Cardinality(rest) = k - 2
            BY <2>2, <6>2
          <6>4. k - 2 \notin Bad
            <7>1. ~(k <= k - 2)
              BY <6>3
            <7> HIDE DEF Bad
            <7> QED
              BY <7>1, <2>2
          <6>5. Right(rest)
            <7> HIDE DEF Right
            <7> QED
              BY <6>2, <6>3, <6>4
          <6> QED
            BY <6>5 DEF Right
        <5>5. f[x] \in Int /\ f[c] \in Int
          BY <3>1, <3>2
        <5>6. g[s \ {c}] = f[x] + g[rest] /\ g[s \ {x}] = f[c] + g[rest]
          BY <5>1, <5>2, <5>3
        <5> QED
          BY ONLY <5>4, <5>5, <5>6, <3>1
      <4> QED
        BY <4>1, <4>2
    <3>4. g[s] \in Int
      <4>1. g[s \ {c}] \in Int /\ f[c] \in Int
        BY <3>1, <3>2 DEF Right
      <4> QED
        BY <3>1, <4>1
    <3> QED
      BY <2>3, <3>3, <3>4 DEF Right
  <2> QED
    BY <2>5, <2>6
<1>4. ASSUME NEW s \in SUBSET S PROVE Right(s)
  <2>1. Cardinality(s) \in Nat
    BY SmallerSet
  <2> HIDE DEF Right
  <2> QED
    BY <2>1, <1>3
<1> QED
  BY <1>2, <1>4

\* The sums depend on the values only.
LEMMA SumsSame ==
  ASSUME NEW S, IsFiniteSet(S), NEW T \in SUBSET S, NEW f, NEW e, \A x \in T : f[x] = e[x],
         NEW g, Sums(g, f, S), NEW h, Sums(h, e, T)
  PROVE  g[T] = h[T]
<1> DEFINE Bad == {k \in Nat : \E s \in SUBSET T : Cardinality(s) = k /\ g[s] # h[s]}
<1>1. ASSUME NEW s \in SUBSET T
      PROVE  /\ g[s] = IF s = {} THEN 0 ELSE f[Pick(s)] + g[s \ {Pick(s)}]
             /\ h[s] = IF s = {} THEN 0 ELSE e[Pick(s)] + h[s \ {Pick(s)}]
             /\ s # {} => Pick(s) \in s
             /\ Cardinality(s) \in Nat
             /\ \A x \in s : Cardinality(s \ {x}) = Cardinality(s) - 1
  <2>1. s \in SUBSET S
    OBVIOUS
  <2>2. s # {} => Pick(s) \in s
    BY DEF Pick
  <2> QED
    BY <2>1, <2>2, SmallerSet DEF Sums
<1>2. Bad = {}
  <2> SUFFICES ASSUME Bad # {} PROVE FALSE
    OBVIOUS
  <2>1. Bad \in SUBSET Nat
    OBVIOUS
  <2> PICK k : k = Min(Bad)
    OBVIOUS
  <2>2. k \in Bad /\ \A y \in Bad : k <= y
    BY <2>1, MinOfNats
  <2>3. PICK s \in SUBSET T : Cardinality(s) = k /\ g[s] # h[s]
    BY <2>2
  <2>4. s # {}
    BY <2>3, <1>1
  <2> PICK rest : rest = s \ {Pick(s)}
    OBVIOUS
  <2>5. rest \in SUBSET T /\ Cardinality(rest) = k - 1 /\ k \in Nat /\ Cardinality(rest) \in Nat
    BY <1>1, <2>2, <2>3, <2>4
  <2>6. g[rest] = h[rest]
    <3>1. k - 1 \in Nat /\ ~(k <= k - 1)
      BY <2>5
    <3>2. k - 1 \notin Bad
      <4> HIDE DEF Bad
      <4> QED
        BY <3>1, <2>2
    <3> QED
      BY <2>5, <3>1, <3>2
  <2> QED
    BY <1>1, <2>3, <2>4, <2>6
<1>3. Cardinality(T) \in Nat /\ T \in SUBSET T
  BY <1>1
<1> QED
  BY <1>2, <1>3

Sum(f, S) == (CHOOSE g : Sums(g, f, S))[S]

\* Taking one element away takes its value away.
LEMMA SumTake ==
  ASSUME NEW S, IsFiniteSet(S), NEW f, \A x \in S : f[x] \in Int
  PROVE  /\ Sum(f, S) \in Int
         /\ S = {} => Sum(f, S) = 0
         /\ \A x \in S : Sum(f, S) = f[x] + Sum(f, S \ {x})
<1> PICK g : g = CHOOSE h : Sums(h, f, S)
  OBVIOUS
<1>1. Sums(g, f, S)
  BY SumsExist
<1>2. Sum(f, S) = g[S]
  BY DEF Sum
<1>3. /\ g[{}] = 0
      /\ \A s \in SUBSET S : g[s] \in Int /\ \A x \in s : g[s] = f[x] + g[s \ {x}]
  BY ONLY <1>1, SumsTake, IsFiniteSet(S), \A x \in S : f[x] \in Int
<1>4. ASSUME NEW x \in S PROVE g[S \ {x}] = Sum(f, S \ {x})
  <2> PICK T : T = S \ {x}
    OBVIOUS
  <2>1. IsFiniteSet(T) /\ T \in SUBSET S
    BY SmallerSet
  <2>2. Sums(CHOOSE h : Sums(h, f, T), f, T)
    BY <2>1, SumsExist
  <2> QED
    BY <1>1, <2>1, <2>2, SumsSame DEF Sum
<1>5. g[S] \in Int /\ \A x \in S : g[S] = f[x] + g[S \ {x}]
  BY <1>3
<1>6. S = {} => g[S] = 0
  BY <1>3
<1> QED
  BY <1>2, <1>4, <1>5, <1>6

\* Sums of equal values are equal.
LEMMA SumSame ==
  ASSUME NEW S, IsFiniteSet(S), NEW f, NEW e, \A x \in S : f[x] = e[x]
  PROVE  Sum(f, S) = Sum(e, S)
<1>1. /\ Sums(CHOOSE h : Sums(h, f, S), f, S)
      /\ Sums(CHOOSE h : Sums(h, e, S), e, S)
  BY SumsExist
<1> QED
  BY <1>1, SumsSame DEF Sum

\* A sum in which one value changes.
LEMMA SumChange ==
  ASSUME NEW S, IsFiniteSet(S), NEW f, NEW e, \A x \in S : f[x] \in Int /\ e[x] \in Int,
         NEW t \in S, \A x \in S \ {t} : f[x] = e[x]
  PROVE  Sum(e, S) = Sum(f, S) + e[t] - f[t]
<1> PICK T : T = S \ {t}
  OBVIOUS
<1>1. IsFiniteSet(T)
  BY SmallerSet
<1>2. Sum(f, T) = Sum(e, T) /\ Sum(f, T) \in Int
  BY <1>1, SumSame, SumTake
<1>3. Sum(f, S) = f[t] + Sum(f, T) /\ Sum(e, S) = e[t] + Sum(e, T)
  BY SumTake
<1> QED
  BY <1>2, <1>3

\* What is nothing can be left out.
LEMMA SumPart ==
  ASSUME NEW S, IsFiniteSet(S), NEW f, \A x \in S : f[x] \in Int,
         NEW T \in SUBSET S, \A x \in S \ T : f[x] = 0
  PROVE  Sum(f, S) = Sum(f, T)
<1> DEFINE Bad == {k \in Nat : \E s \in SUBSET S :
                       Cardinality(s) = k /\ T \subseteq s /\ Sum(f, s) # Sum(f, T)}
<1>1. Bad = {}
  <2> SUFFICES ASSUME Bad # {} PROVE FALSE
    OBVIOUS
  <2>1. Bad \in SUBSET Nat
    OBVIOUS
  <2> PICK k : k = Min(Bad)
    OBVIOUS
  <2>2. k \in Bad /\ \A y \in Bad : k <= y
    BY <2>1, MinOfNats
  <2>3. PICK s \in SUBSET S : Cardinality(s) = k /\ T \subseteq s /\ Sum(f, s) # Sum(f, T)
    BY <2>2
  <2>4. PICK x \in s : x \notin T
    BY <2>3
  <2> PICK rest : rest = s \ {x}
    OBVIOUS
  <2>5. /\ rest \in SUBSET S /\ T \subseteq rest /\ IsFiniteSet(s)
        /\ Cardinality(rest) = k - 1 /\ k \in Nat /\ Cardinality(rest) \in Nat
    BY <2>2, <2>3, <2>4, SmallerSet
  <2>6. Sum(f, rest) = Sum(f, T)
    <3>1. k - 1 \in Nat /\ ~(k <= k - 1)
      BY <2>5
    <3>2. k - 1 \notin Bad
      <4> HIDE DEF Bad
      <4> QED
        BY <3>1, <2>2
    <3> QED
      BY <2>5, <3>1, <3>2
  <2>7. Sum(f, s) = f[x] + Sum(f, rest) /\ Sum(f, rest) \in Int /\ f[x] = 0
    <3>1. IsFiniteSet(rest)
      BY <2>5, SmallerSet
    <3> QED
      BY <2>3, <2>4, <2>5, <3>1, SumTake
  <2> QED
    BY <2>3, <2>6, <2>7
<1>2. Cardinality(S) \in Nat /\ S \in SUBSET S
  BY SmallerSet
<1> QED
  BY <1>1, <1>2
===============================================================================
