------------------------ MODULE GeometrySelectionProofs ------------------------
(***************************************************************************)
(* The containers for any width of the identifiers and any size, and the     *)
(* lookups of the field for any set of coordinates.                         *)
(*                                                                         *)
(* The container is sorted, and the order of the packed identifiers is that  *)
(* of their components: hence the bounds of a search delimit exactly what is  *)
(* asked for, and equal keys lie together.  A group begins where its key does. *)
(***************************************************************************)
EXTENDS GeometrySelection, FieldProvider, DataLemmas

-------------------------------------------------------------------------------
(* The order of identifiers. *)

\* Numbers of two digits are ordered by the first, then by the second.
LEMMA DigitsOrdered ==
  ASSUME NEW b \in Nat \ {0}, NEW a \in Nat, NEW c \in Nat,
         NEW r \in 0 .. (b - 1), NEW s \in 0 .. (b - 1)
  PROVE  a * b + r < c * b + s <=> a < c \/ (a = c /\ r < s)
<1>1. ASSUME NEW m \in Nat, NEW n \in Nat, m < n
      PROVE  n * b >= m * b + b
  <2> PICK d \in Nat : d = n - m - 1
    BY <1>1
  <2>1. n = m + 1 + d
    OBVIOUS
  <2>2. n * b = m * b + b + d * b
    BY <2>1
  <2>3. d * b >= 0 /\ d * b \in Int /\ m * b \in Int
    OBVIOUS
  <2> QED
    BY <2>2, <2>3
<1> PICK p \in Int, q \in Int : p = a * b /\ q = c * b
  OBVIOUS
<1>2. CASE a < c
  <2>1. q >= p + b
    BY <1>1, <1>2
  <2>2. p + r < q + s
    BY <2>1
  <2> QED
    BY <1>2, <2>2
<1>3. CASE c < a
  <2>1. p >= q + b
    BY <1>1, <1>3
  <2>2. ~(p + r < q + s)
    BY <2>1
  <2> QED
    BY <1>3, <2>2
<1>4. CASE a = c
  <2>1. p = q
    BY <1>4
  <2> QED
    BY <1>4, <2>1
<1> QED
  BY <1>2, <1>3, <1>4

\* d comes before e: the volume decides, then the layer, then the sensitive.
Before(d, e) ==
    \/ d.volume < e.volume
    \/ d.volume = e.volume /\ d.layer < e.layer
    \/ d.volume = e.volume /\ d.layer = e.layer /\ d.sensitive < e.sensitive

\* The packed integers are ordered as the components are.
LEMMA ValueOrder ==
  ASSUME NEW d \in Id, NEW e \in Id
  PROVE  /\ Value(d) \in Int /\ Value(e) \in Int
         /\ Value(d) < Value(e) <=> Before(d, e)
<1>1. /\ d.volume \in Nat /\ d.layer \in 0 .. (LayerRange - 1)
      /\ d.sensitive \in 0 .. (SensitiveRange - 1)
      /\ e.volume \in Nat /\ e.layer \in 0 .. (LayerRange - 1)
      /\ e.sensitive \in 0 .. (SensitiveRange - 1)
  BY DEF Id
<1>2. LayerRange \in Nat \ {0} /\ SensitiveRange \in Nat \ {0}
  BY RangeAssumption
<1> PICK p, q : p = d.volume * LayerRange + d.layer /\ q = e.volume * LayerRange + e.layer
  OBVIOUS
<1>3. p \in Nat /\ q \in Nat
  <2>1. d.volume * LayerRange \in Nat /\ e.volume * LayerRange \in Nat
    BY <1>1, <1>2
  <2> QED
    BY <1>1, <2>1
<1>4. p < q <=> d.volume < e.volume \/ (d.volume = e.volume /\ d.layer < e.layer)
  BY <1>1, <1>2, DigitsOrdered
<1>5. q < p <=> e.volume < d.volume \/ (e.volume = d.volume /\ e.layer < d.layer)
  BY <1>1, <1>2, DigitsOrdered
<1>6. p = q <=> d.volume = e.volume /\ d.layer = e.layer
  BY <1>1, <1>2, <1>3, <1>4, <1>5
<1>7. /\ Value(d) = p * SensitiveRange + d.sensitive
      /\ Value(e) = q * SensitiveRange + e.sensitive
  BY DEF Value
<1>8. Value(d) \in Int /\ Value(e) \in Int
  <2>1. p * SensitiveRange \in Int /\ q * SensitiveRange \in Int
    BY <1>2, <1>3
  <2> QED
    BY <1>1, <1>7, <2>1
<1>9. Value(d) < Value(e) <=> p < q \/ (p = q /\ d.sensitive < e.sensitive)
  <2> PICK r, s : r = d.sensitive /\ s = e.sensitive
    OBVIOUS
  <2>1. r \in 0 .. (SensitiveRange - 1) /\ s \in 0 .. (SensitiveRange - 1)
    BY <1>1
  <2>2. p * SensitiveRange + r < q * SensitiveRange + s <=> p < q \/ (p = q /\ r < s)
    BY ONLY <1>2, <1>3, <2>1, DigitsOrdered
  <2> QED
    BY <1>7, <2>2
<1> QED
  BY <1>4, <1>6, <1>8, <1>9 DEF Before

\* Different identifiers have different packed integers.
LEMMA ValueInjective ==
  ASSUME NEW d \in Id, NEW e \in Id, Value(d) = Value(e)
  PROVE  d = e
<1>1. ~(Value(d) < Value(e)) /\ ~(Value(e) < Value(d))
  BY ValueOrder
<1>2. ~Before(d, e) /\ ~Before(e, d)
  BY <1>1, ValueOrder
<1>3. /\ d.volume \in Int /\ d.layer \in Int /\ d.sensitive \in Int
      /\ e.volume \in Int /\ e.layer \in Int /\ e.sensitive \in Int
  BY RangeAssumption DEF Id
<1>4. d.volume = e.volume /\ d.layer = e.layer /\ d.sensitive = e.sensitive
  BY <1>2, <1>3 DEF Before
<1> QED
  BY <1>4 DEF Id

\* A component in its range is itself; one step beyond the last wraps to zero.
LEMMA Wraps ==
  ASSUME NEW n \in Nat \ {0}, NEW x \in 0 .. (n - 1)
  PROVE  x % n = x /\ 0 % n = 0 /\ (x + 1) % n = IF x = n - 1 THEN 0 ELSE x + 1
<1>1. ASSUME NEW c \in 0 .. (n - 1) PROVE c % n = c
  <2>1. (0 * n + c) % n = c
    <3>1. 0 \in 0 .. (1 - 1) /\ 1 \in Nat /\ n \in Nat
      OBVIOUS
    <3> QED
      BY <3>1, FlatIndex
  <2>2. 0 * n + c = c
    OBVIOUS
  <2> QED
    BY <2>1, <2>2
<1>2. n % n = 0
  <2>1. (1 * n + 0) % n = 0
    <3>1. 1 \in 0 .. (2 - 1) /\ 2 \in Nat /\ n \in Nat /\ 0 \in 0 .. (n - 1)
      OBVIOUS
    <3> QED
      BY <3>1, FlatIndex
  <2>2. 1 * n + 0 = n
    OBVIOUS
  <2> QED
    BY <2>1, <2>2
<1>3. CASE x = n - 1
  <2>1. x + 1 = n
    BY <1>3
  <2> QED
    BY <1>1, <1>2, <1>3, <2>1
<1>4. CASE x # n - 1
  <2>1. x + 1 \in 0 .. (n - 1) /\ 0 \in 0 .. (n - 1)
    BY <1>4
  <2> QED
    BY <1>1, <1>4, <2>1
<1> QED
  BY <1>3, <1>4

-------------------------------------------------------------------------------
(* The searches of a sorted container. *)

\* The elements are in the order of their packed identifiers.
Sorted ==
    \A i, j \in 1 .. Len(elements) : i < j => Value(elements[i]) <= Value(elements[j])

\* The container holds identifiers, in order.
ContainerInv == elements \in Seq(Id) /\ Sorted

\* From its beginning on, a lower bound divides the elements below the
\* identifier from the others.
LEMMA LowerBoundDivides ==
  ASSUME ContainerInv, NEW from \in 1 .. End, NEW id \in Id
  PROVE  /\ LowerBound(from, id) \in from .. End
         /\ \A i \in from .. Len(elements) :
               i >= LowerBound(from, id) <=> ~(Value(elements[i]) < Value(id))
<1> DEFINE S == {i \in from .. End : i = End \/ Value(elements[i]) >= Value(id)}
<1> PICK k : k = Min(S)
  OBVIOUS
<1>1. Len(elements) \in Nat /\ End = Len(elements) + 1
  BY DEF ContainerInv, End, EndOf
<1>2. S \in SUBSET Nat /\ End \in S
  BY <1>1
<1>3. k \in S /\ \A y \in S : k <= y
  <2> HIDE DEF S
  <2> QED
    BY <1>2, MinOfNats
<1>4. k = LowerBound(from, id)
  BY DEF LowerBound
<1>5. k \in from .. End
  BY <1>3
<1>6. ASSUME NEW i \in 1 .. Len(elements)
      PROVE  Value(elements[i]) \in Int /\ Value(id) \in Int
  <2>1. elements[i] \in Id
    BY DEF ContainerInv
  <2> QED
    BY <2>1, ValueOrder
<1>7. ASSUME NEW i \in from .. Len(elements), i >= k
      PROVE  ~(Value(elements[i]) < Value(id))
  <2>1. k \in 1 .. Len(elements) /\ i \in 1 .. Len(elements) /\ k # End
    BY <1>1, <1>5, <1>7
  <2>2. Value(elements[k]) >= Value(id)
    BY <1>3, <2>1
  <2>3. i = k \/ Value(elements[k]) <= Value(elements[i])
    BY <1>7, <2>1 DEF ContainerInv, Sorted
  <2> QED
    BY <1>6, <2>1, <2>2, <2>3
<1>8. ASSUME NEW i \in from .. Len(elements), ~(i >= k)
      PROVE  Value(elements[i]) < Value(id)
  <2>1. i \in 1 .. Len(elements) /\ i \in from .. End
    BY <1>1
  <2>2. i \notin S
    BY <1>1, <1>3, <1>5, <1>8
  <2>3. ~(Value(elements[i]) >= Value(id))
    BY <2>1, <2>2
  <2> QED
    BY <1>6, <2>1, <2>3
<1> QED
  BY <1>4, <1>5, <1>7, <1>8

\* An upper bound divides the elements that are not above the identifier from
\* the others.
LEMMA UpperBoundDivides ==
  ASSUME ContainerInv, NEW from \in 1 .. End, NEW id \in Id
  PROVE  /\ UpperBound(from, id) \in from .. End
         /\ \A i \in from .. Len(elements) :
               i >= UpperBound(from, id) <=> Value(id) < Value(elements[i])
<1> DEFINE S == {i \in from .. End : i = End \/ Value(elements[i]) > Value(id)}
<1> PICK k : k = Min(S)
  OBVIOUS
<1>1. Len(elements) \in Nat /\ End = Len(elements) + 1
  BY DEF ContainerInv, End, EndOf
<1>2. S \in SUBSET Nat /\ End \in S
  BY <1>1
<1>3. k \in S /\ \A y \in S : k <= y
  <2> HIDE DEF S
  <2> QED
    BY <1>2, MinOfNats
<1>4. k = UpperBound(from, id)
  BY DEF UpperBound
<1>5. k \in from .. End
  BY <1>3
<1>6. ASSUME NEW i \in 1 .. Len(elements)
      PROVE  Value(elements[i]) \in Int /\ Value(id) \in Int
  <2>1. elements[i] \in Id
    BY DEF ContainerInv
  <2> QED
    BY <2>1, ValueOrder
<1>7. ASSUME NEW i \in from .. Len(elements), i >= k
      PROVE  Value(id) < Value(elements[i])
  <2>1. k \in 1 .. Len(elements) /\ i \in 1 .. Len(elements) /\ k # End
    BY <1>1, <1>5, <1>7
  <2>2. Value(elements[k]) > Value(id)
    BY <1>3, <2>1
  <2>3. i = k \/ Value(elements[k]) <= Value(elements[i])
    BY <1>7, <2>1 DEF ContainerInv, Sorted
  <2> QED
    BY <1>6, <2>1, <2>2, <2>3
<1>8. ASSUME NEW i \in from .. Len(elements), ~(i >= k)
      PROVE  ~(Value(id) < Value(elements[i]))
  <2>1. i \in 1 .. Len(elements) /\ i \in from .. End
    BY <1>1
  <2>2. i \notin S
    BY <1>1, <1>3, <1>5, <1>8
  <2>3. ~(Value(elements[i]) > Value(id))
    BY <2>1, <2>2
  <2> QED
    BY <1>6, <2>1, <2>3
<1> QED
  BY <1>4, <1>5, <1>7, <1>8

\* What lies between two bounds is what the identifiers enclose.
LEMMA BetweenBounds ==
  ASSUME ContainerInv, NEW lo \in Id, NEW up \in Id, NEW i \in 1 .. Len(elements)
  PROVE  /\ LowerBound(1, lo) <= i /\ i < LowerBound(LowerBound(1, lo), up)
            <=> ~Before(elements[i], lo) /\ Before(elements[i], up)
<1>1. Len(elements) \in Nat /\ End = Len(elements) + 1 /\ elements[i] \in Id
  BY DEF ContainerInv, End, EndOf
<1>2. 1 \in 1 .. End
  BY <1>1
<1> PICK beg : beg = LowerBound(1, lo)
  OBVIOUS
<1>3. /\ beg \in 1 .. End
      /\ i >= beg <=> ~(Value(elements[i]) < Value(lo))
  BY <1>1, <1>2, LowerBoundDivides
<1> PICK end : end = LowerBound(beg, up)
  OBVIOUS
<1>4. /\ end \in beg .. End
      /\ i >= beg => (i >= end <=> ~(Value(elements[i]) < Value(up)))
  <2>1. /\ end \in beg .. End
        /\ \A k \in beg .. Len(elements) : k >= end <=> ~(Value(elements[k]) < Value(up))
    BY <1>3, LowerBoundDivides
  <2> QED
    BY <1>1, <1>3, <2>1
<1>5. /\ Value(elements[i]) < Value(lo) <=> Before(elements[i], lo)
      /\ Value(elements[i]) < Value(up) <=> Before(elements[i], up)
  BY <1>1, ValueOrder
<1> QED
  BY <1>3, <1>4, <1>5

\* A selection is exactly what was asked for, and nothing at the edge of the
\* component that is selected by.
LEMMA SelectionExact ==
  ASSUME ContainerInv, NEW q \in Id, NEW i \in 1 .. Len(elements),
         NEW r, r = SelectLowestNonZeroGeometryObject(q)
  PROVE  r.from <= i /\ i < r.to <=> IsIn(elements[i], q) /\ ~AtTheEdge(q)
<1> PICK e \in Id : e = elements[i]
  BY DEF ContainerInv
<1>0. /\ q.volume \in 0 .. (VolumeRange - 1) /\ q.layer \in 0 .. (LayerRange - 1)
      /\ q.sensitive \in 0 .. (SensitiveRange - 1)
      /\ e.volume \in 0 .. (VolumeRange - 1) /\ e.layer \in 0 .. (LayerRange - 1)
      /\ e.sensitive \in 0 .. (SensitiveRange - 1)
  BY DEF Id
<1>1. /\ VolumeRange \in Nat \ {0} /\ LayerRange \in Nat \ {0} /\ SensitiveRange \in Nat \ {0}
      /\ Len(elements) \in Nat /\ End = Len(elements) + 1
  BY RangeAssumption DEF ContainerInv, End, EndOf
<1>2. /\ q.volume % VolumeRange = q.volume /\ 0 % LayerRange = 0 /\ 0 % SensitiveRange = 0
      /\ q.layer % LayerRange = q.layer
      /\ (q.volume + 1) % VolumeRange = IF q.volume = VolumeRange - 1 THEN 0 ELSE q.volume + 1
      /\ (q.layer + 1) % LayerRange = IF q.layer = LayerRange - 1 THEN 0 ELSE q.layer + 1
  BY <1>0, <1>1, Wraps
<1>3. CASE q.sensitive # 0
  <2>1. r = [from |-> LowerBound(1, q), to |-> UpperBound(1, q)]
    BY <1>3 DEF SelectLowestNonZeroGeometryObject, SelectModule
  <2>2. 1 \in 1 .. End /\ i \in 1 .. Len(elements)
    BY <1>1
  <2>3. /\ LowerBound(1, q) \in Int
        /\ i >= LowerBound(1, q) <=> ~(Value(e) < Value(q))
    <3>1. LowerBound(1, q) \in 1 .. End
      BY <2>2, LowerBoundDivides
    <3>2. i >= LowerBound(1, q) <=> ~(Value(e) < Value(q))
      BY <2>2, LowerBoundDivides
    <3> QED
      BY <3>1, <3>2
  <2>4. /\ UpperBound(1, q) \in Int
        /\ i >= UpperBound(1, q) <=> Value(q) < Value(e)
    <3>1. UpperBound(1, q) \in 1 .. End
      BY <2>2, UpperBoundDivides
    <3>2. i >= UpperBound(1, q) <=> Value(q) < Value(e)
      BY <2>2, UpperBoundDivides
    <3> QED
      BY <3>1, <3>2
  <2>5. r.from <= i /\ i < r.to <=> ~(Value(e) < Value(q)) /\ ~(Value(q) < Value(e))
    BY <2>1, <2>3, <2>4
  <2>6. Value(e) \in Int /\ Value(q) \in Int
    BY ValueOrder
  <2>7. ~(Value(e) < Value(q)) /\ ~(Value(q) < Value(e)) <=> Value(e) = Value(q)
    BY <2>6
  <2>8. Value(e) = Value(q) <=> e = q
    BY ValueInjective
  <2>9. IsIn(e, q) /\ ~AtTheEdge(q) <=> e = q
    BY <1>3 DEF IsIn, AtTheEdge
  <2> QED
    BY <2>5, <2>7, <2>8, <2>9
<1>4. CASE q.sensitive = 0 /\ q.layer # 0
  <2> DEFINE lo == [volume |-> q.volume, layer |-> q.layer, sensitive |-> 0]
             up == [volume |-> q.volume,
                    layer |-> IF q.layer = LayerRange - 1 THEN 0 ELSE q.layer + 1,
                    sensitive |-> 0]
  <2>1. lo \in Id /\ up \in Id
    BY <1>0, <1>1 DEF Id
  <2>2. /\ Identifier(q.volume, q.layer, 0) = lo
        /\ Identifier(q.volume, q.layer + 1, 0) = up
    BY <1>2 DEF Identifier
  <2>3. r = [from |-> LowerBound(1, lo), to |-> LowerBound(LowerBound(1, lo), up)]
    <3> HIDE DEF lo, up
    <3> QED
      BY <1>4, <2>2 DEF SelectLowestNonZeroGeometryObject, SelectLayer
  <2>4. r.from <= i /\ i < r.to <=> ~Before(e, lo) /\ Before(e, up)
    <3> HIDE DEF lo, up
    <3> QED
      BY <2>1, <2>3, BetweenBounds
  <2>5. ~Before(e, lo) <=> e.volume > q.volume \/ (e.volume = q.volume /\ e.layer >= q.layer)
    BY <1>0 DEF Before
  <2>6. CASE q.layer = LayerRange - 1
    <3>1. Before(e, up) <=> e.volume < q.volume
      BY <1>0, <2>6 DEF Before
    <3> QED
      BY <1>0, <1>4, <2>4, <2>5, <2>6, <3>1 DEF AtTheEdge
  <2>7. CASE q.layer # LayerRange - 1
    <3>1. Before(e, up) <=> e.volume < q.volume \/ (e.volume = q.volume /\ e.layer <= q.layer)
      BY <1>0, <2>7 DEF Before
    <3>2. r.from <= i /\ i < r.to <=> e.volume = q.volume /\ e.layer = q.layer
      BY <1>0, <2>4, <2>5, <3>1
    <3> QED
      BY <1>4, <2>7, <3>2 DEF AtTheEdge, IsIn
  <2> QED
    BY <2>6, <2>7
<1>5. CASE q.sensitive = 0 /\ q.layer = 0 /\ q.volume # 0
  <2> DEFINE lo == [volume |-> q.volume, layer |-> 0, sensitive |-> 0]
             up == [volume |-> IF q.volume = VolumeRange - 1 THEN 0 ELSE q.volume + 1,
                    layer |-> 0, sensitive |-> 0]
  <2>1. lo \in Id /\ up \in Id
    BY <1>0, <1>1 DEF Id
  <2>2. /\ Identifier(q.volume, 0, 0) = lo
        /\ Identifier(q.volume + 1, 0, 0) = up
    BY <1>2 DEF Identifier
  <2>3. r = [from |-> LowerBound(1, lo), to |-> LowerBound(LowerBound(1, lo), up)]
    <3> HIDE DEF lo, up
    <3> QED
      BY <1>5, <2>2 DEF SelectLowestNonZeroGeometryObject, SelectVolume
  <2>4. r.from <= i /\ i < r.to <=> ~Before(e, lo) /\ Before(e, up)
    <3> HIDE DEF lo, up
    <3> QED
      BY <2>1, <2>3, BetweenBounds
  <2>5. ~Before(e, lo) <=> e.volume >= q.volume
    BY <1>0 DEF Before
  <2>6. CASE q.volume = VolumeRange - 1
    <3>1. ~Before(e, up)
      BY <1>0, <2>6 DEF Before
    <3> QED
      BY <1>5, <2>4, <2>6, <3>1 DEF AtTheEdge
  <2>7. CASE q.volume # VolumeRange - 1
    <3>1. Before(e, up) <=> e.volume <= q.volume
      BY <1>0, <2>7 DEF Before
    <3>2. r.from <= i /\ i < r.to <=> e.volume = q.volume
      BY <1>0, <2>4, <2>5, <3>1
    <3> QED
      BY <1>5, <2>7, <3>2 DEF AtTheEdge, IsIn
  <2> QED
    BY <2>6, <2>7
<1>6. CASE q.sensitive = 0 /\ q.layer = 0 /\ q.volume = 0
  <2>1. r = [from |-> 1, to |-> End]
    BY <1>6 DEF SelectLowestNonZeroGeometryObject
  <2> QED
    BY <1>1, <1>6, <2>1 DEF IsIn, AtTheEdge
<1> QED
  BY <1>3, <1>4, <1>5, <1>6

-------------------------------------------------------------------------------
(* Groups. *)

\* A group goes to the first element of another key, or to the end.
LEMMA EndOfGroup ==
  ASSUME NEW S, NEW s \in Seq(S), NEW start \in 1 .. EndOf(s),
         NEW end, end = FindEndOfGroup(s, start)
  PROVE  /\ end \in start .. EndOf(s)
         /\ start # EndOf(s) => end # start
         /\ \A i \in start .. (end - 1) : s[i] = s[start]
         /\ end # EndOf(s) => s[end] # s[start]
<1> DEFINE T == {i \in start .. EndOf(s) : i = EndOf(s) \/ s[i] # s[start]}
<1>1. EndOf(s) = Len(s) + 1 /\ Len(s) \in Nat
  BY DEF EndOf
<1>2. T \in SUBSET Nat /\ EndOf(s) \in T
  BY <1>1
<1>3. end = Min(T)
  BY DEF FindEndOfGroup
<1>4. end \in T /\ \A y \in T : end <= y
  <2> HIDE DEF T
  <2> QED
    BY <1>2, <1>3, MinOfNats
<1>5. ASSUME NEW i \in start .. (end - 1) PROVE s[i] = s[start]
  <2>1. i \in start .. EndOf(s) /\ i < end
    BY <1>1, <1>4
  <2>2. i \notin T
    BY <1>1, <1>4, <2>1
  <2> QED
    BY <2>1, <2>2
<1> QED
  BY <1>1, <1>4, <1>5

\* The sequence s with e before its element at.
Inserted(s, at, e) == SubSeq(s, 1, at - 1) \o <<e>> \o SubSeq(s, at, Len(s))

\* r is s, with e before its element at.
IsInserted(r, s, at, e) ==
    /\ Len(r) = Len(s) + 1
    /\ \A i \in 1 .. (Len(s) + 1) :
          r[i] = IF i < at THEN s[i] ELSE IF i = at THEN e ELSE s[i - 1]

\* An element is inserted where it belongs, the rest stays in its order.
LEMMA InsertAt ==
  ASSUME NEW S, NEW s \in Seq(S), NEW e \in S, NEW at \in 1 .. (Len(s) + 1)
  PROVE  Inserted(s, at, e) \in Seq(S) /\ IsInserted(Inserted(s, at, e), s, at, e)
<1> PICK r : r = Inserted(s, at, e)
  OBVIOUS
<1> PICK n \in Nat : n = Len(s)
  OBVIOUS
<1> PICK a, b : a = SubSeq(s, 1, at - 1) /\ b = SubSeq(s, at, n)
  OBVIOUS
<1>1. a \in Seq(S) /\ Len(a) = at - 1 /\ \A i \in 1 .. (at - 1) : a[i] = s[i]
  OBVIOUS
<1>2. b \in Seq(S) /\ Len(b) = n - at + 1 /\ \A i \in 1 .. (n - at + 1) : b[i] = s[at + i - 1]
  <2>1. b = [i \in 1 .. (n - at + 1) |-> s[at + i - 1]] /\ n - at + 1 \in Nat
    BY SubSeqProperties
  <2>2. b \in [1 .. (n - at + 1) -> S]
    BY <2>1
  <2> QED
    BY <2>1, <2>2
<1>r. r = a \o <<e>> \o b
  BY DEF Inserted
<1> PICK m : m = a \o <<e>>
  OBVIOUS
<1>3. /\ m \in Seq(S) /\ Len(m) = at
      /\ \A i \in 1 .. at : m[i] = IF i < at THEN s[i] ELSE e
  BY <1>1
<1>4. /\ r \in Seq(S) /\ Len(r) = Len(m) + Len(b)
      /\ \A i \in 1 .. Len(m) + Len(b) : r[i] = IF i <= Len(m) THEN m[i] ELSE b[i - Len(m)]
  <2>1. r = m \o b
    BY <1>r
  <2>2. m \in Seq(S) /\ b \in Seq(S)
    BY <1>2, <1>3
  <2> QED
    BY ONLY <2>1, <2>2, ConcatProperties
<1>5. at \in 1 .. (n + 1) /\ Len(m) = at /\ Len(b) = n - at + 1 /\ Len(m) + Len(b) = n + 1
  <2>1. n \in Nat /\ at \in 1 .. (n + 1)
    OBVIOUS
  <2>2. Len(m) = at /\ Len(b) = n - at + 1
    BY <1>2, <1>3
  <2> QED
    BY ONLY <2>1, <2>2
<1>6. ASSUME NEW i \in 1 .. (n + 1)
      PROVE  r[i] = IF i < at THEN s[i] ELSE IF i = at THEN e ELSE s[i - 1]
  <2>0. r[i] = IF i <= at THEN m[i] ELSE b[i - at]
    BY <1>4, <1>5
  <2>1. CASE i <= at
    <3>1. i \in 1 .. at
      BY <1>5, <2>1
    <3>2. r[i] = IF i < at THEN s[i] ELSE e
      BY <1>3, <2>0, <2>1, <3>1
    <3> QED
      BY ONLY <2>1, <3>1, <3>2, i \in 1 .. (n + 1)
  <2>2. CASE i > at
    <3>1. i - at \in 1 .. (n - at + 1) /\ at + (i - at) - 1 = i - 1
      BY <1>5, <2>2
    <3>2. b[i - at] = s[at + (i - at) - 1]
      BY ONLY <1>2, <3>1
    <3>3. r[i] = s[i - 1]
      BY ONLY <1>5, <2>0, <2>2, <3>1, <3>2, i \in 1 .. (n + 1)
    <3> QED
      BY ONLY <1>5, <2>2, <3>3, i \in 1 .. (n + 1)
  <2>3. i <= at \/ i > at
    BY ONLY <1>5, i \in 1 .. (n + 1)
  <2> QED
    BY ONLY <2>1, <2>2, <2>3
<1>7. IsInserted(r, s, at, e)
  <2>1. Len(s) = n
    OBVIOUS
  <2> QED
    BY ONLY <1>4, <1>5, <1>6, <2>1 DEF IsInserted
<1> QED
  BY <1>4, <1>7

\* The group begins where its key does, and goes to the end of the key.
GroupInv ==
    /\ group.from \in 1 .. End
    /\ group.from # End =>
          /\ group.to = FindEndOfGroup(elements, group.from)
          /\ group.from > 1 => elements[group.from - 1] # elements[group.from]

SelectionInv == ContainerInv /\ GroupInv

\* An insertion keeps the order.
LEMMA InsertKeepsOrder ==
  ASSUME ContainerInv, NEW id \in Id, Insert(id)
  PROVE  ContainerInv' /\ Len(elements') = Len(elements) + 1
<1> PICK n \in Nat : n = Len(elements)
  BY DEF ContainerInv
<1>1. elements \in Seq(Id) /\ End = n + 1 /\ End - 1 = n /\ 1 \in 1 .. End
  BY DEF ContainerInv, End, EndOf
<1> PICK at : at = UpperBound(1, id)
  OBVIOUS
<1>2. /\ at \in 1 .. (n + 1)
      /\ \A i \in 1 .. n : i >= at <=> Value(id) < Value(elements[i])
  <2>1. /\ at \in 1 .. End
        /\ \A i \in 1 .. Len(elements) : i >= at <=> Value(id) < Value(elements[i])
    BY <1>1, UpperBoundDivides
  <2> QED
    BY <1>1, <2>1
<1> PICK r : r = elements'
  OBVIOUS
<1>3. r = Inserted(elements, at, id)
  BY <1>1 DEF Insert, Inserted
<1>4. /\ r \in Seq(Id) /\ Len(r) = n + 1
      /\ \A i \in 1 .. (n + 1) :
            r[i] = IF i < at THEN elements[i] ELSE IF i = at THEN id ELSE elements[i - 1]
  <2>1. at \in 1 .. (Len(elements) + 1)
    BY <1>2
  <2> QED
    <3>1. r \in Seq(Id) /\ IsInserted(r, elements, at, id)
      BY ONLY <1>1, <1>3, <2>1, id \in Id, InsertAt
    <3> QED
      BY <3>1 DEF IsInserted
<1>5. \A i \in 1 .. n : Value(elements[i]) \in Int /\ Value(id) \in Int
  <2> TAKE i \in 1 .. n
  <2>1. elements[i] \in Id
    BY <1>1
  <2> QED
    BY <2>1, ValueOrder
<1>6. ASSUME NEW i \in 1 .. (n + 1), NEW j \in 1 .. (n + 1), i < j
      PROVE  Value(r[i]) <= Value(r[j])
  <2>1. \A k, l \in 1 .. n : k < l => Value(elements[k]) <= Value(elements[l])
    BY DEF ContainerInv, Sorted
  <2>2. CASE j < at
    <3>1. i \in 1 .. n /\ j \in 1 .. n /\ r[i] = elements[i] /\ r[j] = elements[j]
      BY <1>2, <1>4, <1>6, <2>2
    <3> QED
      BY <1>6, <2>1, <3>1
  <2>3. CASE j = at
    <3>1. i \in 1 .. n /\ r[i] = elements[i] /\ r[j] = id /\ ~(i >= at)
      BY <1>2, <1>4, <1>6, <2>3
    <3>2. ~(Value(id) < Value(elements[i]))
      BY <1>2, <3>1
    <3> QED
      BY <1>5, <3>1, <3>2
  <2>4. CASE j > at /\ i < at
    <3>1. /\ i \in 1 .. n /\ j - 1 \in 1 .. n /\ i < j - 1
          /\ r[i] = elements[i] /\ r[j] = elements[j - 1]
      BY <1>2, <1>4, <1>6, <2>4
    <3> QED
      BY <2>1, <3>1
  <2>5. CASE j > at /\ i = at
    <3>1. /\ j - 1 \in 1 .. n /\ j - 1 >= at
          /\ r[i] = id /\ r[j] = elements[j - 1]
      BY <1>2, <1>4, <1>6, <2>5
    <3> QED
      BY <1>2, <1>5, <3>1
  <2>6. CASE i > at
    <3>1. /\ i - 1 \in 1 .. n /\ j - 1 \in 1 .. n /\ i - 1 < j - 1
          /\ r[i] = elements[i - 1] /\ r[j] = elements[j - 1]
      BY <1>2, <1>4, <1>6, <2>6
    <3> QED
      BY <2>1, <3>1
  <2> QED
    BY <1>2, <1>6, <2>2, <2>3, <2>4, <2>5, <2>6
<1> QED
  BY <1>4, <1>6 DEF ContainerInv, Sorted

\* Every operation keeps the container sorted and the group on its key.
LEMMA SelectionStep == SelectionInv /\ [Next]_vars => SelectionInv'
<1> SUFFICES ASSUME SelectionInv, [Next]_vars PROVE SelectionInv'
  OBVIOUS
<1> USE DEF SelectionInv
<1>0. Len(elements) \in Nat /\ End = Len(elements) + 1 /\ elements \in Seq(Id)
  BY DEF ContainerInv, End, EndOf
<1>1. ASSUME NEW id \in Id, Insert(id) PROVE SelectionInv'
  <2>1. ContainerInv' /\ Len(elements') = Len(elements) + 1
    BY <1>1, InsertKeepsOrder
  <2>2. End' = Len(elements) + 2 /\ End' = EndOf(elements')
    BY <1>0, <2>1 DEF End, EndOf
  <2>3. group'.from = 1 /\ group'.to = FindEndOfGroup(elements', 1)
    BY <1>1 DEF Insert
  <2>4. GroupInv'
    BY <1>0, <2>2, <2>3 DEF GroupInv
  <2> QED
    BY <2>1, <2>4
<1>2. ASSUME NEW id \in Id, Select(id) PROVE SelectionInv'
  BY <1>2 DEF Select, ContainerInv, Sorted, GroupInv, End
<1>3. CASE NextGroup
  <2> PICK from, to : from = group.from /\ to = group.to
    OBVIOUS
  <2>1. from \in 1 .. End /\ from # End /\ to = FindEndOfGroup(elements, from)
    BY <1>3 DEF NextGroup, GroupInv
  <2>2. /\ to \in from .. End
        /\ from # End => to # from
        /\ \A i \in from .. (to - 1) : elements[i] = elements[from]
        /\ to # End => elements[to] # elements[from]
    BY <1>0, <2>1, EndOfGroup DEF End
  <2>3. /\ elements' = elements
        /\ group'.from = to /\ group'.to = FindEndOfGroup(elements, to)
    BY <1>3 DEF NextGroup
  <2>4. to # End => elements[to - 1] # elements[to]
    <3>1. to - 1 \in from .. (to - 1)
      BY <1>0, <2>1, <2>2
    <3> QED
      BY <2>2, <3>1
  <2>5. End' = End /\ to \in 1 .. End
    BY <1>0, <2>1, <2>2, <2>3 DEF End, EndOf
  <2>6. GroupInv'
    BY <2>3, <2>4, <2>5 DEF GroupInv
  <2>7. ContainerInv'
    BY <2>3 DEF ContainerInv, Sorted
  <2> QED
    BY <2>6, <2>7
<1>4. CASE UNCHANGED vars
  BY <1>4 DEF vars, ContainerInv, Sorted, GroupInv, End
<1> QED
  BY <1>1, <1>2, <1>3, <1>4 DEF Next

\* In every behaviour the container is sorted and the group is on its key.
THEOREM SelectionCorrect == Spec => []SelectionInv
<1>1. Init => SelectionInv
  <2> SUFFICES ASSUME Init PROVE SelectionInv
    OBVIOUS
  <2>1. elements = << >> /\ group.from = 1
    BY DEF Init
  <2>2. elements \in Seq(Id) /\ Len(elements) = 0
    BY <2>1
  <2>3. End = 1
    BY <2>2 DEF End, EndOf
  <2> QED
    BY <2>1, <2>2, <2>3 DEF SelectionInv, ContainerInv, Sorted, GroupInv
<1> QED
  BY <1>1, SelectionStep, PTL DEF Spec

\* A group of groupByModule has every element of its geometry identifier, which is
\* its key, and no other, for any width of the identifiers and any container.
THEOREM GroupsAreComplete == Spec => []GroupsAreWhole
<1>1. SelectionInv => GroupsAreWhole
  <2> SUFFICES ASSUME SelectionInv, group.from # End, NEW i \in DOMAIN elements
               PROVE  group.from <= i /\ i < group.to <=> elements[i] = elements[group.from]
    BY DEF GroupsAreWhole
  <2> PICK from, to : from = group.from /\ to = group.to
    OBVIOUS
  <2>0. /\ Len(elements) \in Nat /\ End = Len(elements) + 1 /\ elements \in Seq(Id)
        /\ i \in 1 .. Len(elements)
    BY DEF SelectionInv, ContainerInv, End, EndOf
  <2>1. /\ from \in 1 .. End /\ from # End /\ to = FindEndOfGroup(elements, from)
        /\ from > 1 => elements[from - 1] # elements[from]
    BY DEF SelectionInv, GroupInv
  <2>2. /\ to \in from .. End
        /\ \A k \in from .. (to - 1) : elements[k] = elements[from]
        /\ to # End => elements[to] # elements[from]
    BY <2>0, <2>1, EndOfGroup DEF End
  <2>3. \A k, l \in 1 .. Len(elements) : k <= l => Value(elements[k]) <= Value(elements[l])
    <3> SUFFICES ASSUME NEW k \in 1 .. Len(elements), NEW l \in 1 .. Len(elements), k <= l
                 PROVE  Value(elements[k]) <= Value(elements[l])
      OBVIOUS
    <3>1. elements[k] \in Id
      BY <2>0
    <3>2. Value(elements[k]) \in Int
      BY <3>1, ValueOrder
    <3>3. CASE k = l
      BY <3>2, <3>3
    <3>4. CASE k < l
      BY <3>4 DEF SelectionInv, ContainerInv, Sorted
    <3> QED
      BY <3>3, <3>4
  <2>4. ASSUME NEW k \in 1 .. Len(elements), NEW l \in 1 .. Len(elements),
               NEW m \in 1 .. Len(elements), k <= l, l <= m, elements[k] = elements[m]
        PROVE  elements[l] = elements[k]
    <3>1. elements[k] \in Id /\ elements[l] \in Id
      BY <2>0
    <3>2. Value(elements[k]) \in Int /\ Value(elements[l]) \in Int
      BY <3>1, ValueOrder
    <3>3. Value(elements[k]) <= Value(elements[l]) /\ Value(elements[l]) <= Value(elements[k])
      BY <2>3, <2>4
    <3>4. Value(elements[k]) = Value(elements[l])
      BY <3>2, <3>3
    <3> QED
      BY <3>1, <3>4, ValueInjective
  <2>5. CASE i < from
    <3>1. /\ from > 1 /\ from - 1 \in 1 .. Len(elements) /\ from \in 1 .. Len(elements)
          /\ i <= from - 1 /\ from - 1 <= from
      BY <2>0, <2>1, <2>5
    <3>2. elements[i] # elements[from]
      <4> SUFFICES ASSUME elements[i] = elements[from] PROVE FALSE
        OBVIOUS
      <4>1. elements[from - 1] = elements[i]
        BY <2>0, <2>4, <3>1
      <4> QED
        BY <2>1, <3>1, <4>1
    <3> QED
      BY <2>0, <2>1, <2>5, <3>2
  <2>6. CASE from <= i /\ i < to
    BY <2>0, <2>1, <2>2, <2>6
  <2>7. CASE from <= i /\ to <= i
    <3>1. /\ to # End /\ to \in 1 .. Len(elements) /\ from \in 1 .. Len(elements)
          /\ from <= to
      BY <2>0, <2>1, <2>2, <2>7
    <3>2. elements[i] # elements[from]
      <4> SUFFICES ASSUME elements[i] = elements[from] PROVE FALSE
        OBVIOUS
      <4>1. elements[to] = elements[from]
        BY <2>0, <2>4, <2>7, <3>1
      <4> QED
        BY <2>2, <3>1, <4>1
    <3> QED
      BY <2>0, <2>1, <2>2, <2>7, <3>2
  <2> QED
    BY <2>0, <2>1, <2>2, <2>5, <2>6, <2>7
<1> QED
  BY <1>1, SelectionCorrect, PTL

\* A selection by volume, layer or module is exactly what was asked for, for any
\* width of the identifiers and any size of the container.
THEOREM SelectionsAreExact == Spec => SelectionIsExact
<1> DEFINE Exact ==
      elements' = elements /\ <<query, range>>' # <<query, range>> =>
          {i \in DOMAIN elements : range'.from <= i /\ i < range'.to} =
          {i \in DOMAIN elements : IsIn(elements[i], query') /\ ~AtTheEdge(query')}
<1>1. SelectionInv /\ [Next]_vars => [Exact]_vars
  <2> SUFFICES ASSUME SelectionInv, Next, elements' = elements,
                      <<query, range>>' # <<query, range>>,
                      NEW i \in DOMAIN elements
               PROVE  range'.from <= i /\ i < range'.to
                      <=> IsIn(elements[i], query') /\ ~AtTheEdge(query')
    OBVIOUS
  <2>1. ~\E id \in Id : Insert(id)
    <3> SUFFICES ASSUME NEW id \in Id, Insert(id) PROVE FALSE
      OBVIOUS
    <3>1. Len(elements') = Len(elements) + 1 /\ Len(elements) \in Nat
      BY InsertKeepsOrder DEF SelectionInv, ContainerInv
    <3> QED
      BY <3>1
  <2>2. ~NextGroup
    BY DEF NextGroup
  <2>3. PICK id \in Id : Select(id)
    BY <2>1, <2>2 DEF Next
  <2>4. query' = id /\ range' = SelectLowestNonZeroGeometryObject(id)
    BY <2>3 DEF Select
  <2>5. ContainerInv /\ i \in 1 .. Len(elements)
    BY DEF SelectionInv, ContainerInv
  <2> PICK r : r = SelectLowestNonZeroGeometryObject(id)
    OBVIOUS
  <2>6. r.from <= i /\ i < r.to <=> IsIn(elements[i], id) /\ ~AtTheEdge(id)
    BY <2>5, SelectionExact
  <2>7. IsIn(elements[i], query') <=> IsIn(elements[i], id)
    BY <2>4
  <2> QED
    BY <2>4, <2>6
<1> QED
  BY <1>1, SelectionCorrect, PTL DEF Spec, SelectionIsExact

-------------------------------------------------------------------------------
(* Lookups of the field. *)

FieldTypeOK ==
    /\ evaluator \in BOOLEAN
    /\ position \in [Axes -> Int \union {NaN}]
    /\ lookup \in {"idle", "called", "asking", "refused", "answered", "caught"}

\* A field that is not zero is left only by an answer, so it is zero in every
\* state of a lookup before that.
FieldInv ==
    /\ FieldTypeOK
    /\ FieldIsSafe

\* The guards are the box: a position is answerable exactly if there is an
\* evaluator and the position is inside, NaN and infinities included.
LEMMA GuardsAreTheBox ==
    ASSUME NEW p \in [Axes -> Int \union {NaN}]
    PROVE  Answerable(p) <=> evaluator /\ Inside(p)
<1>1. ASSUME NEW a \in Axes
      PROVE  /\ p[a] \in Int \union {NaN}
             /\ Lower[a] = IF a = "z" THEN 0 ELSE -4
             /\ Upper[a] = IF a = "z" THEN 100 ELSE 4
      BY <1>1 DEF Lower, Upper
<1>2. ASSUME NEW a \in Axes
      PROVE  Finite(p[a]) /\ ~Below(p[a], Lower[a]) /\ ~Below(Upper[a], p[a])
             <=> p[a] \in (IF a = "z" THEN 0 .. 100 ELSE -4 .. 4)
  <2>1. CASE p[a] = NaN
        BY <2>1, CoordinateAssumption DEF Finite
  <2>2. CASE p[a] \in Int
    <3>1. CASE a = "z"
          BY <1>1, <1>2, <2>2, <3>1, CoordinateAssumption DEF Finite, Below
    <3>2. CASE a # "z"
          BY <1>1, <1>2, <2>2, <3>2, CoordinateAssumption DEF Finite, Below
    <3> QED BY <3>1, <3>2
  <2> QED BY <1>1, <1>2, <2>1, <2>2
<1> QED BY <1>2 DEF Answerable, Outside, Inside

\* Every step of a lookup keeps it safe.
LEMMA StepIsSafe == FieldInv /\ [FieldNext]_fieldVars => FieldInv'
<1> SUFFICES ASSUME FieldInv, [FieldNext]_fieldVars PROVE FieldInv'
    OBVIOUS
<1> USE DEF FieldInv, FieldTypeOK
<1>1. Answerable(position) <=> evaluator /\ Inside(position)
      BY GuardsAreTheBox
<1>2. ASSUME NEW p \in [Axes -> Coordinates], GetField(p) PROVE FieldInv'
  <2>1. p \in [Axes -> Int \union {NaN}]
        BY CoordinateAssumption
  <2> QED BY <1>2, <2>1 DEF GetField, FieldIsSafe
<1>3. CASE Refuse
      BY <1>1, <1>3 DEF Refuse, FieldIsSafe
<1>4. CASE AskEvaluator
      BY <1>1, <1>4 DEF AskEvaluator, FieldIsSafe, Inside
<1>5. CASE Answer
  <2>1. field' = Zero \/ \A a \in Axes : field'[a] = "tesla"
        BY <1>5 DEF Answer
  <2> QED BY <1>5, <2>1 DEF Answer, FieldIsSafe, Inside
<1>6. CASE EvaluatorThrows
      BY <1>6 DEF EvaluatorThrows, FieldIsSafe, Inside
<1>7. CASE Forget
      BY <1>7 DEF Forget, FieldIsSafe
<1>8. CASE UNCHANGED fieldVars
      BY <1>8 DEF fieldVars, FieldIsSafe, Inside
<1> QED BY <1>2, <1>3, <1>4, <1>5, <1>6, <1>7, <1>8 DEF FieldNext

\* Whatever is asked for and whatever the evaluator does, the map is asked only
\* inside its bounds and the lookup returns a vector of numbers.
THEOREM LookupsAreSafe == FieldSpec => []FieldIsSafe
<1>1. FieldInit => FieldInv
      BY DEF FieldInit, FieldInv, FieldTypeOK, FieldIsSafe
<1>2. FieldInv => FieldIsSafe
      BY DEF FieldInv
<1> QED BY <1>1, <1>2, StepIsSafe, PTL DEF FieldSpec
===============================================================================
