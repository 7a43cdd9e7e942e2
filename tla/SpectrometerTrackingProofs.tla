----------------------- MODULE SpectrometerTrackingProofs -----------------------
(***************************************************************************)
(* The spectrometer plugin, for any geometry, any spill, any window and any *)
(* number of fits in flight.                                                *)
(*                                                                          *)
(* First the measurements and the seeds: a hit goes to the nearest station, *)
(* its link leads back to its measurement, and the seeds of a spill are     *)
(* exactly the pairs that pass the cuts.                                    *)
(*                                                                          *)
(* Then what fit_seed does: it turns away the seeds that are not within the *)
(* angle and no others, every seed gives at most one track, the candidates  *)
(* read off the states of track finding are whole, and the results are      *)
(* those of the candidates.  The invariant follows a fit from its one start *)
(* branch: GoodBranch says what the branch has collected, GoodHits what     *)
(* findCandidateHits reads off it, GoodTrack what fromACTSFitResult makes   *)
(* of the fit, and FitRight which of these a fit has at each stage.         *)
(***************************************************************************)
EXTENDS SpectrometerTracking, DataLemmas

\* Nothing has been unfolded while the spill context is being built.
IdleInv ==
    stage = "prepare" => hits1 = <<>> /\ hits2 = <<>> /\ seeds = <<>> /\ cursor = NoIndex

SeedInv == TypeOK /\ IdleInv /\ SeedsBelowCursor

-------------------------------------------------------------------------------
(* The station of a hit. *)

\* The distance of a hit from a station in its window is a natural number
\* smaller than the window.
LEMMA DistanceInWindow ==
  ASSUME NEW h \in Hit, NEW s \in InWindow(h)
  PROVE  s \in Stations /\ Dz(h, s) \in Nat /\ Dz(h, s) < ZWindow
<1>1. s \in Stations /\ Dz(h, s) # NaN /\ Dz(h, s) < ZWindow
  BY DEF InWindow, Less
<1>2. h.z \in Int /\ StationZ[s] \in Int
  BY <1>1, StationAssumption DEF Hit, Coordinate, Dz, Minus, Magnitude
<1>3. Minus(h.z, StationZ[s]) \in Int
  BY <1>2, NaNAssumption DEF Minus
<1>4. Dz(h, s) \in Nat
  BY <1>3, NaNAssumption DEF Dz, Magnitude
<1> QED
  BY <1>1, <1>4

\* A hit with some station in its window is assigned to one of them, and no
\* station is nearer.
THEOREM BestStationIsNearest ==
  ASSUME NEW h \in Hit, InWindow(h) # {}
  PROVE  /\ BestStation(h) \in InWindow(h)
         /\ \A u \in InWindow(h) : Dz(h, BestStation(h)) <= Dz(h, u)
<1> DEFINE D == {Dz(h, s) : s \in InWindow(h)}
           d == Min(D)
           T == {s \in InWindow(h) : Dz(h, s) = d}
<1>1. D \in SUBSET Nat /\ D # {}
  BY DistanceInWindow
<1>2. d \in D /\ \A y \in D : d <= y
  <2> HIDE DEF D
  <2> QED
    BY <1>1, MinOfNats
<1> HIDE DEF d
<1>3. T \in SUBSET Nat /\ T # {}
  BY <1>2, DistanceInWindow DEF Stations
<1>4. Min(T) \in T /\ \A y \in T : Min(T) <= y
  BY <1>3, MinOfNats
<1>5. /\ Min(T) \in InWindow(h)
      /\ \A u \in InWindow(h) :
           Dz(h, Min(T)) < Dz(h, u) \/ (Dz(h, Min(T)) = Dz(h, u) /\ Min(T) <= u)
  <2>1. Min(T) \in InWindow(h) /\ Dz(h, Min(T)) = d
    BY <1>4
  <2>2. ASSUME NEW u \in InWindow(h)
        PROVE  Dz(h, Min(T)) < Dz(h, u) \/ (Dz(h, Min(T)) = Dz(h, u) /\ Min(T) <= u)
    <3>1. Dz(h, u) \in Nat /\ d \in Nat /\ d <= Dz(h, u)
      BY <1>1, <1>2
    <3>2. CASE Dz(h, u) = d
      BY <3>2, <2>1, <1>4
    <3>3. CASE Dz(h, u) # d
      BY <3>1, <3>3, <2>1
    <3> QED
      BY <3>2, <3>3
  <2> QED
    BY <2>1, <2>2
<1>6. /\ BestStation(h) \in InWindow(h)
      /\ \A u \in InWindow(h) :
           \/ Dz(h, BestStation(h)) < Dz(h, u)
           \/ Dz(h, BestStation(h)) = Dz(h, u) /\ BestStation(h) <= u
  BY <1>5 DEF BestStation
<1>7. \A u \in InWindow(h) : Dz(h, u) \in Nat
  BY DistanceInWindow
<1> QED
  BY <1>6, <1>7

-------------------------------------------------------------------------------
(* The links and the flat index. *)

\* Insertion at a position shifts what stands from there on.
LEMMA InsertPositions ==
  ASSUME NEW S, NEW s \in Seq(S), NEW e \in S, NEW p \in 0 .. Len(s)
  PROVE  /\ InsertAt(s, p + 1, e) \in Seq(S)
         /\ Len(InsertAt(s, p + 1, e)) = Len(s) + 1
         /\ \A i \in 1 .. p : InsertAt(s, p + 1, e)[i] = s[i]
         /\ InsertAt(s, p + 1, e)[p + 1] = e
         /\ \A i \in (p + 1) .. Len(s) : InsertAt(s, p + 1, e)[i + 1] = s[i]
<1> DEFINE left == SubSeq(s, 1, (p + 1) - 1)
           right == SubSeq(s, p + 1, Len(s))
<1>1. /\ left \in Seq(S) /\ Len(left) = p
      /\ \A i \in 1 .. p : left[i] = s[i]
  <2>1. SubSeq(s, 1, p) \in Seq(S) /\ Len(SubSeq(s, 1, p)) = (IF 1 <= p THEN p - 1 + 1 ELSE 0)
        /\ \A i \in 1 .. p - 1 + 1 : SubSeq(s, 1, p)[i] = s[1 + i - 1]
    <3>1. \A i \in 1 .. p : s[i] \in S
      OBVIOUS
    <3> QED
      BY <3>1, SubSeqProperties
  <2>2. (p + 1) - 1 = p
    OBVIOUS
  <2> QED
    BY <2>1, <2>2
<1>2. /\ right \in Seq(S) /\ Len(right) = Len(s) - p
      /\ \A i \in 1 .. (Len(s) - p) : right[i] = s[p + i]
  <2>1. \A i \in (p + 1) .. Len(s) : s[i] \in S
    OBVIOUS
  <2>2. /\ right \in Seq(S)
        /\ Len(right) = IF p + 1 <= Len(s) THEN Len(s) - (p + 1) + 1 ELSE 0
        /\ \A i \in 1 .. Len(s) - (p + 1) + 1 : right[i] = s[(p + 1) + i - 1]
    BY <2>1, SubSeqProperties
  <2> QED
    BY <2>2
<1> HIDE DEF left, right
<1>3. <<e>> \in Seq(S) /\ Len(<<e>>) = 1 /\ <<e>>[1] = e
  OBVIOUS
<1> DEFINE mid == left \o <<e>>
<1>4. /\ mid \in Seq(S) /\ Len(mid) = p + 1
      /\ \A i \in 1 .. p : mid[i] = left[i]
      /\ mid[p + 1] = e
  <2>1. /\ mid \in Seq(S) /\ Len(mid) = Len(left) + Len(<<e>>)
        /\ \A i \in 1 .. Len(left) + Len(<<e>>) :
              mid[i] = IF i <= Len(left) THEN left[i] ELSE <<e>>[i - Len(left)]
    BY <1>1, <1>3, ConcatProperties
  <2> QED
    BY <2>1, <1>1, <1>3
<1> HIDE DEF mid
<1> PICK r : r = mid \o right
  OBVIOUS
<1>5. /\ r \in Seq(S) /\ Len(r) = Len(s) + 1
      /\ \A i \in 1 .. (p + 1) : r[i] = mid[i]
      /\ \A i \in (p + 2) .. (Len(s) + 1) : r[i] = right[i - (p + 1)]
  <2>1. /\ r \in Seq(S) /\ Len(r) = Len(mid) + Len(right)
        /\ \A i \in 1 .. Len(mid) + Len(right) :
              r[i] = IF i <= Len(mid) THEN mid[i] ELSE right[i - Len(mid)]
    BY <1>2, <1>4, ConcatProperties
  <2> QED
    BY <2>1, <1>2, <1>4
<1>6. InsertAt(s, p + 1, e) = r
  BY Zenon DEF InsertAt, left, right, mid
<1>7. \A i \in (p + 1) .. Len(s) : r[i + 1] = s[i]
  <2> TAKE i \in (p + 1) .. Len(s)
  <2>1. i + 1 \in (p + 2) .. (Len(s) + 1) /\ i - p \in 1 .. (Len(s) - p)
    OBVIOUS
  <2>2. r[i + 1] = right[(i + 1) - (p + 1)]
    BY <1>5, <2>1
  <2>3. (i + 1) - (p + 1) = i - p /\ p + (i - p) = i
    OBVIOUS
  <2> QED
    BY <1>2, <2>1, <2>2, <2>3
<1>8. \A i \in 1 .. p : r[i] = s[i]
  <2> TAKE i \in 1 .. p
  <2>1. i \in 1 .. (p + 1)
    OBVIOUS
  <2> QED
    BY <2>1, <1>1, <1>4, <1>5
<1>9. r[p + 1] = e
  <2>1. p + 1 \in 1 .. (p + 1)
    OBVIOUS
  <2> QED
    BY <2>1, <1>4, <1>5
<1> QED
  BY <1>5, <1>6, <1>7, <1>8, <1>9, Zenon

\* The bounds of a station lie within the links.
LEMMA BoundsInRange ==
  ASSUME NEW links \in Seq(SourceLink), NEW s
  PROVE  LowerBound(links, s) \in 0 .. Len(links) /\ UpperBound(links, s) \in 0 .. Len(links)
<1>a. PICK n \in Nat : n = Len(links)
  OBVIOUS
<1>1. IsFiniteSet(1 .. n) /\ Cardinality(1 .. n) = n
  <2>1. 1 \in Int /\ n \in Int
    OBVIOUS
  <2>2. IsFiniteSet(1 .. n) /\ Cardinality(1 .. n) = IF 1 > n THEN 0 ELSE n - 1 + 1
    BY <2>1, FS_Interval
  <2> QED
    BY <2>2
<1>2. ASSUME NEW T \in SUBSET (1 .. n) PROVE Cardinality(T) \in 0 .. n
  <2>1. IsFiniteSet(T) /\ Cardinality(T) <= Cardinality(1 .. n)
    BY <1>1, FS_Subset
  <2>2. Cardinality(T) \in Nat
    BY <2>1, FS_CardinalityType
  <2> QED
    BY <1>1, <2>1, <2>2
<1>3. DOMAIN links = 1 .. n
  BY <1>a
<1> QED
  BY <1>a, <1>2, <1>3 DEF LowerBound, UpperBound

\* Inserting a link into the links gives links.
LEMMA InsertTyped ==
  ASSUME NEW links \in Seq(SourceLink), NEW l \in SourceLink
  PROVE  InsertLink(links, l) \in Seq(SourceLink)
<1> DEFINE p == UpperBound(links, l.station)
<1>1. p \in 0 .. Len(links)
  BY BoundsInRange
<1> HIDE DEF p
<1>2. SubSeq(links, 1, (p + 1) - 1) \in Seq(SourceLink)
  BY <1>1, SubSeqProperties
<1>3. SubSeq(links, p + 1, Len(links)) \in Seq(SourceLink)
  BY <1>1, SubSeqProperties
<1>4. InsertLink(links, l) = InsertAt(links, p + 1, l)
  BY Zenon DEF InsertLink, p
<1>5. InsertAt(links, p + 1, l)
        = SubSeq(links, 1, (p + 1) - 1) \o <<l>> \o SubSeq(links, p + 1, Len(links))
  BY Zenon DEF InsertAt
<1>6. <<l>> \in Seq(SourceLink)
  OBVIOUS
<1>7. SubSeq(links, 1, (p + 1) - 1) \o <<l>> \in Seq(SourceLink)
  BY <1>2, <1>6, ConcatProperties, Zenon
<1>8. SubSeq(links, 1, (p + 1) - 1) \o <<l>> \o SubSeq(links, p + 1, Len(links)) \in Seq(SourceLink)
  BY <1>3, <1>7, ConcatProperties, Zenon
<1> QED
  BY <1>4, <1>5, <1>8, Zenon

\* The hits of a station are indices of measurements.
LEMMA IndicesTyped ==
  ASSUME sourceLinks \in Seq(SourceLink), NEW s
  PROVE  IndicesAt(s) \in Seq(Index)
<1> DEFINE lo == LowerBound(sourceLinks, s)
           up == UpperBound(sourceLinks, s)
           links == SelectModule(sourceLinks, s)
<1>1. lo \in 0 .. Len(sourceLinks) /\ up \in 0 .. Len(sourceLinks)
  BY BoundsInRange
<1>2. \A i \in (lo + 1) .. up : sourceLinks[i] \in SourceLink
  BY <1>1
<1> HIDE DEF lo, up
<1>3. links \in Seq(SourceLink)
  <2>1. SubSeq(sourceLinks, lo + 1, up) \in Seq(SourceLink)
    BY <1>1, <1>2, SubSeqProperties
  <2> QED
    BY <2>1 DEF SelectModule, lo, up
<1> HIDE DEF links
<1>4. IndicesAt(s) = [i \in 1 .. Len(links) |-> links[i].index]
  BY Zenon DEF IndicesAt, links
<1>5. ASSUME NEW i \in 1 .. Len(links) PROVE links[i].index \in Index
  <2>1. links[i] \in SourceLink
    BY <1>3
  <2> QED
    BY <2>1 DEF SourceLink, Index
<1> QED
  BY <1>3, <1>4, <1>5, IsASeq

\* A flat index within the product names a pair of hit indices.
LEMMA PairTyped ==
  ASSUME NEW h1 \in Seq(Index), NEW h2 \in Seq(Index), NEW k \in ValidFrom(h1, h2, 0)
  PROVE  PairAt(h1, h2, k) \in Index \X Index
<1>1. k \in 0 .. (Len(h1) * Len(h2) - 1)
  BY DEF ValidFrom
<1>a. Len(h1) \in Nat /\ Len(h2) \in Nat
  OBVIOUS
<1>2. /\ k \div Len(h2) \in 0 .. (Len(h1) - 1)
      /\ k % Len(h2) \in 0 .. (Len(h2) - 1)
  BY <1>1, <1>a, RowInRange, Zenon
<1>3. (k \div Len(h2)) + 1 \in 1 .. Len(h1) /\ (k % Len(h2)) + 1 \in 1 .. Len(h2)
  BY <1>2
<1>4. h1[(k \div Len(h2)) + 1] \in Index /\ h2[(k % Len(h2)) + 1] \in Index
  BY <1>3
<1> QED
  BY <1>4 DEF PairAt

\* find_next_valid returns the first valid flat index from its argument on, or
\* none if there is none.
LEMMA FindNextValidIsFirst ==
  ASSUME NEW h1 \in Seq(Index), NEW h2 \in Seq(Index), NEW from \in Nat
  PROVE  LET k == FindNextValid(h1, h2, from)
         IN  \/ k = NoIndex /\ ValidFrom(h1, h2, from) = {}
             \/ /\ k \in Nat /\ k >= from /\ k \in ValidFrom(h1, h2, 0)
                /\ \A j \in ValidFrom(h1, h2, 0) : j >= from => k <= j
<1>1. ValidFrom(h1, h2, from) \in SUBSET Nat
  BY DEF ValidFrom
<1>2. CASE ValidFrom(h1, h2, from) = {}
  BY <1>2 DEF FindNextValid
<1>3. CASE ValidFrom(h1, h2, from) # {}
  <2> DEFINE k == Min(ValidFrom(h1, h2, from))
  <2>1. k \in ValidFrom(h1, h2, from) /\ \A y \in ValidFrom(h1, h2, from) : k <= y
    BY <1>1, <1>3, MinOfNats
  <2>2. FindNextValid(h1, h2, from) = k
    BY <1>3 DEF FindNextValid
  <2> HIDE DEF k
  <2>3. \A j : j \in ValidFrom(h1, h2, from) <=> j \in ValidFrom(h1, h2, 0) /\ j >= from
    BY DEF ValidFrom
  <2> QED
    BY <2>1, <2>2, <2>3, <1>1
<1> QED
  BY <1>2, <1>3
-------------------------------------------------------------------------------
(* The invariant. *)

\* The sequence of seeds and the flat indices it was emitted from.
EmittedFrom(at) ==
    /\ at \in [DOMAIN seeds -> Below]
    /\ \A i, j \in DOMAIN seeds : i < j => at[i] < at[j]
    /\ \A k \in Below : \E i \in DOMAIN seeds : at[i] = k
    /\ \A i \in DOMAIN seeds : seeds[i] = PairAt(hits1, hits2, at[i])

\* The invariant holds before the first hit of a spill is looked at.
LEMMA InitSeed == Init => SeedInv
<1> SUFFICES ASSUME Init PROVE SeedInv
  OBVIOUS
<1>1. TypeOK
  <2>1. hits \in Spills /\ Len(hits) \in Nat
    BY SpillAssumption DEF Init, StartBuild
  <2> QED
    BY <2>1 DEF Init, StartBuild, TypeOK, BuildTypeOK
<1>2. IdleInv /\ SeedsBelowCursor
  BY DEF Init, IdleInv, SeedsBelowCursor
<1> QED
  BY <1>1, <1>2 DEF SeedInv

\* A step of the measurement loop keeps the types.
LEMMA BuildTyped ==
  ASSUME BuildTypeOK, DropHit \/ AcceptHit
  PROVE  BuildTypeOK'
<1> USE DEF BuildTypeOK
<1>1. hits \in Seq(Hit) /\ Len(hits) \in Nat /\ Len(hits) <= IndexRange
  BY SpillAssumption
<1>2. next \in Nat /\ Len(measurements) \in Nat
  BY <1>1
<1>3. CASE DropHit
  BY <1>1, <1>2, <1>3 DEF DropHit
<1>4. CASE AcceptHit
  <2> DEFINE h == hits[next]
             s == BestStation(h)
             m == [station |-> s, x |-> h.x, z |-> h.z, time |-> h.time]
             l == [station |-> s, index |-> Len(measurements) % IndexRange]
  <2>1. next \in 1 .. Len(hits) /\ InWindow(h) # {}
    BY <1>1, <1>4 DEF AcceptHit
  <2>2. h \in Hit
    BY <1>1, <2>1
  <2>3. s \in Stations
    BY <2>1, <2>2, BestStationIsNearest DEF InWindow
  <2>4. m \in Measurement
    <3>1. h.x \in Coordinate /\ h.z \in Coordinate /\ h.time \in Coordinate
      BY <2>2 DEF Hit
    <3> HIDE DEF h, s
    <3> QED
      BY <2>3, <3>1 DEF Measurement
  <2>5. l \in SourceLink
    <3>1. Len(measurements) % IndexRange \in 0 .. (IndexRange - 1)
      BY <1>2, IndexAssumption
    <3> HIDE DEF s
    <3> QED
      BY <2>3, <3>1 DEF SourceLink
  <2>6. /\ measurements' = Append(measurements, m)
        /\ sourceLinks' = InsertLink(sourceLinks, l)
        /\ next' = next + 1 /\ hits' = hits
    BY <1>4 DEF AcceptHit
  <2> HIDE DEF m, l
  <2>7. sourceLinks' \in Seq(SourceLink)
    BY <2>5, <2>6, InsertTyped
  <2>8. /\ measurements' \in Seq(Measurement)
        /\ Len(measurements') = Len(measurements) + 1
    BY <2>4, <2>6
  <2> QED
    BY <1>1, <1>2, <2>1, <2>6, <2>7, <2>8
<1> QED
  BY <1>3, <1>4

\* The constructor of SeedGenObject and initial_value establish the invariant.
LEMMA StartKeeps ==
  ASSUME SeedInv, StartUnfold
  PROVE  SeedInv'
<1> USE DEF SeedInv
<1>1. /\ hits1' = IndicesAt(1) /\ hits2' = IndicesAt(2)
      /\ cursor' = FindNextValid(hits1', hits2', 0)
      /\ seeds = <<>> /\ seeds' = <<>>
      /\ UNCHANGED <<build, present>> /\ stage' = "unfold"
  BY DEF StartUnfold, IdleInv
<1>2. hits1' \in Seq(Index) /\ hits2' \in Seq(Index)
  BY <1>1, IndicesTyped DEF TypeOK, BuildTypeOK
<1> PICK g1, g2 : g1 = hits1' /\ g2 = hits2'
  OBVIOUS
<1>3. \/ cursor' = NoIndex /\ ValidFrom(g1, g2, 0) = {}
      \/ /\ cursor' \in Nat /\ cursor' \in ValidFrom(g1, g2, 0)
         /\ \A j \in ValidFrom(g1, g2, 0) : j >= 0 => cursor' <= j
  BY <1>1, <1>2, FindNextValidIsFirst
<1>4. ValidFrom(hits1, hits2, 0)' = ValidFrom(g1, g2, 0)
  BY <1>1 DEF ValidFrom, Valid, PairAt, build
<1>5. TypeOK'
  BY <1>1, <1>2, <1>3 DEF TypeOK, BuildTypeOK, build
<1>6. Below' = {}
  <2>1. Below' = IF cursor' = NoIndex THEN ValidFrom(g1, g2, 0)
                 ELSE {k \in ValidFrom(g1, g2, 0) : k < cursor'}
    BY <1>4 DEF Below
  <2>2. \A k \in ValidFrom(g1, g2, 0) : k \in Int /\ k >= 0
    BY DEF ValidFrom
  <2>3. CASE cursor' = NoIndex
    BY <1>3, <2>1, <2>3, TimeAssumption
  <2>4. CASE cursor' # NoIndex
    <3>1. \A k \in ValidFrom(g1, g2, 0) : ~(k < cursor')
      BY <1>3, <2>2, <2>4
    <3> QED
      BY <2>1, <2>4, <3>1
  <2> QED
    BY <2>3, <2>4
<1>7. SeedsBelowCursor'
  <2>1. cursor' # NoIndex => cursor' \in ValidFrom(hits1, hits2, 0)'
    BY <1>3, <1>4
  <2>2. \E at : EmittedFrom(at)'
    <3>1. DOMAIN seeds' = {}
      BY <1>1
    <3>2. [i \in {} |-> 0] \in [{} -> {}]
      OBVIOUS
    <3>3. EmittedFrom([i \in {} |-> 0])'
      BY <1>6, <3>1, <3>2 DEF EmittedFrom
    <3> QED
      BY <3>3
  <2> QED
    BY <2>1, <2>2 DEF SeedsBelowCursor, EmittedFrom
<1> QED
  BY <1>1, <1>5, <1>7 DEF IdleInv

\* Emitting a seed keeps the invariant: the flat indices below the new cursor
\* are those below the old one and the old one itself.
LEMMA EmitKeeps ==
  ASSUME SeedInv, EmitSeed
  PROVE  SeedInv'
<1> USE DEF SeedInv
<1>1. /\ cursor # NoIndex
      /\ seeds' = Append(seeds, PairAt(hits1, hits2, cursor))
      /\ cursor' = FindNextValid(hits1, hits2, cursor + 1)
      /\ UNCHANGED <<build, hits1, hits2, present, stage>>
      /\ stage = "unfold"
  BY DEF EmitSeed
<1>2. hits1 \in Seq(Index) /\ hits2 \in Seq(Index) /\ cursor \in Nat /\ seeds \in Seq(Index \X Index)
  BY <1>1 DEF TypeOK
<1> DEFINE V == ValidFrom(hits1, hits2, 0)
<1>3. cursor \in V /\ V \subseteq Nat
  BY <1>1 DEF SeedsBelowCursor, ValidFrom
<1>4. \/ cursor' = NoIndex /\ \A j \in V : j <= cursor
      \/ /\ cursor' \in Nat /\ cursor' > cursor /\ cursor' \in V
         /\ \A j \in V : j > cursor => cursor' <= j
  <2>1. \/ cursor' = NoIndex /\ ValidFrom(hits1, hits2, cursor + 1) = {}
        \/ /\ cursor' \in Nat /\ cursor' >= cursor + 1 /\ cursor' \in V
           /\ \A j \in V : j >= cursor + 1 => cursor' <= j
    BY <1>1, <1>2, FindNextValidIsFirst
  <2>2. \A j \in V : j > cursor => j \in ValidFrom(hits1, hits2, cursor + 1)
    BY <1>2, <1>3 DEF ValidFrom
  <2> HIDE DEF V
  <2> QED
    BY <1>2, <1>3, <2>1, <2>2
<1>5. V' = V
  BY <1>1 DEF ValidFrom, Valid, PairAt, build
<1> HIDE DEF V
<1>6. Below = {k \in V : k < cursor}
  BY <1>1 DEF Below, V
<1>7. Below' = Below \union {cursor}
  <2>1. Below' = IF cursor' = NoIndex THEN V' ELSE {k \in V' : k < cursor'}
    BY DEF Below, V
  <2>2. \A k \in V : k \in Nat
    BY <1>3
  <2>3. CASE cursor' = NoIndex
    <3>1. \A j \in V : j <= cursor
      BY <1>4, <2>3, TimeAssumption
    <3>2. \A k \in V : k < cursor \/ k = cursor
      BY <3>1, <2>2, <1>2
    <3>3. Below' = V
      BY <2>1, <2>3, <1>5
    <3> QED
      BY <3>2, <3>3, <1>3, <1>6
  <2>4. CASE cursor' # NoIndex
    <3>1. /\ cursor' \in Nat /\ cursor' > cursor
          /\ \A j \in V : j > cursor => cursor' <= j
      BY <1>4, <2>4
    <3>2. \A k \in V : k < cursor' <=> (k < cursor \/ k = cursor)
      BY <3>1, <2>2, <1>2
    <3>3. Below' = {k \in V : k < cursor'}
      BY <2>1, <2>4, <1>5
    <3> QED
      BY <3>2, <3>3, <1>3, <1>6
  <2> QED
    BY <2>3, <2>4
<1>8. PairAt(hits1, hits2, cursor) \in Index \X Index
  BY <1>2, <1>3, PairTyped DEF V
<1>9. TypeOK'
  <2>1. cursor' \in Nat \union {NoIndex}
    BY <1>4
  <2>2. seeds' \in Seq(Index \X Index)
    BY <1>1, <1>2, <1>8
  <2> QED
    BY <1>1, <2>1, <2>2 DEF TypeOK, BuildTypeOK, build
<1>10. SeedsBelowCursor'
  <2>1. cursor' # NoIndex => cursor' \in V'
    BY <1>4, <1>5
  <2> PICK at : EmittedFrom(at)
    BY <1>1 DEF SeedsBelowCursor, EmittedFrom
  <2> PICK n \in Nat : n = Len(seeds)
    BY <1>2
  <2>2. DOMAIN seeds = 1 .. n /\ DOMAIN seeds' = 1 .. (n + 1)
    BY <1>1, <1>2, <1>8
  <2>3. /\ \A i \in 1 .. n : seeds'[i] = seeds[i]
        /\ seeds'[n + 1] = PairAt(hits1, hits2, cursor)
    BY <1>1, <1>2, <1>8, AppendProperties
  <2> DEFINE new == [i \in 1 .. (n + 1) |-> IF i = n + 1 THEN cursor ELSE at[i]]
  <2>4. /\ at \in [1 .. n -> Below]
        /\ \A i, j \in 1 .. n : i < j => at[i] < at[j]
        /\ \A k \in Below : \E i \in 1 .. n : at[i] = k
        /\ \A i \in 1 .. n : seeds[i] = PairAt(hits1, hits2, at[i])
    BY <2>2 DEF EmittedFrom
  <2>5. new \in [1 .. (n + 1) -> Below']
    BY <1>7, <2>4
  <2>6. ASSUME NEW i \in 1 .. (n + 1), NEW j \in 1 .. (n + 1), i < j PROVE new[i] < new[j]
    <3>1. i \in 1 .. n
      BY <2>6
    <3>2. new[i] = at[i] /\ at[i] \in Below
      BY <3>1, <2>4
    <3>3. CASE j = n + 1
      BY <3>2, <3>3, <1>6
    <3>4. CASE j # n + 1
      <4>1. j \in 1 .. n
        BY <3>4
      <4> QED
        BY <4>1, <3>1, <3>2, <2>4, <2>6
    <3> QED
      BY <3>3, <3>4
  <2>7. ASSUME NEW k \in Below' PROVE \E i \in 1 .. (n + 1) : new[i] = k
    <3>1. CASE k = cursor
      <4>1. n + 1 \in 1 .. (n + 1) /\ new[n + 1] = cursor
        OBVIOUS
      <4> QED
        BY <3>1, <4>1
    <3>2. CASE k \in Below
      <4>1. PICK i \in 1 .. n : at[i] = k
        BY <3>2, <2>4
      <4>2. i \in 1 .. (n + 1) /\ new[i] = k
        BY <4>1
      <4> QED
        BY <4>2
    <3> QED
      BY <3>1, <3>2, <1>7
  <2>8. ASSUME NEW i \in 1 .. (n + 1) PROVE seeds'[i] = PairAt(hits1, hits2, new[i])
    <3>1. CASE i = n + 1
      BY <3>1, <2>3
    <3>2. CASE i # n + 1
      <4>1. i \in 1 .. n
        BY <3>2
      <4>2. new[i] = at[i]
        BY <4>1
      <4> QED
        BY <4>1, <4>2, <2>3, <2>4
    <3> QED
      BY <3>1, <3>2
  <2>9. \A k : PairAt(hits1, hits2, k)' = PairAt(hits1, hits2, k)
    BY <1>1 DEF PairAt
  <2> HIDE DEF new
  <2>10. \E f :
           /\ f \in [DOMAIN seeds' -> Below']
           /\ \A i, j \in DOMAIN seeds' : i < j => f[i] < f[j]
           /\ \A k \in Below' : \E i \in DOMAIN seeds' : f[i] = k
           /\ \A i \in DOMAIN seeds' : seeds'[i] = PairAt(hits1', hits2', f[i])
    <3> WITNESS new
    <3> QED
      BY <1>1, <2>2, <2>5, <2>6, <2>7, <2>8
  <2> QED
    BY <2>1, <2>10 DEF SeedsBelowCursor, V
<1> QED
  BY <1>1, <1>9, <1>10 DEF IdleInv

\* The invariant holds in every step of the specification.
LEMMA SeedInvIsInductive ==
  ASSUME SeedInv, [Next]_vars
  PROVE  SeedInv'
<1> USE DEF SeedInv
<1>1. CASE MissingGeometry
  <2>1. /\ hits1 = <<>> /\ hits2 = <<>> /\ cursor = NoIndex /\ seeds = <<>>
        /\ UNCHANGED <<build, hits1, hits2, cursor, seeds, present>> /\ stage' = "unfold"
    BY <1>1 DEF MissingGeometry, IdleInv, unfold
  <2>2. TypeOK'
    BY <2>1 DEF TypeOK, BuildTypeOK, build
  <2>3. Below' = {}
    <3>1. Len(<<>>) * Len(<<>>) - 1 = 0 - 1
      OBVIOUS
    <3>2. 0 .. (0 - 1) = {}
      OBVIOUS
    <3>3. ValidFrom(<<>>, <<>>, 0)' = {}
      BY <3>1, <3>2 DEF ValidFrom
    <3> QED
      BY <2>1, <3>3 DEF Below
  <2>4. SeedsBelowCursor'
    <3>1. DOMAIN seeds' = {}
      BY <2>1
    <3>2. [i \in {} |-> 0] \in [{} -> {}]
      OBVIOUS
    <3>3. EmittedFrom([i \in {} |-> 0])'
      BY <2>3, <3>1, <3>2 DEF EmittedFrom
    <3>4. \E at : EmittedFrom(at)'
      BY <3>3
    <3> QED
      BY <2>1, <3>4 DEF SeedsBelowCursor, EmittedFrom
  <2> QED
    BY <2>1, <2>2, <2>4 DEF IdleInv
<1>2. CASE BuildStep
  <2>1. /\ stage = "prepare"
        /\ DropHit \/ AcceptHit
        /\ UNCHANGED <<hits1, hits2, cursor, seeds, present, stage>>
    BY <1>2 DEF BuildStep, unfold
  <2>2. BuildTypeOK'
    BY <2>1, BuildTyped DEF TypeOK
  <2>3. TypeOK'
    BY <2>1, <2>2 DEF TypeOK
  <2>4. IdleInv' /\ SeedsBelowCursor'
    BY <2>1 DEF IdleInv, SeedsBelowCursor
  <2> QED
    BY <2>3, <2>4
<1>3. CASE StartUnfold
  BY <1>3, StartKeeps
<1>4. CASE EmitSeed
  BY <1>4, EmitKeeps
<1>5. CASE EndUnfold \/ Finished \/ UNCHANGED vars
  <2>1. /\ UNCHANGED <<hits, next, measurements, sourceLinks, hits1, hits2, cursor, seeds, present>>
        /\ stage' # "prepare" \/ stage' = stage
        /\ stage # "prepare" \/ stage' = stage
        /\ stage' \in {"prepare", "unfold", "done"}
    BY <1>5 DEF EndUnfold, Finished, vars, build, unfold, TypeOK
  <2>2. TypeOK' /\ IdleInv'
    BY <2>1 DEF TypeOK, BuildTypeOK, IdleInv
  <2>3. Below' = Below
    BY <2>1 DEF Below, ValidFrom, Valid, PairAt
  <2>4. ValidFrom(hits1, hits2, 0)' = ValidFrom(hits1, hits2, 0)
    BY <2>1 DEF ValidFrom, Valid, PairAt
  <2>5. SeedsBelowCursor'
    BY <2>1, <2>3, <2>4 DEF SeedsBelowCursor, PairAt
  <2> QED
    BY <2>2, <2>5
<1> QED
  BY <1>1, <1>2, <1>3, <1>4, <1>5 DEF Next

\* The invariant holds throughout a spill.
THEOREM SeedCorrect == Spec => []SeedInv
<1>1. Init => SeedInv
  BY InitSeed
<1>2. SeedInv /\ [Next]_vars => SeedInv'
  BY SeedInvIsInductive
<1> QED
  BY <1>1, <1>2, PTL DEF Spec

\* Type correctness, for every geometry, window and set of spills: no index
\* overflows, and the pair decoded from a flat index is always within range.
THEOREM SeedTypeCorrect == Spec => []TypeOK
<1>1. SeedInv => TypeOK
  BY DEF SeedInv
<1> QED
  BY <1>1, SeedCorrect, PTL

\* For every spill the unfold has emitted, at each moment, exactly the
\* compatible pairs below its cursor, each once and in row order.
THEOREM SeedsAreCorrect == Spec => []SeedsBelowCursor
<1>1. SeedInv => SeedsBelowCursor
  BY DEF SeedInv
<1> QED
  BY <1>1, SeedCorrect, PTL

-------------------------------------------------------------------------------
(* The links and the measurements behind them. *)

\* The links are filed station by station, and each measurement has one.
LinksFiled ==
    /\ \A i, j \in DOMAIN sourceLinks : i <= j => sourceLinks[i].station <= sourceLinks[j].station
    /\ \A k \in 0 .. (Len(measurements) - 1) :
          \E i \in DOMAIN sourceLinks : sourceLinks[i].index = k

\* The measurement of hit i.
MeasuredAs(i) ==
    [station |-> BestStation(hits[i]), x |-> hits[i].x, z |-> hits[i].z, time |-> hits[i].time]

\* The measurements are those of the accepted hits so far, in their order.
HitsMeasured ==
    /\ Len(measurements) = Cardinality({j \in AcceptedHits : j < next})
    /\ \A i \in AcceptedHits : i < next =>
          /\ IndexOf(i) \in 0 .. (Len(measurements) - 1)
          /\ measurements[IndexOf(i) + 1] = MeasuredAs(i)
    /\ \A k \in 0 .. (Len(measurements) - 1) : \E i \in AcceptedHits : i < next /\ IndexOf(i) = k

\* The indices of the measurements of a station.
AtStation(s) == {k \in 0 .. (Len(measurements) - 1) : measurements[k + 1].station = s}

\* The unfold works on all measurements of stations 1 and 2, each once, and a
\* spill without geometry has none.
UnfoldInv ==
    /\ stage # "prepare" /\ present =>
          /\ Built
          /\ IsInjective(hits1) /\ Range(hits1) = AtStation(1)
          /\ IsInjective(hits2) /\ Range(hits2) = AtStation(2)
    /\ ~present => seeds = <<>> /\ cursor = NoIndex
    /\ stage = "done" => cursor = NoIndex

MeasureInv == LinksResolve /\ LinksFiled /\ HitsMeasured

\* The links of a station come before those of the next.
Filed(links) ==
    \A i, j \in DOMAIN links : i <= j => links[i].station <= links[j].station

\* In filed links the bounds of a station separate it from those before and
\* from those behind.
LEMMA FiledBounds ==
  ASSUME NEW links \in Seq(SourceLink), Filed(links), NEW s \in Int
  PROVE  \A i \in 1 .. Len(links) :
            /\ links[i].station < s <=> i <= LowerBound(links, s)
            /\ links[i].station <= s <=> i <= UpperBound(links, s)
<1> PICK n \in Nat : n = Len(links)
  OBVIOUS
<1> DEFINE B == {i \in 1 .. n : links[i].station < s}
           U == {i \in 1 .. n : links[i].station <= s}
<1>1. DOMAIN links = 1 .. n
  OBVIOUS
<1>2. LowerBound(links, s) = Cardinality(B) /\ UpperBound(links, s) = Cardinality(U)
  BY <1>1 DEF LowerBound, UpperBound
<1>3. \A i \in 1 .. n : links[i].station \in Int
  <2> TAKE i \in 1 .. n
  <2>1. links[i] \in SourceLink
    OBVIOUS
  <2> QED
    BY <2>1 DEF SourceLink, Stations
<1>4. \A i, j \in 1 .. n : i <= j => links[i].station <= links[j].station
  BY <1>1 DEF Filed
<1>5. /\ \A i \in B : \A j \in 1 .. i : j \in B
      /\ \A i \in U : \A j \in 1 .. i : j \in U
  <2>1. ASSUME NEW i \in 1 .. n, NEW j \in 1 .. i
        PROVE  j \in 1 .. n /\ links[j].station <= links[i].station
    BY <1>4
  <2> QED
    BY <2>1, <1>3
<1>6. B \in SUBSET (1 .. n) /\ U \in SUBSET (1 .. n)
  OBVIOUS
<1>7. B = 1 .. Cardinality(B) /\ Cardinality(B) \in 0 .. n
  <2> HIDE DEF B
  <2> QED
    BY <1>5, <1>6, InitialSegment
<1>8. U = 1 .. Cardinality(U) /\ Cardinality(U) \in 0 .. n
  <2> HIDE DEF U
  <2> QED
    BY <1>5, <1>6, InitialSegment
<1> TAKE i \in 1 .. Len(links)
<1>9. links[i].station < s <=> i \in B
  OBVIOUS
<1>10. links[i].station <= s <=> i \in U
  OBVIOUS
<1> HIDE DEF B, U
<1>11. i \in B <=> i <= Cardinality(B)
  BY <1>7
<1>12. i \in U <=> i <= Cardinality(U)
  BY <1>8
<1> QED
  BY <1>2, <1>9, <1>10, <1>11, <1>12

\* A link is inserted before the links of later stations: the others keep
\* their order, and the links stay filed.
LEMMA InsertFiled ==
  ASSUME NEW links \in Seq(SourceLink), Filed(links), NEW l \in SourceLink
  PROVE  LET r == InsertLink(links, l)
         IN  /\ r \in Seq(SourceLink) /\ Len(r) = Len(links) + 1
             /\ Filed(r)
             /\ \A i \in DOMAIN links : \E j \in DOMAIN r : r[j] = links[i]
             /\ \E j \in DOMAIN r : r[j] = l
             /\ Range(r) = Range(links) \union {l}
             /\ IsInjective(links) /\ l \notin Range(links) => IsInjective(r)
<1> DEFINE q == UpperBound(links, l.station)
<1> PICK p : p = q
  OBVIOUS
<1> PICK n \in Nat : n = Len(links)
  OBVIOUS
<1>1. p \in 0 .. n
  BY BoundsInRange
<1>s. l.station \in Int /\ \A i \in 1 .. n : links[i] \in SourceLink /\ links[i].station \in Int
  <2>1. \A i \in 1 .. n : links[i] \in SourceLink
    OBVIOUS
  <2> QED
    BY <2>1 DEF SourceLink, Stations
<1>2. \A i \in 1 .. n : links[i].station <= l.station <=> i <= p
  BY <1>s, FiledBounds
<1> PICK r : r = InsertLink(links, l)
  OBVIOUS
<1>3. r = InsertAt(links, p + 1, l)
  BY Zenon DEF InsertLink
<1> HIDE DEF q
<1>4. /\ r \in Seq(SourceLink) /\ Len(r) = n + 1
      /\ \A i \in 1 .. p : r[i] = links[i]
      /\ r[p + 1] = l
      /\ \A i \in (p + 1) .. n : r[i + 1] = links[i]
  <2>1. p \in 0 .. Len(links)
    BY <1>1
  <2>2. InsertAt(links, p + 1, l) \in Seq(SourceLink)
    BY <2>1, InsertPositions
  <2>3. Len(InsertAt(links, p + 1, l)) = Len(links) + 1
    BY <2>1, InsertPositions
  <2>4. \A i \in 1 .. p : InsertAt(links, p + 1, l)[i] = links[i]
    BY <2>1, InsertPositions
  <2>5. InsertAt(links, p + 1, l)[p + 1] = l
    BY <2>1, InsertPositions
  <2>6. \A i \in (p + 1) .. Len(links) : InsertAt(links, p + 1, l)[i + 1] = links[i]
    BY <2>1, InsertPositions
  <2> QED
    BY <1>3, <2>2, <2>3, <2>4, <2>5, <2>6, Zenon
<1>5. DOMAIN r = 1 .. (n + 1) /\ DOMAIN links = 1 .. n
  BY <1>4
\* Each position of r holds the new link or an old one.
<1>6. ASSUME NEW i \in 1 .. (n + 1)
      PROVE  \/ i <= p /\ i \in 1 .. n /\ r[i] = links[i]
             \/ i = p + 1 /\ r[i] = l
             \/ i > p + 1 /\ i - 1 \in 1 .. n /\ r[i] = links[i - 1]
  <2>1. CASE i <= p
    BY <1>1, <1>4, <2>1
  <2>2. CASE i = p + 1
    BY <1>4, <2>2
  <2>3. CASE i > p + 1
    <3>1. i - 1 \in (p + 1) .. n /\ (i - 1) + 1 = i
      BY <1>1, <2>3
    <3> QED
      BY <1>1, <1>4, <2>3, <3>1
  <2> QED
    BY <1>1, <2>1, <2>2, <2>3
<1>7. ASSUME NEW i \in 1 .. n PROVE \E j \in 1 .. (n + 1) : r[j] = links[i]
  <2>1. CASE i <= p
    BY <1>4, <2>1
  <2>2. CASE i > p
    <3>1. i + 1 \in 1 .. (n + 1) /\ r[i + 1] = links[i]
      BY <1>1, <1>4, <2>2
    <3> QED
      BY <3>1
  <2> QED
    BY <1>1, <2>1, <2>2
<1>8. p + 1 \in 1 .. (n + 1) /\ r[p + 1] = l
  BY <1>1, <1>4
<1>9. Filed(r)
  <2> SUFFICES ASSUME NEW i \in 1 .. (n + 1), NEW j \in 1 .. (n + 1), i <= j
               PROVE  r[i].station <= r[j].station
    BY <1>5 DEF Filed
  <2>1. \A a, b \in 1 .. n : a <= b => links[a].station <= links[b].station
    BY <1>5 DEF Filed
  <2>2. CASE i <= p /\ i \in 1 .. n /\ r[i] = links[i]
    <3>1. CASE j <= p /\ j \in 1 .. n /\ r[j] = links[j]
      BY <2>1, <2>2, <3>1
    <3>2. CASE r[j] = l
      BY <1>2, <2>2, <3>2
    <3>3. CASE j > p + 1 /\ j - 1 \in 1 .. n /\ r[j] = links[j - 1]
      <4>1. i <= j - 1
        BY <1>1, <2>2, <3>3
      <4> QED
        BY <4>1, <2>1, <2>2, <3>3
    <3> QED
      BY <1>6, <3>1, <3>2, <3>3
  <2>3. CASE i = p + 1 /\ r[i] = l
    <3>1. CASE j = p + 1 /\ r[j] = l
      BY <1>s, <2>3, <3>1
    <3>2. CASE j > p + 1 /\ j - 1 \in 1 .. n /\ r[j] = links[j - 1]
      <4>1. ~(links[j - 1].station <= l.station)
        BY <1>1, <1>2, <3>2
      <4> QED
        BY <1>s, <2>3, <3>2, <4>1
    <3> QED
      BY <1>1, <1>6, <2>3, <3>1, <3>2
  <2>4. CASE i > p + 1 /\ i - 1 \in 1 .. n /\ r[i] = links[i - 1]
    <3>1. j > p + 1 /\ j - 1 \in 1 .. n /\ r[j] = links[j - 1]
      BY <1>1, <1>6, <2>4
    <3>2. i - 1 <= j - 1
      OBVIOUS
    <3> QED
      BY <2>1, <2>4, <3>1, <3>2
  <2> QED
    BY <1>6, <2>2, <2>3, <2>4
<1>10. Range(r) = Range(links) \union {l}
  <2>1. ASSUME NEW x \in Range(r) PROVE x \in Range(links) \union {l}
    <3>1. PICK i \in 1 .. (n + 1) : r[i] = x
      BY <1>5 DEF Range
    <3>2. x = l \/ \E a \in 1 .. n : links[a] = x
      BY <1>6, <3>1
    <3> QED
      BY <1>5, <3>2 DEF Range
  <2>2. ASSUME NEW x \in Range(links) PROVE x \in Range(r)
    <3>1. PICK i \in 1 .. n : links[i] = x
      BY <1>5 DEF Range
    <3>2. \E j \in 1 .. (n + 1) : r[j] = x
      BY <1>7, <3>1
    <3> QED
      BY <1>5, <3>2 DEF Range
  <2>3. l \in Range(r)
    BY <1>5, <1>8 DEF Range
  <2> QED
    BY <2>1, <2>2, <2>3
<1>11. ASSUME IsInjective(links), l \notin Range(links) PROVE IsInjective(r)
  <2> SUFFICES ASSUME NEW i \in 1 .. (n + 1), NEW j \in 1 .. (n + 1), r[i] = r[j]
               PROVE  i = j
    BY <1>5 DEF IsInjective
  <2>1. \A a \in 1 .. n : links[a] # l
    BY <1>5, <1>11 DEF Range
  <2>2. \A a, b \in 1 .. n : links[a] = links[b] => a = b
    BY <1>5, <1>11 DEF IsInjective
  <2>3. CASE r[i] = l
    <3>1. i = p + 1 /\ j = p + 1
      BY <1>6, <2>1, <2>3
    <3> QED
      BY <3>1
  <2>4. CASE r[i] # l
    <3>1. /\ (i <= p /\ i \in 1 .. n /\ r[i] = links[i])
             \/ (i > p + 1 /\ i - 1 \in 1 .. n /\ r[i] = links[i - 1])
          /\ (j <= p /\ j \in 1 .. n /\ r[j] = links[j])
             \/ (j > p + 1 /\ j - 1 \in 1 .. n /\ r[j] = links[j - 1])
      BY <1>6, <2>4, <1>8
    <3> QED
      BY <1>1, <2>2, <3>1
  <2> QED
    BY <2>3, <2>4
<1> QED
  BY <1>4, <1>5, <1>7, <1>8, <1>9, <1>10, <1>11

-------------------------------------------------------------------------------
(* The measurements and their links. *)

\* Nothing is measured before the first hit is looked at.
LEMMA InitMeasured == Init => MeasureInv
<1> SUFFICES ASSUME Init PROVE MeasureInv
  OBVIOUS
<1>1. next = 1 /\ measurements = <<>> /\ sourceLinks = <<>> /\ DOMAIN sourceLinks = {}
  BY DEF Init, StartBuild
<1>2. \A k \in 0 .. (Len(measurements) - 1) : FALSE
  BY <1>1
<1>3. {j \in AcceptedHits : j < next} = {}
  <2>1. \A j \in AcceptedHits : j \in Int /\ j >= 1
    <3>1. hits \in Seq(Hit)
      BY SpillAssumption DEF Init, StartBuild
    <3> QED
      BY <3>1 DEF AcceptedHits
  <2> QED
    BY <1>1, <2>1
<1>4. LinksResolve
  BY <1>1, EmptyRange DEF LinksResolve
<1>5. LinksFiled
  BY <1>1, <1>2 DEF LinksFiled
<1>6. HitsMeasured
  <2>1. Len(measurements) = Cardinality({})
    BY <1>1, FS_EmptySet
  <2> QED
    BY <1>2, <1>3, <2>1 DEF HitsMeasured
<1> QED
  BY <1>4, <1>5, <1>6 DEF MeasureInv

\* What the accepted hits below the next one and the next one are.
LEMMA AcceptedBelow ==
  ASSUME BuildTypeOK, next <= Len(hits)
  PROVE  /\ next \in DOMAIN hits
         /\ IsFiniteSet({j \in AcceptedHits : j < next})
         /\ {j \in AcceptedHits : j < next + 1}
              = IF InWindow(hits[next]) = {} THEN {j \in AcceptedHits : j < next}
                ELSE {j \in AcceptedHits : j < next} \union {next}
         /\ \A i \in AcceptedHits : i \in Int /\ (i < next + 1 <=> i < next \/ i = next)
         /\ next \in AcceptedHits <=> InWindow(hits[next]) # {}
<1>1. hits \in Seq(Hit) /\ next \in 1 .. Len(hits) /\ Len(hits) \in Nat
  BY SpillAssumption DEF BuildTypeOK
<1> PICK n \in Nat : n = Len(hits)
  BY <1>1
<1>2. DOMAIN hits = 1 .. n /\ next \in 1 .. n
  BY <1>1
<1>3. \A i \in AcceptedHits : i \in Int /\ (i < next + 1 <=> i < next \/ i = next)
  BY <1>2 DEF AcceptedHits
<1>4. next \in AcceptedHits <=> InWindow(hits[next]) # {}
  BY <1>2 DEF AcceptedHits
<1>5. IsFiniteSet({j \in AcceptedHits : j < next})
  <2>1. {j \in AcceptedHits : j < next} \in SUBSET (1 .. n)
    BY <1>2 DEF AcceptedHits
  <2> QED
    BY <2>1, CountBelow
<1> QED
  BY <1>2, <1>3, <1>4, <1>5

\* A hit that is dropped leaves no gap in the measurements.
LEMMA DropMeasured ==
  ASSUME BuildTypeOK, MeasureInv, DropHit
  PROVE  MeasureInv'
<1>1. /\ next <= Len(hits) /\ InWindow(hits[next]) = {} /\ next' = next + 1
      /\ UNCHANGED <<hits, measurements, sourceLinks>>
  BY DEF DropHit
<1>2. LinksResolve' /\ LinksFiled'
  BY <1>1 DEF MeasureInv, LinksResolve, LinksFiled
<1>3. AcceptedHits' = AcceptedHits
  BY <1>1 DEF AcceptedHits
<1>4. /\ {j \in AcceptedHits : j < next'} = {j \in AcceptedHits : j < next}
      /\ \A i \in AcceptedHits : i < next' <=> i < next
  BY <1>1, AcceptedBelow
<1>5. \A i : IndexOf(i)' = IndexOf(i) /\ MeasuredAs(i)' = MeasuredAs(i)
  BY <1>1, <1>3 DEF IndexOf, MeasuredAs
<1>6. HitsMeasured'
  BY <1>1, <1>3, <1>4, <1>5 DEF MeasureInv, HitsMeasured
<1> QED
  BY <1>2, <1>6 DEF MeasureInv

\* A hit that is accepted becomes the last measurement, and the link inserted
\* for it resolves to it.
LEMMA AcceptMeasured ==
  ASSUME BuildTypeOK, MeasureInv, AcceptHit
  PROVE  MeasureInv'
<1> PICK h : h = hits[next]
  OBVIOUS
<1> PICK s : s = BestStation(h)
  OBVIOUS
<1> PICK k : k = Len(measurements)
  OBVIOUS
<1> DEFINE m == [station |-> s, x |-> h.x, z |-> h.z, time |-> h.time]
           l == [station |-> s, index |-> k]
<1>1. /\ hits \in Seq(Hit) /\ Len(hits) \in Nat /\ Len(hits) <= IndexRange
      /\ k \in Nat /\ k < next /\ next \in 1 .. Len(hits)
      /\ InWindow(h) # {} /\ h \in Hit
  <2>1. hits \in Seq(Hit) /\ Len(hits) \in Nat /\ Len(hits) <= IndexRange
    BY SpillAssumption DEF BuildTypeOK
  <2>2. k \in Nat /\ k < next /\ next \in 1 .. Len(hits)
    BY <2>1 DEF BuildTypeOK, AcceptHit
  <2> QED
    BY <2>1, <2>2 DEF AcceptHit
<1>2. k % IndexRange = k /\ k \in 0 .. (IndexRange - 1)
  BY <1>1, IndexAssumption
<1>3. s \in Stations
  BY <1>1, BestStationIsNearest DEF InWindow
<1>4. l \in SourceLink
  BY <1>2, <1>3 DEF SourceLink
<1>5. m \in Measurement
  BY <1>1, <1>3 DEF Hit, Measurement
<1>6. /\ measurements' = Append(measurements, m)
      /\ sourceLinks' = InsertLink(sourceLinks, l)
      /\ next' = next + 1 /\ hits' = hits
  BY <1>2 DEF AcceptHit
<1>7. /\ measurements' \in Seq(Measurement) /\ Len(measurements') = k + 1
      /\ \A i \in 1 .. k : measurements'[i] = measurements[i]
      /\ measurements'[k + 1] = m
  <2>1. measurements \in Seq(Measurement)
    BY DEF BuildTypeOK
  <2> HIDE DEF m
  <2> QED
    BY <1>5, <1>6, <2>1, AppendProperties
<1>8. l.station = s /\ l.index = k /\ m = [station |-> s, x |-> h.x, z |-> h.z, time |-> h.time]
  OBVIOUS
<1>9. /\ LinksResolve /\ LinksFiled /\ HitsMeasured
      /\ sourceLinks \in Seq(SourceLink)
  BY DEF MeasureInv, BuildTypeOK
<1>10. \A g \in Range(sourceLinks) : g \in SourceLink /\ g.index \in Nat /\ g.index < k
                                     /\ measurements[g.index + 1].station = g.station
  <2>1. Range(sourceLinks) \in SUBSET SourceLink
    BY <1>9, RangeOfSeq
  <2>2. \A g \in SourceLink : g.index \in Nat
    BY IndexAssumption DEF SourceLink
  <2> QED
    BY <1>9, <2>1, <2>2 DEF LinksResolve
<1> HIDE DEF l
<1>11. l \notin Range(sourceLinks)
  BY <1>1, <1>8, <1>10
<1>12. /\ sourceLinks' \in Seq(SourceLink) /\ Len(sourceLinks') = Len(sourceLinks) + 1
       /\ Filed(sourceLinks')
       /\ \A i \in DOMAIN sourceLinks : \E j \in DOMAIN sourceLinks' : sourceLinks'[j] = sourceLinks[i]
       /\ \E j \in DOMAIN sourceLinks' : sourceLinks'[j] = l
       /\ Range(sourceLinks') = Range(sourceLinks) \union {l}
       /\ IsInjective(sourceLinks')
  <2>1. Filed(sourceLinks)
    BY <1>9 DEF LinksFiled, Filed
  <2>2. IsInjective(sourceLinks)
    BY <1>9 DEF LinksResolve
  <2> PICK r : r = InsertLink(sourceLinks, l)
    OBVIOUS
  <2>3. r \in Seq(SourceLink) /\ Len(r) = Len(sourceLinks) + 1 /\ Filed(r)
    BY <1>4, <1>9, <2>1, InsertFiled
  <2>4. \A i \in DOMAIN sourceLinks : \E j \in DOMAIN r : r[j] = sourceLinks[i]
    BY <1>4, <1>9, <2>1, InsertFiled
  <2>5. \E j \in DOMAIN r : r[j] = l
    BY <1>4, <1>9, <2>1, InsertFiled
  <2>6. Range(r) = Range(sourceLinks) \union {l} /\ IsInjective(r)
    BY <1>4, <1>9, <1>11, <2>1, <2>2, InsertFiled
  <2>7. sourceLinks' = r
    BY <1>6
  <2> QED
    BY <2>3, <2>4, <2>5, <2>6, <2>7
<1>13. LinksResolve'
  <2>1. ASSUME NEW g \in Range(sourceLinks')
        PROVE  g.index < Len(measurements') /\ measurements'[g.index + 1].station = g.station
    <3>1. CASE g \in Range(sourceLinks)
      <4>1. g.index \in Nat /\ g.index < k /\ measurements[g.index + 1].station = g.station
        BY <1>10, <3>1
      <4>2. g.index + 1 \in 1 .. k
        BY <1>1, <4>1
      <4> QED
        BY <1>1, <1>7, <4>1, <4>2
    <3>2. CASE g = l
      BY <1>1, <1>7, <1>8, <3>2
    <3> QED
      BY <1>12, <3>1, <3>2
  <2>2. Len(sourceLinks') = Len(measurements')
    BY <1>7, <1>9, <1>12 DEF LinksResolve
  <2> QED
    BY <1>12, <2>1, <2>2 DEF LinksResolve
<1>14. LinksFiled'
  <2>1. ASSUME NEW i \in 0 .. (Len(measurements') - 1)
        PROVE  \E j \in DOMAIN sourceLinks' : sourceLinks'[j].index = i
    <3>1. CASE i = k
      BY <1>8, <1>12, <3>1
    <3>2. CASE i # k
      <4>1. i \in 0 .. (k - 1)
        BY <1>1, <1>7, <3>2
      <4>2. PICK j \in DOMAIN sourceLinks : sourceLinks[j].index = i
        BY <1>9, <4>1 DEF LinksFiled
      <4> QED
        BY <1>12, <4>2
    <3> QED
      BY <3>1, <3>2
  <2> QED
    BY <1>12, <2>1 DEF LinksFiled, Filed
<1>15. HitsMeasured'
  <2>1. AcceptedHits' = AcceptedHits
    BY <1>6 DEF AcceptedHits
  <2>2. \A i : IndexOf(i)' = IndexOf(i) /\ MeasuredAs(i)' = MeasuredAs(i)
    BY <1>6, <2>1 DEF IndexOf, MeasuredAs
  <2>3. /\ IsFiniteSet({j \in AcceptedHits : j < next})
        /\ {j \in AcceptedHits : j < next'} = {j \in AcceptedHits : j < next} \union {next}
        /\ \A i \in AcceptedHits : i \in Int /\ (i < next' <=> i < next \/ i = next)
        /\ next \in AcceptedHits
    BY <1>1, <1>6, AcceptedBelow
  <2>4. k = Cardinality({j \in AcceptedHits : j < next}) /\ IndexOf(next) = k
    BY <1>9 DEF HitsMeasured, IndexOf
  <2>5. Len(measurements') = Cardinality({j \in AcceptedHits : j < next'})
    <3>1. next \notin {j \in AcceptedHits : j < next}
      BY <1>1
    <3>2. Cardinality({j \in AcceptedHits : j < next} \union {next})
            = Cardinality({j \in AcceptedHits : j < next}) + 1
      BY <2>3, <3>1, FS_AddElement
    <3> QED
      BY <1>7, <2>3, <2>4, <3>2
  <2>6. ASSUME NEW i \in AcceptedHits, i < next'
        PROVE  /\ IndexOf(i) \in 0 .. (Len(measurements') - 1)
               /\ measurements'[IndexOf(i) + 1] = MeasuredAs(i)
    <3>1. CASE i < next
      <4>1. IndexOf(i) \in 0 .. (k - 1) /\ measurements[IndexOf(i) + 1] = MeasuredAs(i)
        BY <1>9, <3>1 DEF HitsMeasured
      <4>2. IndexOf(i) + 1 \in 1 .. k
        BY <1>1, <4>1
      <4> QED
        BY <1>1, <1>7, <4>1, <4>2
    <3>2. CASE i = next
      <4>1. IndexOf(i) = k /\ MeasuredAs(i) = m
        BY <2>4, <3>2 DEF MeasuredAs
      <4> QED
        BY <1>1, <1>7, <4>1
    <3> QED
      BY <2>3, <2>6, <3>1, <3>2
  <2>7. ASSUME NEW j \in 0 .. (Len(measurements') - 1)
        PROVE  \E i \in AcceptedHits : i < next' /\ IndexOf(i) = j
    <3>1. CASE j = k
      <4>1. next < next' /\ IndexOf(next) = j
        BY <1>1, <1>6, <2>4, <3>1
      <4> QED
        BY <2>3, <4>1
    <3>2. CASE j # k
      <4>1. j \in 0 .. (k - 1)
        BY <1>1, <1>7, <3>2
      <4>2. PICK i \in AcceptedHits : i < next /\ IndexOf(i) = j
        BY <1>9, <4>1 DEF HitsMeasured
      <4> QED
        BY <2>3, <4>2
    <3> QED
      BY <3>1, <3>2
  <2> QED
    BY <2>1, <2>2, <2>5, <2>6, <2>7 DEF HitsMeasured
<1> QED
  BY <1>13, <1>14, <1>15 DEF MeasureInv

-------------------------------------------------------------------------------
(* The hits of the seeds. *)

\* selectModule gives the measurements of a station, all of them and each once.
LEMMA StationIndices ==
  ASSUME BuildTypeOK, LinksResolve, LinksFiled, NEW s \in Int
  PROVE  IsInjective(IndicesAt(s)) /\ Range(IndicesAt(s)) = AtStation(s)
<1> PICK lo : lo = LowerBound(sourceLinks, s)
  OBVIOUS
<1> PICK up : up = UpperBound(sourceLinks, s)
  OBVIOUS
<1> PICK n \in Nat : n = Len(sourceLinks)
  BY DEF BuildTypeOK
<1> PICK c : c = Len(measurements)
  OBVIOUS
<1>1. /\ sourceLinks \in Seq(SourceLink) /\ DOMAIN sourceLinks = 1 .. n
      /\ \A i \in 1 .. n : sourceLinks[i] \in SourceLink
  BY DEF BuildTypeOK
<1>2. lo \in 0 .. n /\ up \in 0 .. n
  BY <1>1, BoundsInRange
<1>3. \A i \in 1 .. n : /\ sourceLinks[i].station < s <=> i <= lo
                        /\ sourceLinks[i].station <= s <=> i <= up
  BY <1>1, FiledBounds DEF LinksFiled, Filed
<1>4. \A i \in 1 .. n : sourceLinks[i].station \in Int /\ sourceLinks[i].index \in Nat
  <2>1. \A l \in SourceLink : l.station \in Int /\ l.index \in Nat
    BY IndexAssumption DEF SourceLink, Stations
  <2> QED
    BY <1>1, <2>1
<1>5. \A i \in 1 .. n : sourceLinks[i].station = s <=> lo < i /\ i <= up
  BY <1>2, <1>3, <1>4
<1>6. lo <= up
  <2>1. CASE lo = 0
    BY <1>2, <2>1
  <2>2. CASE lo # 0
    <3>1. lo \in 1 .. n
      BY <1>2, <2>2
    <3>2. sourceLinks[lo].station <= s
      BY <1>2, <1>3, <1>4, <3>1
    <3> QED
      BY <1>3, <3>1, <3>2
  <2> QED
    BY <2>1, <2>2
<1> PICK links : links = SelectModule(sourceLinks, s)
  OBVIOUS
<1>7. /\ Len(links) = up - lo
      /\ \A i \in 1 .. (up - lo) : links[i] = sourceLinks[lo + i]
  <2>1. \A i \in (lo + 1) .. up : sourceLinks[i] \in SourceLink
    BY <1>1, <1>2
  <2>2. links = SubSeq(sourceLinks, lo + 1, up)
    BY DEF SelectModule
  <2>3. /\ Len(links) = IF lo + 1 <= up THEN up - (lo + 1) + 1 ELSE 0
        /\ \A i \in 1 .. up - (lo + 1) + 1 : links[i] = sourceLinks[(lo + 1) + i - 1]
    <3>1. lo + 1 \in Int /\ up \in Int
      BY <1>2
    <3> QED
      BY <2>1, <2>2, <3>1, SubSeqProperties
  <2>4. /\ up - (lo + 1) + 1 = up - lo
        /\ lo + 1 <= up \/ up - lo = 0
        /\ \A i \in 1 .. (up - lo) : (lo + 1) + i - 1 = lo + i
    BY <1>2, <1>6
  <2>5. \A i \in 1 .. (up - lo) : links[i] = sourceLinks[(lo + 1) + i - 1]
    BY <2>3, <2>4
  <2> QED
    BY <2>3, <2>4, <2>5
<1> PICK at : at = IndicesAt(s)
  OBVIOUS
<1>8. /\ DOMAIN at = 1 .. (up - lo)
      /\ \A i \in 1 .. (up - lo) : at[i] = sourceLinks[lo + i].index
  <2>1. at = [i \in 1 .. Len(links) |-> links[i].index]
    BY Zenon DEF IndicesAt
  <2> QED
    BY <1>7, <2>1
<1>9. \A i \in 1 .. n : /\ sourceLinks[i].index < c
                        /\ measurements[sourceLinks[i].index + 1].station = sourceLinks[i].station
  <2>1. \A i \in 1 .. n : sourceLinks[i] \in Range(sourceLinks)
    BY <1>1 DEF Range
  <2> QED
    BY <2>1 DEF LinksResolve
\* Two links of the station with one index are the same link.
<1>10. IsInjective(at)
  <2> SUFFICES ASSUME NEW i \in 1 .. (up - lo), NEW j \in 1 .. (up - lo), at[i] = at[j]
               PROVE  i = j
    BY <1>8 DEF IsInjective
  <2>1. lo + i \in 1 .. n /\ lo + j \in 1 .. n /\ lo < lo + i /\ lo + i <= up /\ lo < lo + j /\ lo + j <= up
    BY <1>2, <1>6
  <2>2. sourceLinks[lo + i].station = s /\ sourceLinks[lo + j].station = s
    BY <1>5, <2>1
  <2>3. sourceLinks[lo + i].index = sourceLinks[lo + j].index
    BY <1>8
  <2>4. \A l, m \in SourceLink : l.station = m.station /\ l.index = m.index => l = m
    BY DEF SourceLink
  <2>5. sourceLinks[lo + i] = sourceLinks[lo + j]
    BY <1>1, <2>1, <2>2, <2>3, <2>4
  <2>6. lo + i = lo + j
    BY <1>1, <2>1, <2>5 DEF LinksResolve, IsInjective
  <2> QED
    BY <1>2, <2>6
<1>11. ASSUME NEW k \in Range(at) PROVE k \in AtStation(s)
  <2>1. PICK i \in 1 .. (up - lo) : k = sourceLinks[lo + i].index
    BY <1>8 DEF Range
  <2>2. lo + i \in 1 .. n /\ lo < lo + i /\ lo + i <= up
    BY <1>2, <1>6
  <2>3. k \in Nat /\ k < c /\ measurements[k + 1].station = s
    BY <1>4, <1>5, <1>9, <2>1, <2>2
  <2>4. c \in Nat
    BY DEF BuildTypeOK
  <2> QED
    BY <2>3, <2>4 DEF AtStation
<1>12. ASSUME NEW k \in AtStation(s) PROVE k \in Range(at)
  <2>1. PICK i \in 1 .. n : sourceLinks[i].index = k
    BY <1>1 DEF AtStation, LinksFiled
  <2>2. sourceLinks[i].station = s
    BY <1>9, <2>1 DEF AtStation
  <2>3. i - lo \in 1 .. (up - lo) /\ lo + (i - lo) = i
    BY <1>2, <1>5, <2>2
  <2>4. at[i - lo] = k
    BY <1>8, <2>1, <2>3
  <2> QED
    BY <1>8, <2>3, <2>4 DEF Range
<1> QED
  BY <1>10, <1>11, <1>12

\* The initial state and every step satisfy what is said of the unfold.
LEMMA UnfoldStep ==
  ASSUME SeedInv, MeasureInv, UnfoldInv, [Next]_vars
  PROVE  UnfoldInv'
<1> USE DEF UnfoldInv
<1>0. stage \in {"prepare", "unfold", "done"} /\ BuildTypeOK /\ hits1 \in Seq(Index) /\ hits2 \in Seq(Index)
  BY DEF SeedInv, TypeOK
<1>1. CASE MissingGeometry
  BY <1>1 DEF MissingGeometry, unfold
<1>2. CASE BuildStep
  BY <1>2 DEF BuildStep, unfold
<1>3. CASE StartUnfold
  <2>1. /\ hits1' = IndicesAt(1) /\ hits2' = IndicesAt(2) /\ present /\ present' = present
        /\ Built /\ stage' = "unfold" /\ UNCHANGED <<hits, next, measurements>>
    BY <1>3 DEF StartUnfold, build
  <2>2. /\ IsInjective(IndicesAt(1)) /\ Range(IndicesAt(1)) = AtStation(1)
        /\ IsInjective(IndicesAt(2)) /\ Range(IndicesAt(2)) = AtStation(2)
    BY <1>0, StationIndices DEF MeasureInv
  <2>3. AtStation(1)' = AtStation(1) /\ AtStation(2)' = AtStation(2) /\ Built'
    BY <2>1 DEF AtStation, Built
  <2> QED
    BY <2>1, <2>2, <2>3
<1>4. CASE EmitSeed
  <2>1. /\ cursor # NoIndex /\ stage = "unfold"
        /\ UNCHANGED <<hits, next, measurements, hits1, hits2, present, stage>>
    BY <1>4 DEF EmitSeed, build
  <2>2. AtStation(1)' = AtStation(1) /\ AtStation(2)' = AtStation(2) /\ Built' = Built
    BY <2>1 DEF AtStation, Built
  <2> QED
    BY <2>1, <2>2
<1>5. CASE EndUnfold \/ Finished \/ UNCHANGED vars
  <2>1. /\ UNCHANGED <<hits, next, measurements, hits1, hits2, cursor, seeds, present>>
        /\ stage' # "prepare" => stage # "prepare"
        /\ stage' = "done" => cursor = NoIndex
    BY <1>5 DEF EndUnfold, Finished, vars, build, unfold
  <2>2. AtStation(1)' = AtStation(1) /\ AtStation(2)' = AtStation(2) /\ Built' = Built
    BY <2>1 DEF AtStation, Built
  <2> QED
    BY <2>1, <2>2
<1> QED
  BY <1>1, <1>2, <1>3, <1>4, <1>5 DEF Next

\* Every step keeps the measurements and their links.
LEMMA MeasureStep ==
  ASSUME SeedInv, MeasureInv, [Next]_vars
  PROVE  MeasureInv'
<1>1. BuildTypeOK
  BY DEF SeedInv, TypeOK
<1>2. CASE BuildStep
  BY <1>1, <1>2, DropMeasured, AcceptMeasured DEF BuildStep
<1>3. CASE UNCHANGED build
  <2>1. UNCHANGED <<hits, next, measurements, sourceLinks>>
    BY <1>3 DEF build
  <2>2. AcceptedHits' = AcceptedHits /\ \A i : IndexOf(i)' = IndexOf(i) /\ MeasuredAs(i)' = MeasuredAs(i)
    BY <2>1 DEF AcceptedHits, IndexOf, MeasuredAs
  <2> QED
    BY <2>1, <2>2 DEF MeasureInv, LinksResolve, LinksFiled, HitsMeasured
<1> QED
  BY <1>2, <1>3 DEF Next, MissingGeometry, StartUnfold, EmitSeed, EndUnfold, Finished, vars

SpillInv == SeedInv /\ MeasureInv /\ UnfoldInv

\* The invariant of a spill holds throughout.
THEOREM SpillCorrect == Spec => []SpillInv
<1>1. Init => SpillInv
  BY InitSeed, InitMeasured DEF SpillInv, UnfoldInv, Init
<1>2. SpillInv /\ [Next]_vars => SpillInv'
  BY SeedInvIsInductive, MeasureStep, UnfoldStep DEF SpillInv
<1> QED
  BY <1>1, <1>2, PTL DEF Spec

\* Every source link resolves to a measurement of its own station, and every
\* measurement has exactly one link, for any geometry and any spill.
THEOREM LinksAlwaysResolve == Spec => []LinksResolve
<1>1. SpillInv => LinksResolve
  BY DEF SpillInv, MeasureInv
<1> QED
  BY <1>1, SpillCorrect, PTL

-------------------------------------------------------------------------------
(* The seeds of a spill. *)

\* The measurements at a station are those of the hits nearest to it.
LEMMA MeasurementsOfStation ==
  ASSUME BuildTypeOK, HitsMeasured, Built, NEW s
  PROVE  /\ \A k \in AtStation(s) : \E i \in AcceptedHits :
               BestStation(hits[i]) = s /\ IndexOf(i) = k /\ measurements[k + 1] = MeasuredAs(i)
         /\ \A i \in AcceptedHits : BestStation(hits[i]) = s =>
               IndexOf(i) \in AtStation(s) /\ measurements[IndexOf(i) + 1] = MeasuredAs(i)
<1>1. \A i \in AcceptedHits : i < next
  <2>1. hits \in Seq(Hit) /\ Len(hits) \in Nat
    BY SpillAssumption DEF BuildTypeOK
  <2> QED
    BY <2>1 DEF AcceptedHits, Built, BuildTypeOK
<1>2. \A i \in AcceptedHits :
         /\ IndexOf(i) \in 0 .. (Len(measurements) - 1)
         /\ measurements[IndexOf(i) + 1] = MeasuredAs(i)
  BY <1>1 DEF HitsMeasured
<1>3. \A i : MeasuredAs(i).station = BestStation(hits[i])
  BY DEF MeasuredAs
<1>4. \A k \in 0 .. (Len(measurements) - 1) : \E i \in AcceptedHits : IndexOf(i) = k
  BY DEF HitsMeasured
<1>5. ASSUME NEW k \in AtStation(s)
      PROVE  \E i \in AcceptedHits :
                BestStation(hits[i]) = s /\ IndexOf(i) = k /\ measurements[k + 1] = MeasuredAs(i)
  <2>1. PICK i \in AcceptedHits : IndexOf(i) = k
    BY <1>4 DEF AtStation
  <2>2. measurements[k + 1] = MeasuredAs(i)
    BY <1>2, <2>1
  <2>3. BestStation(hits[i]) = s
    BY <1>3, <2>2 DEF AtStation
  <2> QED
    BY <2>1, <2>2, <2>3
<1>6. ASSUME NEW i \in AcceptedHits, BestStation(hits[i]) = s
      PROVE  IndexOf(i) \in AtStation(s) /\ measurements[IndexOf(i) + 1] = MeasuredAs(i)
  BY <1>2, <1>3, <1>6 DEF AtStation
<1> QED
  BY <1>5, <1>6

\* The cuts see the same numbers in a measurement as in its hit.
LEMMA CutsOfHits ==
  \A i, j : Compatible(MeasuredAs(i), MeasuredAs(j)) <=> Compatible(hits[i], hits[j])
BY DEF Compatible, InTime, ForwardGoing, WithinAngle, MeasuredAs

\* Of two sequences without repetition every pair of elements has one flat
\* index, and every flat index names a pair.
LEMMA FlatPairs ==
  ASSUME NEW h1 \in Seq(Index), NEW h2 \in Seq(Index), IsInjective(h1), IsInjective(h2)
  PROVE  LET K == 0 .. (Len(h1) * Len(h2) - 1)
         IN  /\ \A k \in K : PairAt(h1, h2, k) \in Range(h1) \X Range(h2)
             /\ \A j, k \in K : PairAt(h1, h2, j) = PairAt(h1, h2, k) => j = k
             /\ \A p \in Range(h1) \X Range(h2) : \E k \in K : PairAt(h1, h2, k) = p
<1> PICK a \in Nat : a = Len(h1)
  OBVIOUS
<1> PICK b \in Nat : b = Len(h2)
  OBVIOUS
<1>1. DOMAIN h1 = 1 .. a /\ DOMAIN h2 = 1 .. b
  OBVIOUS
<1>2. \A k \in 0 .. (a * b - 1) :
         b > 0 /\ k \div b \in 0 .. (a - 1) /\ k % b \in 0 .. (b - 1)
  BY RowInRange, Zenon
<1>p. \A k : PairAt(h1, h2, k) = <<h1[(k \div b) + 1], h2[(k % b) + 1]>>
  BY Zenon DEF PairAt
<1>3. ASSUME NEW k \in 0 .. (a * b - 1) PROVE PairAt(h1, h2, k) \in Range(h1) \X Range(h2)
  <2> PICK r : r = k \div b
    OBVIOUS
  <2> PICK c : c = k % b
    OBVIOUS
  <2>1. r \in 0 .. (a - 1) /\ c \in 0 .. (b - 1)
    BY <1>2
  <2>2. r + 1 \in 1 .. a /\ c + 1 \in 1 .. b
    BY <2>1
  <2>3. h1[r + 1] \in Range(h1) /\ h2[c + 1] \in Range(h2)
    BY <1>1, <2>2 DEF Range
  <2>4. PairAt(h1, h2, k) = <<h1[r + 1], h2[c + 1]>>
    BY <1>p, Zenon
  <2> QED
    BY <2>3, <2>4
<1>4. ASSUME NEW j \in 0 .. (a * b - 1), NEW k \in 0 .. (a * b - 1),
             PairAt(h1, h2, j) = PairAt(h1, h2, k)
      PROVE  j = k
  <2> PICK r : r = j \div b
    OBVIOUS
  <2> PICK q : q = k \div b
    OBVIOUS
  <2> PICK c : c = j % b
    OBVIOUS
  <2> PICK d : d = k % b
    OBVIOUS
  <2>a. b > 0 /\ r \in 0 .. (a - 1) /\ c \in 0 .. (b - 1) /\ q \in 0 .. (a - 1) /\ d \in 0 .. (b - 1)
    BY <1>2, Zenon
  <2>b. <<h1[r + 1], h2[c + 1]>> = <<h1[q + 1], h2[d + 1]>>
    BY <1>p, <1>4, Zenon
  <2>1. /\ b > 0 /\ r \in 0 .. (a - 1) /\ c \in 0 .. (b - 1)
        /\ q \in 0 .. (a - 1) /\ d \in 0 .. (b - 1)
        /\ h1[r + 1] = h1[q + 1] /\ h2[c + 1] = h2[d + 1]
    BY <2>a, <2>b
  <2>2. r + 1 = q + 1
    <3>1. r + 1 \in DOMAIN h1 /\ q + 1 \in DOMAIN h1
      BY <1>1, <2>1
    <3> QED
      BY <2>1, <3>1 DEF IsInjective
  <2>3. c + 1 = d + 1
    <3>1. c + 1 \in DOMAIN h2 /\ d + 1 \in DOMAIN h2
      BY <1>1, <2>1
    <3> QED
      BY <2>1, <3>1 DEF IsInjective
  <2>4. r = q /\ c = d
    BY <2>1, <2>2, <2>3
  <2>5. j = b * r + c /\ k = b * q + d
    BY <2>1
  <2> QED
    BY <2>4, <2>5
<1>5. ASSUME NEW p \in Range(h1) \X Range(h2)
      PROVE  \E k \in 0 .. (a * b - 1) : PairAt(h1, h2, k) = p
  <2>1. PICK i \in 1 .. a : h1[i] = p[1]
    BY <1>1 DEF Range
  <2>2. PICK j \in 1 .. b : h2[j] = p[2]
    BY <1>1 DEF Range
  <2> PICK r : r = i - 1
    OBVIOUS
  <2> PICK c : c = j - 1
    OBVIOUS
  <2>3. r \in 0 .. (a - 1) /\ c \in 0 .. (b - 1) /\ r + 1 = i /\ c + 1 = j
    OBVIOUS
  <2>4. /\ r * b + c \in 0 .. (a * b - 1)
        /\ (r * b + c) \div b = r /\ (r * b + c) % b = c
    <3>1. a \in Nat /\ b \in Nat
      OBVIOUS
    <3>2. r \in 0 .. (a - 1) /\ c \in 0 .. (b - 1)
      BY <2>3
    <3>3. r * b + c \in 0 .. (a * b - 1)
      BY ONLY <3>1, <3>2, FlatIndex
    <3>4. (r * b + c) \div b = r
      BY ONLY <3>1, <3>2, FlatIndex
    <3>5. (r * b + c) % b = c
      BY ONLY <3>1, <3>2, FlatIndex
    <3> QED
      BY <3>3, <3>4, <3>5
  <2>5. PairAt(h1, h2, r * b + c) = <<h1[r + 1], h2[c + 1]>>
    BY <1>p, <2>4, Zenon
  <2> QED
    BY <2>1, <2>2, <2>3, <2>4, <2>5
<1> QED
  BY <1>3, <1>4, <1>5

\* At the end of a spill with geometry the seeds are the expected ones.
LEMMA DoneHasAllPairs ==
  ASSUME SpillInv, stage = "done", present
  PROVE  Range(seeds) = ExpectedSeeds /\ IsInjective(seeds)
<1>1. /\ cursor = NoIndex /\ Built /\ BuildTypeOK /\ HitsMeasured
      /\ hits1 \in Seq(Index) /\ hits2 \in Seq(Index) /\ seeds \in Seq(Index \X Index)
      /\ IsInjective(hits1) /\ Range(hits1) = AtStation(1)
      /\ IsInjective(hits2) /\ Range(hits2) = AtStation(2)
  BY DEF SpillInv, SeedInv, TypeOK, UnfoldInv, MeasureInv
<1> PICK K : K = 0 .. (Len(hits1) * Len(hits2) - 1)
  OBVIOUS
<1> PICK V : V = ValidFrom(hits1, hits2, 0)
  OBVIOUS
<1>2. \A k : k \in V <=> k \in K /\ Valid(hits1, hits2, k)
  BY DEF ValidFrom
<1>3. PICK at : /\ at \in [DOMAIN seeds -> V]
                /\ \A i, j \in DOMAIN seeds : i < j => at[i] < at[j]
                /\ \A k \in V : \E i \in DOMAIN seeds : at[i] = k
                /\ \A i \in DOMAIN seeds : seeds[i] = PairAt(hits1, hits2, at[i])
  BY <1>1 DEF SpillInv, SeedInv, SeedsBelowCursor, Below
<1>4. /\ \A k \in K : PairAt(hits1, hits2, k) \in AtStation(1) \X AtStation(2)
      /\ \A j, k \in K : PairAt(hits1, hits2, j) = PairAt(hits1, hits2, k) => j = k
      /\ \A p \in AtStation(1) \X AtStation(2) : \E k \in K : PairAt(hits1, hits2, k) = p
  BY <1>1, FlatPairs
<1>5. IsInjective(seeds)
  <2> SUFFICES ASSUME NEW i \in DOMAIN seeds, NEW j \in DOMAIN seeds, seeds[i] = seeds[j]
               PROVE  i = j
    BY DEF IsInjective
  <2>1. at[i] \in K /\ at[j] \in K
    BY <1>2, <1>3
  <2>2. at[i] = at[j]
    BY <1>3, <1>4, <2>1
  <2>3. at[i] \in Int /\ i \in Int /\ j \in Int
    BY <1>1, <2>1
  <2>4. ~(i < j) /\ ~(j < i)
    BY <1>3, <2>2, <2>3
  <2> QED
    BY <2>3, <2>4
\* A flat index is valid exactly when the hits it names are compatible.
<1>6. ASSUME NEW i \in AcceptedHits, NEW j \in AcceptedHits, NEW k,
             measurements[IndexOf(i) + 1] = MeasuredAs(i),
             measurements[IndexOf(j) + 1] = MeasuredAs(j),
             PairAt(hits1, hits2, k) = <<IndexOf(i), IndexOf(j)>>
      PROVE  Valid(hits1, hits2, k) <=> Compatible(hits[i], hits[j])
  BY <1>6, CutsOfHits DEF Valid
<1>7. ASSUME NEW p \in Range(seeds) PROVE p \in ExpectedSeeds
  <2>1. PICK n \in DOMAIN seeds : p = seeds[n]
    BY DEF Range
  <2> PICK k : k = at[n]
    OBVIOUS
  <2>2. k \in K /\ Valid(hits1, hits2, k) /\ p = PairAt(hits1, hits2, k)
    BY <1>2, <1>3, <2>1
  <2>3. p = <<p[1], p[2]>> /\ p[1] \in AtStation(1) /\ p[2] \in AtStation(2)
    BY <1>4, <2>2
  <2>4. PICK i \in AcceptedHits : BestStation(hits[i]) = 1 /\ IndexOf(i) = p[1]
                                  /\ measurements[IndexOf(i) + 1] = MeasuredAs(i)
    BY <1>1, <2>3, MeasurementsOfStation
  <2>5. PICK j \in AcceptedHits : BestStation(hits[j]) = 2 /\ IndexOf(j) = p[2]
                                  /\ measurements[IndexOf(j) + 1] = MeasuredAs(j)
    BY <1>1, <2>3, MeasurementsOfStation
  <2>6. Compatible(hits[i], hits[j])
    BY <1>6, <2>2, <2>3, <2>4, <2>5
  <2>7. <<i, j>> \in {q \in AcceptedHits \X AcceptedHits :
                         /\ BestStation(hits[q[1]]) = 1
                         /\ BestStation(hits[q[2]]) = 2
                         /\ Compatible(hits[q[1]], hits[q[2]])}
    BY <2>4, <2>5, <2>6
  <2>8. p = <<IndexOf(<<i, j>>[1]), IndexOf(<<i, j>>[2])>>
    BY <2>3, <2>4, <2>5
  <2> QED
    BY <2>7, <2>8, Zenon DEF ExpectedSeeds
<1>8. ASSUME NEW p \in ExpectedSeeds PROVE p \in Range(seeds)
  <2>1. PICK i \in AcceptedHits, j \in AcceptedHits :
           /\ p = <<IndexOf(i), IndexOf(j)>>
           /\ BestStation(hits[i]) = 1 /\ BestStation(hits[j]) = 2
           /\ Compatible(hits[i], hits[j])
    BY DEF ExpectedSeeds
  <2>2. /\ IndexOf(i) \in AtStation(1) /\ measurements[IndexOf(i) + 1] = MeasuredAs(i)
        /\ IndexOf(j) \in AtStation(2) /\ measurements[IndexOf(j) + 1] = MeasuredAs(j)
    BY <1>1, <2>1, MeasurementsOfStation
  <2>3. PICK k \in K : PairAt(hits1, hits2, k) = p
    BY <1>4, <2>1, <2>2
  <2>4. k \in V
    BY <1>2, <1>6, <2>1, <2>2, <2>3
  <2>5. PICK n \in DOMAIN seeds : at[n] = k
    BY <1>3, <2>4
  <2> QED
    BY <1>3, <2>3, <2>5 DEF Range
<1> QED
  BY <1>5, <1>7, <1>8

\* For every spill the unfold emits exactly the pairs of compatible hits
\* nearest to stations 1 and 2, each once, and none without geometry.
THEOREM AllPairsAreSeeds == Spec => []SeedsAreAllPairs
<1>1. SpillInv => SeedsAreAllPairs
  BY DoneHasAllPairs DEF SeedsAreAllPairs, SpillInv, UnfoldInv
<1> QED
  BY <1>1, SpillCorrect, PTL

-------------------------------------------------------------------------------
(* The fit of a seed. *)

\* A function on 1 .. n is a sequence of its length.
LEMMA FunctionIsSequence ==
  ASSUME NEW S, NEW n \in Nat, NEW s \in [1 .. n -> S]
  PROVE  s \in Seq(S) /\ Len(s) = n
  OBVIOUS

\* What is kept of a sequence is in the sequence's order.
LEMMA KeptInOrder ==
  ASSUME NEW S, NEW s \in Seq(S), NEW T \in SUBSET (DOMAIN s)
  PROVE  /\ Cardinality(T) \in 0 .. Len(s)
         /\ Kept(s, T) \in Seq(S)
         /\ Len(Kept(s, T)) = Cardinality(T)
         /\ \E f : Lists(f, T) /\ \A i \in 1 .. Cardinality(T) : Kept(s, T)[i] = s[f[i]]
<1> PICK n \in Nat : n = Len(s)
  OBVIOUS
<1>1. DOMAIN s = 1 .. n /\ T \in SUBSET (1 .. n) /\ s \in [1 .. n -> S]
  OBVIOUS
<1> PICK rank : rank = [i \in T |-> i]
  OBVIOUS
<1> PICK c, f : c = Cardinality(T) /\ f = ByRank(T, rank)
  OBVIOUS
<1>2. c \in 0 .. n /\ Lists(f, T)
  <2>1. n \in Nat /\ T \in SUBSET (1 .. n) /\ rank = [x \in T |-> x]
    BY <1>1
  <2> QED
    BY ONLY <2>1, Enumeration, c = Cardinality(T), f = ByRank(T, rank)
<1>3. f \in [1 .. c -> T]
  BY <1>2 DEF Lists
<1>4. Kept(s, T) = [i \in DOMAIN f |-> s[f[i]]]
  <2>1. Ordered(T, rank) = f
    BY DEF Ordered, ByRank
  <2> QED
    BY <2>1 DEF Kept
<1>5. Kept(s, T) = [i \in 1 .. c |-> s[f[i]]]
  BY <1>3, <1>4
<1>6. Kept(s, T) \in [1 .. c -> S]
  BY <1>1, <1>3, <1>5
<1>7. Kept(s, T) \in Seq(S) /\ Len(Kept(s, T)) = c
  <2> PICK r : r = Kept(s, T)
    OBVIOUS
  <2>1. r \in [1 .. c -> S] /\ c \in Nat
    BY <1>2, <1>6
  <2> QED
    BY <2>1
<1> QED
  BY <1>2, <1>5, <1>7

\* Nothing is kept, or the only element there is.
LEMMA KeptOfOne ==
  /\ \A s : Kept(s, {}) = << >>
  /\ \A e : Kept(<< e >>, {1}) = << e >>
<1>1. ASSUME NEW s PROVE Kept(s, {}) = << >>
  <2>1. Cardinality({}) = 0
    BY FS_EmptySet
  <2> PICK order : order = Ordered({}, [x \in {} |-> x])
    OBVIOUS
  <2>2. DOMAIN order = 1 .. 0
    BY <2>1 DEF Ordered
  <2> PICK r : r = Kept(s, {})
    OBVIOUS
  <2> DEFINE S == {s[order[i]] : i \in 1 .. 0}
  <2>3. r = [i \in 1 .. 0 |-> s[order[i]]]
    BY <2>2 DEF Kept
  <2>4. r \in [1 .. 0 -> S]
    BY <2>3
  <2>5. r \in Seq(S) /\ Len(r) = 0
    <3> HIDE DEF S
    <3> QED
      BY <2>4, 0 \in Nat, FunctionIsSequence
  <2> QED
    BY <2>5, EmptySeq
<1>2. ASSUME NEW e PROVE Kept(<< e >>, {1}) = << e >>
  <2>1. /\ << e >> \in Seq({e}) /\ DOMAIN << e >> = {1} /\ << e >>[1] = e /\ Len(<< e >>) = 1
    OBVIOUS
  <2>2. Cardinality({1}) = 1
    BY FS_Singleton
  <2> PICK r : r = Kept(<< e >>, {1})
    OBVIOUS
  <2> PICK o : o = << e >>
    OBVIOUS
  <2>3. r \in Seq({e}) /\ Len(r) = 1
    <3>1. o \in Seq({e}) /\ {1} \in SUBSET (DOMAIN o)
      BY <2>1
    <3>2. Kept(o, {1}) \in Seq({e}) /\ Len(Kept(o, {1})) = Cardinality({1})
      BY ONLY <3>1, KeptInOrder
    <3> QED
      BY <3>2, <2>2
  <2> QED
    BY <2>3
<1> QED
  BY <1>1, <1>2

\* A state of a branch: a hole where the station has no hit, else one of the
\* hits of the station, with its link.
GoodState(t) ==
    /\ t.station \in Stations
    /\ IF SelectModule(sourceLinks, t.station) = <<>> THEN t = Hole(t.station)
       ELSE \E i \in Index :
               i < Len(measurements) /\ StationOf(i) = t.station /\ t = Measured(t.station, i)

\* A branch goes downstream.
GoodBranch(b) ==
    /\ b \in Branch /\ b # <<>>
    /\ \A i, j \in DOMAIN b : i < j => StationZ[b[i].station] < StationZ[b[j].station]
    /\ \A i \in DOMAIN b : GoodState(b[i])

\* The links of a station lead to measurements of the station.
LinksOfStation(s) ==
    LET links == SelectModule(sourceLinks, s)
    IN  /\ links \in Seq(SourceLink)
        /\ \A i \in DOMAIN links :
              /\ links[i].index \in Index /\ links[i].index < Len(measurements)
              /\ StationOf(links[i].index) = s

\* What SelectModule finds at a station are links of that station.
LEMMA StationLinks ==
  ASSUME SpillInv, NEW s \in Stations
  PROVE  LinksOfStation(s)
<1>1. BuildTypeOK /\ LinksResolve /\ LinksFiled /\ s \in Int
  BY StationAssumption DEF SpillInv, SeedInv, TypeOK, MeasureInv, Stations
<1>2. Range(IndicesAt(s)) = AtStation(s)
  BY <1>1, StationIndices
<1> PICK links : links = SelectModule(sourceLinks, s)
  OBVIOUS
<1>3. sourceLinks \in Seq(SourceLink) /\ measurements \in Seq(Measurement)
  BY <1>1 DEF BuildTypeOK
<1>4. links \in Seq(SourceLink)
  <2> PICK lo \in Int, up \in Int : 
         /\ lo \in 0 .. Len(sourceLinks) /\ up \in 0 .. Len(sourceLinks)
         /\ lo = LowerBound(sourceLinks, s) /\ up = UpperBound(sourceLinks, s)
    BY <1>3, BoundsInRange
  <2>1. links = SubSeq(sourceLinks, lo + 1, up)
    BY DEF SelectModule
  <2> QED
    BY <1>3, <2>1
<1>5. ASSUME NEW i \in DOMAIN links
      PROVE  /\ links[i].index \in Index /\ links[i].index < Len(measurements)
             /\ StationOf(links[i].index) = s
  <2>1. i \in 1 .. Len(links) /\ links[i] \in SourceLink
    BY <1>4
  <2>2. IndicesAt(s) = [j \in 1 .. Len(links) |-> links[j].index]
    BY DEF IndicesAt
  <2>3. links[i].index \in Range(IndicesAt(s))
    BY <2>1, <2>2 DEF Range
  <2>4. links[i].index \in AtStation(s) /\ links[i].index \in Index
    BY <1>2, <2>1, <2>3 DEF SourceLink, Index
  <2> QED
    BY <1>3, <2>4 DEF AtStation, StationOf, MeasurementOf
<1> QED
  BY <1>4, <1>5 DEF LinksOfStation

\* Squares are natural numbers, so one of the candidates is nearest.
LEMMA NearestExists ==
  ASSUME SpillInv, NEW s \in Stations, NEW p \in Coordinate,
         SelectModule(sourceLinks, s) # <<>>
  PROVE  Nearest(SelectModule(sourceLinks, s), p) \in DOMAIN SelectModule(sourceLinks, s)
<1> PICK links : links = SelectModule(sourceLinks, s)
  OBVIOUS
<1> PICK n \in Nat : n = Len(links)
  BY StationLinks DEF LinksOfStation
<1>1. /\ links \in Seq(SourceLink) /\ DOMAIN links = 1 .. n /\ n > 0
      /\ \A i \in 1 .. n : links[i].index \in Nat /\ links[i].index < Len(measurements)
  <2>1. links \in Seq(SourceLink) /\ DOMAIN links = 1 .. n
    BY StationLinks DEF LinksOfStation
  <2>2. n > 0
    BY <2>1, EmptySeq
  <2>3. \A i \in 1 .. n : links[i].index \in Index /\ links[i].index < Len(measurements)
    BY <2>1, StationLinks DEF LinksOfStation
  <2> QED
    BY <2>1, <2>2, <2>3, IndexAssumption DEF Index
<1>2. measurements \in Seq(Measurement)
  BY DEF SpillInv, SeedInv, TypeOK, BuildTypeOK
<1>3. ASSUME NEW i \in 1 .. n
      PROVE  Dist2(links[i], p) \in Nat \union {NaN}
  <2>1. MeasurementOf(links[i].index) \in Measurement
    BY <1>1, <1>2 DEF MeasurementOf
  <2> PICK x : x = MeasurementOf(links[i].index).x
    OBVIOUS
  <2>2. x \in Coordinate
    BY <2>1 DEF Measurement
  <2> PICK d : d = Minus(p, x)
    OBVIOUS
  <2>3. d \in Int \union {NaN}
    BY <2>2 DEF Minus, Coordinate
  <2>4. Dist2(links[i], p) = IF d = NaN THEN NaN ELSE d * d
    BY DEF Dist2
  <2>5. d \in Int => d * d \in Nat
    <3> SUFFICES ASSUME d \in Int PROVE d * d \in Nat
      OBVIOUS
    <3>1. CASE d >= 0
      BY <3>1
    <3>2. CASE d < 0
      <4> PICK e \in Nat : e = -d
        BY <3>2
      <4>1. d * d = e * e
        BY <3>2
      <4> QED
        BY <4>1
    <3> QED
      BY <3>1, <3>2
  <2> QED
    BY <2>3, <2>4, <2>5
<1> DEFINE near == {i \in DOMAIN links : Dist2(links[i], p) # NaN}
           closest == {i \in near : \A j \in near : Dist2(links[i], p) <= Dist2(links[j], p)}
<1>4. Nearest(links, p) = IF near = {} THEN 1 ELSE Min(closest)
  BY DEF Nearest
<1>5. CASE near = {}
  BY <1>1, <1>4, <1>5
<1>6. CASE near # {}
  <2> DEFINE D == {Dist2(links[i], p) : i \in near}
  <2>1. near \subseteq 1 .. n
    BY <1>1
  <2>2. D \in SUBSET Nat /\ D # {}
    BY <1>3, <1>6, <2>1
  <2>3. Min(D) \in D /\ \A y \in D : Min(D) <= y
    <3> HIDE DEF D
    <3> QED
      BY <2>2, MinOfNats
  <2>4. PICK i \in near : Min(D) = Dist2(links[i], p)
    BY <2>3
  <2>5. \A j \in near : Dist2(links[j], p) \in D
    OBVIOUS
  <2> HIDE DEF D
  <2>6. i \in closest
    BY <2>3, <2>4, <2>5
  <2>7. closest \in SUBSET Nat /\ closest # {} /\ closest \subseteq 1 .. n
    BY <2>1, <2>6
  <2>8. Min(closest) \in closest
    <3> HIDE DEF closest
    <3> QED
      BY <2>7, MinOfNats
  <2> HIDE DEF closest, near
  <2> QED
    BY <1>1, <1>4, <1>6, <2>7, <2>8
<1> QED
  BY <1>5, <1>6

\* At a station a branch takes one state.
LEMMA OneState ==
  ASSUME SpillInv, NEW b, NEW s \in Stations, NEW p \in Coordinate
  PROVE  \E t \in State : GoodState(t) /\ t.station = s /\ Extend(b, s, p) = << Append(b, t) >>
<1> PICK links : links = SelectModule(sourceLinks, s)
  OBVIOUS
<1> PICK chosen : chosen = Selected(links, p)
  OBVIOUS
<1>1. Extend(b, s, p) = IF chosen = <<>> THEN <<Append(b, Hole(s))>>
                        ELSE [i \in DOMAIN chosen |-> Append(b, Measured(s, chosen[i].index))]
  BY DEF Extend
<1>2. chosen = IF links = <<>> THEN <<>> ELSE <<links[Nearest(links, p)]>>
  BY DEF Selected
<1>3. CASE links = <<>>
  <2> PICK t : t = Hole(s)
    OBVIOUS
  <2>1. t \in State /\ t.station = s
    BY DEF Hole, State, Flags
  <2>2. GoodState(t)
    BY <1>3, <2>1 DEF GoodState
  <2>3. Extend(b, s, p) = << Append(b, t) >>
    BY <1>1, <1>2, <1>3
  <2> QED
    BY <2>1, <2>2, <2>3
<1>4. CASE links # <<>>
  <2> PICK l : l = links[Nearest(links, p)]
    OBVIOUS
  <2>1. l.index \in Index /\ l.index < Len(measurements) /\ StationOf(l.index) = s
    BY <1>4, NearestExists, StationLinks DEF LinksOfStation
  <2> PICK t : t = Measured(s, l.index)
    OBVIOUS
  <2>2. t \in State /\ t.station = s
    BY <2>1 DEF Measured, Calibrate, State, Flags
  <2>3. GoodState(t)
    BY <1>4, <2>1, <2>2 DEF GoodState
  <2>4. chosen = << l >> /\ chosen # <<>>
    BY <1>2, <1>4
  <2>5. Extend(b, s, p) = [i \in {1} |-> Append(b, Measured(s, chosen[i].index))]
    <3>1. DOMAIN chosen = {1}
      BY <2>4
    <3> QED
      BY <1>1, <2>4, <3>1
  <2>6. Extend(b, s, p) = [i \in {1} |-> Append(b, t)]
    BY <2>4, <2>5
  <2>7. Extend(b, s, p) = << Append(b, t) >>
    BY <2>6
  <2> QED
    BY <2>2, <2>3, <2>7
<1> QED
  BY <1>3, <1>4

\* A branch that goes on downstream.
LEMMA BranchGrows ==
  ASSUME NEW b \in Branch, NEW t \in State, GoodState(t),
         b = <<>> \/ (GoodBranch(b) /\ StationZ[t.station] > StationZ[Last(b).station])
  PROVE  GoodBranch(Append(b, t))
<1> PICK n \in Nat : n = Len(b)
  BY DEF Branch
<1>1. b \in Seq(State) /\ DOMAIN b = 1 .. n
  BY DEF Branch
<1> PICK c : c = Append(b, t)
  OBVIOUS
<1>2. /\ c \in Seq(State) /\ DOMAIN c = 1 .. (n + 1) /\ c[n + 1] = t
      /\ \A i \in 1 .. n : c[i] = b[i]
  BY <1>1
<1>3. c \in Branch /\ c # <<>>
  BY <1>2 DEF Branch
<1>4. ASSUME NEW i \in DOMAIN c
      PROVE  GoodState(c[i])
  <2>1. i = n + 1 \/ i \in 1 .. n
    BY <1>2
  <2>2. CASE i \in 1 .. n
    <3>1. b # <<>>
      BY <1>1, <2>2
    <3>2. GoodState(b[i])
      BY <1>1, <2>2, <3>1 DEF GoodBranch
    <3> QED
      BY <1>2, <2>2, <3>2
  <2> QED
    BY <1>2, <2>1, <2>2
<1>5. ASSUME NEW i \in DOMAIN c, NEW j \in DOMAIN c, i < j
      PROVE  StationZ[c[i].station] < StationZ[c[j].station]
  <2>1. i \in 1 .. n /\ j \in 1 .. (n + 1) /\ n > 0
    BY <1>2, <1>5
  <2>2. b # <<>> /\ GoodBranch(b) /\ StationZ[t.station] > StationZ[Last(b).station]
    BY <1>1, <2>1
  <2>3. \A k \in 1 .. n : StationZ[b[k].station] \in Int
    <3>1. \A k \in 1 .. n : b[k].station \in Stations
      BY <1>1, <2>2 DEF GoodBranch, GoodState
    <3> QED
      BY <3>1, StationAssumption
  <2>4. StationZ[t.station] \in Int
    BY StationAssumption DEF GoodState
  <2>5. StationZ[b[i].station] <= StationZ[b[n].station]
    <3>1. CASE i = n
      BY <2>1, <2>3, <3>1
    <3>2. CASE i < n
      <4>1. StationZ[b[i].station] < StationZ[b[n].station]
        BY <1>1, <2>1, <2>2, <3>2 DEF GoodBranch
      <4> QED
        BY <2>1, <2>3, <4>1
    <3> QED
      BY <2>1, <3>1, <3>2
  <2>6. Last(b) = b[n]
    BY DEF Last
  <2>7. CASE j = n + 1
    <3>1. StationZ[b[i].station] < StationZ[t.station]
      <4>1. n \in 1 .. n
        BY <2>1
      <4>2. StationZ[t.station] > StationZ[b[n].station]
        BY <2>2, <2>6
      <4> QED
        BY <2>1, <2>3, <2>4, <2>5, <4>1, <4>2
    <3> QED
      BY <1>2, <2>1, <2>7, <3>1
  <2>8. CASE j \in 1 .. n
    <3>1. StationZ[b[i].station] < StationZ[b[j].station]
      BY <1>1, <1>5, <2>1, <2>2, <2>8 DEF GoodBranch
    <3> QED
      BY <1>2, <2>1, <2>8, <3>1
  <2> QED
    BY <2>1, <2>7, <2>8
<1>6. GoodBranch(c)
  BY <1>3, <1>4, <1>5 DEF GoodBranch
<1> QED
  BY <1>6

\* The hits of a branch: one of each station with hits, from the last back.
GoodHits(hs, b) ==
    /\ hs \in Seq(Index)
    /\ \A i \in DOMAIN hs : hs[i] < Len(measurements)
    /\ StationsOf(hs) = Met(b)
    /\ Backwards(hs)

\* A state with a link is a hit of its station; at a station with hits each
\* state is one.
LEMMA StateWithLink ==
  ASSUME NEW t, GoodState(t)
  PROVE  /\ {"measurement", "sourceLink"} \subseteq t.flags
               <=> SelectModule(sourceLinks, t.station) # <<>>
         /\ SelectModule(sourceLinks, t.station) # <<>> =>
               /\ t.index \in Index /\ t.index < Len(measurements)
               /\ StationOf(t.index) = t.station
<1>1. CASE SelectModule(sourceLinks, t.station) = <<>>
  <2>1. t = Hole(t.station)
    BY <1>1 DEF GoodState
  <2>2. t.flags = {}
    BY <2>1 DEF Hole
  <2> QED
    BY <1>1, <2>2
<1>2. CASE SelectModule(sourceLinks, t.station) # <<>>
  <2> PICK i \in Index :
        i < Len(measurements) /\ StationOf(i) = t.station /\ t = Measured(t.station, i)
    BY <1>2 DEF GoodState
  <2>1. t.index = i /\ t.flags = {"measurement", "calibrated", "sourceLink"}
    BY DEF Measured, Calibrate
  <2> QED
    BY <1>2, <2>1
<1> QED
  BY <1>1, <1>2

\* What findCandidateHits reads off a branch.
LEMMA BranchHits ==
  ASSUME NEW b, GoodBranch(b)
  PROVE  GoodHits(CandidateHits(b), b)
<1> PICK n \in Nat : n = Len(b)
  BY DEF GoodBranch, Branch
<1>1. b \in Seq(State) /\ DOMAIN b = 1 .. n /\ \A i \in 1 .. n : b[i] \in State
  BY DEF GoodBranch, Branch
<1> PICK back : back = Reverse(b)
  OBVIOUS
<1>2. back \in Seq(State) /\ DOMAIN back = 1 .. n /\ \A i \in 1 .. n : back[i] = b[(n - i) + 1]
  <2>1. back = [i \in 1 .. n |-> b[(n - i) + 1]]
    BY DEF Reverse
  <2>2. \A i \in 1 .. n : (n - i) + 1 \in 1 .. n
    OBVIOUS
  <2>3. back \in [1 .. n -> State]
    BY <1>1, <2>1, <2>2
  <2> QED
    BY <2>1, <2>3, FunctionIsSequence
<1> PICK T : T = {i \in DOMAIN back : {"measurement", "sourceLink"} \subseteq back[i].flags}
  OBVIOUS
<1>3. T \in SUBSET (DOMAIN back) /\ T \subseteq 1 .. n
  BY <1>2
<1> PICK usable : usable = Kept(back, T)
  OBVIOUS
<1> PICK c : c = Cardinality(T)
  OBVIOUS
<1>4. /\ c \in 0 .. n
      /\ usable \in Seq(State) /\ Len(usable) = c
      /\ \E f : Lists(f, T) /\ \A i \in 1 .. c : usable[i] = back[f[i]]
  <2>1. Len(back) = n
    BY <1>2
  <2>2. back \in Seq(State) /\ T \in SUBSET (DOMAIN back)
    BY <1>2, <1>3
  <2>3. /\ Cardinality(T) \in 0 .. Len(back)
        /\ Kept(back, T) \in Seq(State)
        /\ Len(Kept(back, T)) = Cardinality(T)
    BY ONLY <2>2, KeptInOrder
  <2>4. \E f : Lists(f, T) /\ \A i \in 1 .. Cardinality(T) : Kept(back, T)[i] = back[f[i]]
    BY ONLY <2>2, KeptInOrder
  <2> QED
    BY <2>1, <2>3, <2>4
<1>5. PICK f : Lists(f, T) /\ \A i \in 1 .. c : usable[i] = back[f[i]]
  BY <1>4
<1>6. /\ \A i \in 1 .. c : f[i] \in T
      /\ \A i, j \in 1 .. c : i < j => f[i] < f[j]
      /\ \A x \in T : \E k \in 1 .. c : f[k] = x
  BY <1>5 DEF Lists
<1> PICK hs : hs = CandidateHits(b)
  OBVIOUS
<1>7. hs = [i \in 1 .. c |-> usable[i].index]
  <2>1. hs = [i \in DOMAIN usable |-> usable[i].index]
    BY DEF CandidateHits
  <2>2. DOMAIN usable = 1 .. c
    BY <1>4
  <2> QED
    BY <2>1, <2>2
<1>8. \A i \in 1 .. n : i \in T <=> SelectModule(sourceLinks, back[i].station) # <<>>
  <2> TAKE i \in 1 .. n
  <2>1. (n - i) + 1 \in 1 .. n /\ back[i] = b[(n - i) + 1]
    BY <1>2
  <2>2. GoodState(back[i])
    BY <1>1, <2>1 DEF GoodBranch
  <2> QED
    BY <1>2, <2>2, StateWithLink
<1>9. ASSUME NEW i \in 1 .. c
      PROVE  /\ hs[i] \in Index /\ hs[i] < Len(measurements)
             /\ f[i] \in T /\ (n - f[i]) + 1 \in 1 .. n
             /\ StationOf(hs[i]) = b[(n - f[i]) + 1].station
  <2>1. f[i] \in T /\ f[i] \in 1 .. n
    BY <1>3, <1>6
  <2>2. (n - f[i]) + 1 \in 1 .. n /\ back[f[i]] = b[(n - f[i]) + 1]
    BY <1>2, <2>1
  <2>3. GoodState(back[f[i]])
    BY <1>1, <2>2 DEF GoodBranch
  <2>4. hs[i] = back[f[i]].index
    BY <1>5, <1>7
  <2>5. SelectModule(sourceLinks, back[f[i]].station) # <<>>
    BY <1>8, <2>1
  <2>6. hs[i] \in Index /\ hs[i] < Len(measurements) /\ StationOf(hs[i]) = back[f[i]].station
    BY <2>3, <2>4, <2>5, StateWithLink
  <2> QED
    BY <2>1, <2>2, <2>6
<1>10. hs \in Seq(Index) /\ DOMAIN hs = 1 .. c
  <2>1. hs \in [1 .. c -> Index] /\ c \in Nat
    BY <1>4, <1>7, <1>9
  <2> QED
    BY <2>1, FunctionIsSequence
<1>11. Backwards(hs)
  <2> SUFFICES ASSUME NEW i \in 1 .. c, NEW j \in 1 .. c, i < j
               PROVE  StationZ[StationOf(hs[i])] > StationZ[StationOf(hs[j])]
    BY <1>10 DEF Backwards
  <2>1. f[i] < f[j] /\ f[i] \in 1 .. n /\ f[j] \in 1 .. n
    BY <1>3, <1>6
  <2> PICK p \in 1 .. n, q \in 1 .. n : p = (n - f[j]) + 1 /\ q = (n - f[i]) + 1
    BY <1>9
  <2>2. p < q
    BY <2>1
  <2>3. StationZ[b[p].station] < StationZ[b[q].station]
    BY <1>1, <2>2 DEF GoodBranch
  <2>4. StationOf(hs[i]) = b[q].station /\ StationOf(hs[j]) = b[p].station
    BY <1>9
  <2>5. StationZ[b[p].station] \in Int /\ StationZ[b[q].station] \in Int
    BY <1>1, StationAssumption DEF State
  <2> QED
    BY <2>3, <2>4, <2>5
<1>12. StationsOf(hs) = Met(b)
  <2>1. ASSUME NEW i \in 1 .. c
        PROVE  StationOf(hs[i]) \in Met(b)
    <3> PICK p \in 1 .. n : p = (n - f[i]) + 1
      BY <1>9
    <3>1. StationOf(hs[i]) = b[p].station /\ p \in DOMAIN b
      BY <1>1, <1>9
    <3>2. SelectModule(sourceLinks, b[p].station) # <<>>
      <4>1. f[i] \in T /\ f[i] \in 1 .. n
        BY <1>3, <1>6
      <4>2. back[f[i]] = b[p]
        BY <1>2, <4>1
      <4> QED
        BY <1>8, <4>1, <4>2
    <3> QED
      BY <3>1, <3>2 DEF Met
  <2>2. ASSUME NEW x \in Met(b)
        PROVE  \E i \in 1 .. c : x = StationOf(hs[i])
    <3>1. PICK p \in DOMAIN b : x = b[p].station
      BY DEF Met
    <3>2. p \in 1 .. n /\ b[p].station \in Stations
      BY <1>1, <3>1 DEF State
    <3>3. SelectModule(sourceLinks, x) # <<>>
      BY <3>1, <3>2 DEF Met
    <3> PICK q \in 1 .. n : q = (n - p) + 1
      BY <3>2
    <3>4. (n - q) + 1 = p
      BY <3>2
    <3>5. back[q] = b[p]
      BY <1>2, <3>4
    <3>6. q \in T
      BY <1>8, <3>1, <3>3, <3>5
    <3>7. PICK i \in 1 .. c : f[i] = q
      BY <1>6, <3>6
    <3>8. StationOf(hs[i]) = b[(n - q) + 1].station
      BY <1>9, <3>7
    <3> QED
      BY <3>1, <3>4, <3>8
  <2> QED
    BY <1>10, <2>1, <2>2 DEF StationsOf
<1> QED
  BY <1>9, <1>10, <1>11, <1>12 DEF GoodHits

\* Hits of different stations are as many as their stations.
LEMMA CountStations ==
  ASSUME BuildTypeOK, NEW hs \in Seq(Index), Backwards(hs),
         \A i \in DOMAIN hs : hs[i] < Len(measurements)
  PROVE  Cardinality(StationsOf(hs)) = Len(hs)
<1> PICK n \in Nat : n = Len(hs)
  OBVIOUS
<1>1. DOMAIN hs = 1 .. n
  OBVIOUS
<1>2. ASSUME NEW i \in 1 .. n PROVE StationZ[StationOf(hs[i])] \in Int
  <2>1. hs[i] \in Index /\ hs[i] < Len(measurements)
    BY <1>1
  <2>2. hs[i] + 1 \in 1 .. Len(measurements)
    BY <2>1, IndexAssumption DEF Index
  <2>3. measurements[hs[i] + 1] \in Measurement
    BY <2>2 DEF BuildTypeOK
  <2> QED
    BY <2>3, StationAssumption DEF StationOf, MeasurementOf, Measurement
<1> DEFINE f == [i \in 1 .. n |-> StationOf(hs[i])]
           S == StationsOf(hs)
<1>3. f \in [1 .. n -> S]
  BY <1>1 DEF StationsOf
<1>4. \A x \in S : \E i \in 1 .. n : f[i] = x
  BY <1>1 DEF StationsOf
<1>5. \A i, j \in 1 .. n : f[i] = f[j] => i = j
  <2> SUFFICES ASSUME NEW i \in 1 .. n, NEW j \in 1 .. n, StationOf(hs[i]) = StationOf(hs[j]), i # j
               PROVE  FALSE
    OBVIOUS
  <2>1. i < j \/ j < i
    OBVIOUS
  <2>2. \/ StationZ[StationOf(hs[i])] > StationZ[StationOf(hs[j])]
        \/ StationZ[StationOf(hs[j])] > StationZ[StationOf(hs[i])]
    BY <1>1, <2>1 DEF Backwards
  <2> QED
    BY <1>2, <2>2
<1> HIDE DEF f, S
<1>6. f \in Bijection(1 .. n, S)
  BY <1>3, <1>4, <1>5 DEF Bijection, Injection, Surjection, IsInjective
<1>7. ExistsBijection(1 .. n, S)
  BY <1>6 DEF ExistsBijection
<1>8. Cardinality(S) = n
  BY <1>7, FS_CountingElements
<1> QED
  BY <1>8 DEF S

\* The result of a fit of the hits hs.
GoodTrack(t, hs, failed) ==
    /\ t \in Track
    /\ Range(t.hits) \subseteq Range(hs)
    /\ Backwards(t.hits)
    /\ IF failed THEN t = [fitStatus |-> 1, refLoc |-> "unset", hits |-> <<>>]
       ELSE t.fitStatus = 0 /\ t.refLoc = "global"

\* Hits of different stations from the last one back: the fit has a state for
\* each, in this order.
LEMMA StatesInOrder ==
  ASSUME BuildTypeOK, NEW hs \in Seq(Index), Backwards(hs),
         \A i \in DOMAIN hs : hs[i] < Len(measurements)
  PROVE  StatesOfFit(hs) = [i \in 1 .. Len(hs) |-> Measured(StationOf(hs[i]), hs[i])]
<1> PICK n \in Nat : n = Len(hs)
  OBVIOUS
<1>1. DOMAIN hs = 1 .. n
  OBVIOUS
<1>2. ASSUME NEW i \in 1 .. n PROVE StationZ[StationOf(hs[i])] \in Int
  <2>1. hs[i] \in Index /\ hs[i] < Len(measurements)
    BY <1>1
  <2>2. hs[i] + 1 \in 1 .. Len(measurements)
    BY <2>1, IndexAssumption DEF Index
  <2>3. measurements[hs[i] + 1] \in Measurement
    BY <2>2 DEF BuildTypeOK
  <2> QED
    BY <2>3, StationAssumption DEF StationOf, MeasurementOf, Measurement
<1>3. \A i, j \in 1 .. n : i < j <=> StationZ[StationOf(hs[i])] > StationZ[StationOf(hs[j])]
  <2> SUFFICES ASSUME NEW i \in 1 .. n, NEW j \in 1 .. n
               PROVE  i < j <=> StationZ[StationOf(hs[i])] > StationZ[StationOf(hs[j])]
    OBVIOUS
  <2>1. i < j => StationZ[StationOf(hs[i])] > StationZ[StationOf(hs[j])]
    BY <1>1 DEF Backwards
  <2>2. j < i => StationZ[StationOf(hs[j])] > StationZ[StationOf(hs[i])]
    BY <1>1 DEF Backwards
  <2>3. StationZ[StationOf(hs[i])] \in Int /\ StationZ[StationOf(hs[j])] \in Int
    BY <1>2
  <2>4. i < j \/ j < i \/ i = j
    OBVIOUS
  <2> QED
    BY <2>1, <2>2, <2>3, <2>4
<1> DEFINE StationAt(i) == MeasurementOf(hs[i]).station
           first == {i \in DOMAIN hs : \A j \in 1 .. (i - 1) : StationAt(j) # StationAt(i)}
           rank == [i \in first |-> -StationZ[StationAt(i)]]
           order == Ordered(first, rank)
<1>4. StatesOfFit(hs) = [i \in DOMAIN order |-> Measured(StationAt(order[i]), hs[order[i]])]
  BY DEF StatesOfFit
<1>5. \A i \in 1 .. n : StationAt(i) = StationOf(hs[i])
  BY DEF StationOf
<1>6. first = 1 .. n
  <2> SUFFICES ASSUME NEW i \in 1 .. n, NEW j \in 1 .. (i - 1) PROVE StationAt(j) # StationAt(i)
    BY <1>1
  <2>1. j \in 1 .. n /\ j < i
    OBVIOUS
  <2>2. StationZ[StationOf(hs[j])] > StationZ[StationOf(hs[i])]
    BY <1>3, <2>1
  <2>3. StationOf(hs[j]) # StationOf(hs[i])
    BY <1>2, <2>1, <2>2
  <2> QED
    BY <1>5, <2>1, <2>3
<1>7. ASSUME NEW x \in 1 .. n
      PROVE  Cardinality({y \in first : rank[y] < rank[x]}) = x - 1
  <2> HIDE DEF first, StationAt
  <2>1. {y \in first : rank[y] < rank[x]} = {y \in 1 .. n : y < x}
    <3>1. ASSUME NEW y \in 1 .. n PROVE rank[y] < rank[x] <=> y < x
      BY <1>2, <1>3, <1>5, <1>6
    <3> HIDE DEF rank
    <3> QED
      BY <1>6, <3>1
  <2>2. {y \in 1 .. n : y < x} = 1 .. (x - 1)
    OBVIOUS
  <2>3. x - 1 \in Nat
    OBVIOUS
  <2> QED
    BY <2>1, <2>2, <2>3, CountToN
<1>8. Cardinality(first) = n
  BY <1>6, CountToN
<1>9. order = [k \in 1 .. n |-> CHOOSE x \in first :
                  Cardinality({y \in first : rank[y] < rank[x]}) = k - 1]
  <2> HIDE DEF first, StationAt, rank
  <2> QED
    BY <1>8 DEF Ordered
<1>10. ASSUME NEW k \in 1 .. n
       PROVE  order[k] = k
  <2> DEFINE Rank(x) == Cardinality({y \in first : rank[y] < rank[x]})
  <2>1. order[k] = CHOOSE x \in first : Rank(x) = k - 1
    <3> HIDE DEF first, StationAt, order, rank
    <3> QED
      BY <1>9
  <2>2. \A x \in 1 .. n : Rank(x) = x - 1
    BY <1>7
  <2> HIDE DEF Rank, order, first, StationAt, rank
  <2>3. \A x \in first : Rank(x) = k - 1 <=> x = k
    BY <1>6, <2>2
  <2>4. k \in first
    BY <1>6
  <2> QED
    BY <2>1, <2>3, <2>4
<1>11. DOMAIN order = 1 .. n
  <2> HIDE DEF first, StationAt, order, rank
  <2> QED
    BY <1>9
<1> HIDE DEF order, first, StationAt, rank
<1>12. StatesOfFit(hs) = [i \in 1 .. n |-> Measured(StationAt(order[i]), hs[order[i]])]
  BY <1>4, <1>11
<1>13. StatesOfFit(hs) = [i \in 1 .. n |-> Measured(StationOf(hs[i]), hs[i])]
  BY <1>5, <1>10, <1>12
<1> QED
  BY <1>13

\* The states after the fit have the hits of the candidate still.
LEMMA FitKeepsHits ==
  ASSUME BuildTypeOK, NEW hs \in Seq(Index), Backwards(hs),
         \A i \in DOMAIN hs : hs[i] < Len(measurements),
         NEW some, NEW flag, NEW fitted, fitted = Smoothed(StatesOfFit(hs), some, flag)
  PROVE  \E S : /\ fitted \in Seq(S) /\ Len(fitted) = Len(hs)
                /\ \A i \in DOMAIN hs : fitted[i].index = hs[i]
<1> PICK n \in Nat : n = Len(hs)
  OBVIOUS
<1> PICK states : states = StatesOfFit(hs)
  OBVIOUS
<1>1. states = [i \in 1 .. n |-> Measured(StationOf(hs[i]), hs[i])]
  BY StatesInOrder
<1> PICK change : change = [i \in DOMAIN states |->
                     (states[i].flags \union {"smoothed"}) \ (IF i \in some THEN {flag} ELSE {})]
  OBVIOUS
<1>2. DOMAIN states = 1 .. n
  BY <1>1
<1>3. fitted = [i \in 1 .. n |-> [states[i] EXCEPT !.flags = change[i]]]
  BY <1>2 DEF Smoothed
<1>4. ASSUME NEW i \in 1 .. n PROVE fitted[i].index = hs[i]
  <2>1. states[i] = Measured(StationOf(hs[i]), hs[i])
    BY <1>1
  <2>2. states[i] = [station |-> StationOf(hs[i]), index |-> hs[i],
                     flags |-> {"measurement"} \union {"calibrated", "sourceLink"}]
    BY <2>1 DEF Measured, Calibrate
  <2>3. fitted[i] = [states[i] EXCEPT !.flags = change[i]]
    BY <1>3
  <2> QED
    BY <2>2, <2>3
<1> PICK S : S = {fitted[i] : i \in 1 .. n}
  OBVIOUS
<1>5. fitted \in [1 .. n -> S]
  BY <1>3
<1>6. fitted \in Seq(S) /\ Len(fitted) = n
  BY <1>5, FunctionIsSequence
<1>7. Len(fitted) = Len(hs) /\ \A i \in DOMAIN hs : fitted[i].index = hs[i]
  BY <1>4, <1>6
<1> QED
  BY <1>6, <1>7, Zenon

\* What fromACTSFitResult makes of a fit: hits of the candidate, in its order.
LEMMA FitResult ==
  ASSUME NEW hs \in Seq(Index), Backwards(hs), NEW ok \in BOOLEAN,
         NEW S, NEW fitted \in Seq(S), Len(fitted) = Len(hs),
         \A i \in DOMAIN hs : fitted[i].index = hs[i]
  PROVE  GoodTrack(FromACTSFitResult(ok, TRUE, fitted), hs, ~ok)
<1> PICK n \in Nat : n = Len(hs)
  OBVIOUS
<1>1. DOMAIN hs = 1 .. n /\ \A i \in 1 .. n : hs[i] \in Index
  OBVIOUS
<1>3. DOMAIN fitted = 1 .. n /\ \A i \in 1 .. n : fitted[i].index = hs[i]
  OBVIOUS
<1> PICK T : T = {i \in DOMAIN fitted :
                   {"measurement", "calibrated", "smoothed"} \subseteq fitted[i].flags}
  OBVIOUS
<1>4. fitted \in Seq(S) /\ Len(fitted) = n /\ T \in SUBSET (DOMAIN fitted)
  OBVIOUS
<1> PICK kept : kept = Kept(fitted, T)
  OBVIOUS
<1> PICK c : c = Cardinality(T)
  OBVIOUS
<1>5. c \in 0 .. n /\ kept \in Seq(S) /\ Len(kept) = c
  <2>1. /\ Cardinality(T) \in 0 .. Len(fitted)
        /\ Kept(fitted, T) \in Seq(S)
        /\ Len(Kept(fitted, T)) = Cardinality(T)
    BY ONLY <1>4, KeptInOrder
  <2> QED
    BY <1>4, <2>1
<1>6. PICK f : Lists(f, T) /\ \A i \in 1 .. c : kept[i] = fitted[f[i]]
  <2>1. \E f : Lists(f, T) /\ \A i \in 1 .. Cardinality(T) : Kept(fitted, T)[i] = fitted[f[i]]
    BY ONLY <1>4, KeptInOrder
  <2> QED
    BY <2>1
<1>7. \A i \in 1 .. c : f[i] \in 1 .. n
  <2>1. \A i \in 1 .. c : f[i] \in T
    BY <1>6 DEF Lists
  <2> QED
    BY <1>3, <1>4, <2>1
<1> PICK r : r = FittedHits(fitted)
  OBVIOUS
<1>8. r = [i \in 1 .. c |-> hs[f[i]]]
  <2>1. r = [i \in DOMAIN kept |-> kept[i].index]
    BY DEF FittedHits
  <2>2. DOMAIN kept = 1 .. c
    BY <1>5
  <2>3. \A i \in 1 .. c : kept[i].index = hs[f[i]]
    BY <1>3, <1>6, <1>7
  <2> QED
    BY <2>1, <2>2, <2>3
<1>9. r \in Seq(Index) /\ DOMAIN r = 1 .. c
  <2>0. \A i \in 1 .. c : hs[f[i]] \in Index
    BY <1>1, <1>7
  <2>1. r \in [1 .. c -> Index] /\ c \in Nat
    BY <1>5, <1>8, <2>0
  <2> QED
    BY <2>1, FunctionIsSequence
<1>10. Range(r) \subseteq Range(hs)
  BY <1>1, <1>7, <1>8, <1>9 DEF Range
<1>11. Backwards(r)
  <2> SUFFICES ASSUME NEW i \in 1 .. c, NEW j \in 1 .. c, i < j
               PROVE  StationZ[StationOf(r[i])] > StationZ[StationOf(r[j])]
    BY <1>9 DEF Backwards
  <2>1. f[i] < f[j]
    BY <1>6 DEF Lists
  <2>2. StationZ[StationOf(hs[f[i]])] > StationZ[StationOf(hs[f[j]])]
    BY <1>1, <1>7, <2>1 DEF Backwards
  <2> QED
    BY <1>8, <2>2
<1> PICK t : t = FromACTSFitResult(ok, TRUE, fitted)
  OBVIOUS
<1>12. t = IF ~ok THEN [fitStatus |-> 1, refLoc |-> "unset", hits |-> <<>>]
           ELSE [fitStatus |-> 0, refLoc |-> "global", hits |-> r]
  BY DEF FromACTSFitResult
<1>13. CASE ok
  <2>1. t = [fitStatus |-> 0, refLoc |-> "global", hits |-> r]
    BY <1>12, <1>13
  <2>2. t.fitStatus = 0 /\ t.refLoc = "global" /\ t.hits = r
    BY ONLY <2>1
  <2>3. t \in Track
    BY ONLY <1>9, <2>1 DEF Track
  <2> QED
    BY <1>10, <1>11, <1>13, <2>2, <2>3 DEF GoodTrack
<1>14. CASE ~ok
  <2>1. t = [fitStatus |-> 1, refLoc |-> "unset", hits |-> <<>>]
    BY <1>12, <1>14
  <2>2. t \in Track /\ t.hits = <<>>
    BY ONLY <2>1 DEF Track
  <2>3. Range(<<>>) = {} /\ Backwards(<<>>)
    BY ONLY EmptyRange DEF Backwards
  <2>4. Range(t.hits) \subseteq Range(hs) /\ Backwards(t.hits)
    BY <2>2, <2>3
  <2> QED
    BY <1>14, <2>1, <2>2, <2>4 DEF GoodTrack
<1> QED
  BY <1>13, <1>14

\* A seed that was emitted passed the cut: it is within the angle if it has a
\* direction at all.
LEMMA SeedAngle ==
  ASSUME SeedInv, NEW k \in DOMAIN seeds
  PROVE  LET m0 == MeasurementOf(seeds[k][1])
             m1 == MeasurementOf(seeds[k][2])
         IN  HasDirection(m0, m1) <=> WithinAngle(m0, m1)
<1>1. stage # "prepare"
  BY DEF SeedInv, IdleInv
<1>2. PICK at \in [DOMAIN seeds -> Below] :
        \A i \in DOMAIN seeds : seeds[i] = PairAt(hits1, hits2, at[i])
  BY <1>1 DEF SeedInv, SeedsBelowCursor
<1>3. at[k] \in ValidFrom(hits1, hits2, 0)
  BY <1>2 DEF Below
<1>4. Valid(hits1, hits2, at[k])
  BY <1>3 DEF ValidFrom
<1>5. ForwardGoing(measurements[seeds[k][1] + 1], measurements[seeds[k][2] + 1])
  BY <1>2, <1>4 DEF Valid, Compatible
<1> QED
  BY <1>5 DEF ForwardGoing, WithinAngle, HasDirection, MeasurementOf, Less

-------------------------------------------------------------------------------
(* The invariant of a fit. *)

\* No candidate has been fitted yet.
Unfitted(f) == f.next = 1 /\ f.tracks = <<>> /\ f.failed = {}

\* The one candidate has been passed over or fitted.
Fitted(f, hs) ==
    /\ f.next = 2
    /\ \/ Len(hs) < MinHits /\ f.tracks = <<>> /\ f.failed = {}
       \/ /\ Len(hs) >= MinHits
          /\ Len(f.tracks) = 1
          /\ f.failed \in {{}, {1}}
          /\ GoodTrack(f.tracks[1], hs, 1 \in f.failed)

\* After track finding: no branch, or one, which is a candidate if it has hits.
Results(f) ==
    \/ f.found = <<>> /\ f.candidates = <<>> /\ Unfitted(f)
    \/ /\ Len(f.found) = 1
       /\ GoodBranch(f.found[1])
       /\ \/ Met(f.found[1]) = {} /\ f.candidates = <<>> /\ Unfitted(f)
          \/ /\ Met(f.found[1]) # {}
             /\ Len(f.candidates) = 1
             /\ GoodHits(f.candidates[1], f.found[1])
             /\ Unfitted(f) \/ Fitted(f, f.candidates[1])

\* What a fit has at each stage of fit_seed.
FitRight(f) ==
    /\ f \in Fit
    /\ f.status \in {"queued", "rejected"} => f.active = <<>> /\ f.found = <<>>
    /\ f.status = "finding" =>
          \/ f.found = <<>> /\ Len(f.active) = 1 /\ GoodBranch(f.active[1])
          \/ f.active = <<>> /\ Len(f.found) = 1 /\ GoodBranch(f.found[1])
    /\ f.status \in {"queued", "rejected", "finding"} => f.candidates = <<>> /\ Unfitted(f)
    /\ f.status \in {"refitting", "done"} => f.active = <<>> /\ Results(f)

\* Every fit of the spill is right.
FitsRight == \A k \in DOMAIN fits : FitRight(fits[k])

\* What is right of a fit depends on the measurements and links only.
LEMMA RightStaysRight ==
  ASSUME UNCHANGED <<measurements, sourceLinks>>, NEW f, FitRight(f)
  PROVE  FitRight(f)'
<1>1. \A i : StationOf(i)' = StationOf(i)
  BY DEF StationOf, MeasurementOf
<1>2. \A t : GoodState(t)' <=> GoodState(t)
  BY <1>1 DEF GoodState
<1>3. \A b : GoodBranch(b)' <=> GoodBranch(b)
  BY <1>2 DEF GoodBranch
<1>4. \A hs : Backwards(hs)' <=> Backwards(hs)
  BY <1>1 DEF Backwards
<1>5. \A hs : StationsOf(hs)' = StationsOf(hs)
  BY <1>1 DEF StationsOf
<1>6. \A b : Met(b)' = Met(b)
  BY DEF Met
<1>7. \A hs, b : GoodHits(hs, b)' <=> GoodHits(hs, b)
  BY <1>4, <1>5, <1>6 DEF GoodHits
<1>8. \A t, hs, x : GoodTrack(t, hs, x)' <=> GoodTrack(t, hs, x)
  BY <1>4 DEF GoodTrack
<1>9. \A hs : Fitted(f, hs)' <=> Fitted(f, hs)
  BY <1>8 DEF Fitted
<1>10. Results(f)' <=> Results(f)
  BY <1>3, <1>6, <1>7, <1>9 DEF Results, Unfitted
<1> QED
  BY <1>3, <1>10 DEF FitRight, Unfitted


\* The inductive invariant of the plugin, from hits to tracks.
TrackingInv == SpillInv /\ fits \in Seq(Fit) /\ Len(fits) = Len(seeds) /\ FitsRight

-------------------------------------------------------------------------------
(* The steps of a fit. *)

\* A sequence of one element.
LEMMA OneElement ==
  ASSUME NEW S, NEW s \in Seq(S), Len(s) = 1
  PROVE  s = << s[1] >> /\ s[1] \in S /\ Last(s) = s[1] /\ Front(s) = <<>> /\ s # <<>>
<1>1. s = << s[1] >> /\ s[1] \in S /\ s # <<>>
  <2>1. s[1] \in S /\ s # <<>>
    OBVIOUS
  <2> PICK e \in S : e = s[1]
    BY <2>1
  <2>2. << e >> \in Seq(S) /\ Len(<< e >>) = 1 /\ << e >>[1] = e
    OBVIOUS
  <2>3. s = << e >>
    BY <2>2, SeqEqual
  <2> QED
    BY <2>1, <2>3
<1>2. Last(s) = s[1]
  BY DEF Last
<1>3. Front(s) = <<>>
  <2>1. Front(s) = SubSeq(s, 1, 0)
    BY DEF Front
  <2>2. SubSeq(s, 1, 0) \in Seq(S) /\ Len(SubSeq(s, 1, 0)) = 0
    OBVIOUS
  <2> QED
    BY <2>1, <2>2, EmptySeq
<1> QED
  BY <1>1, <1>2, <1>3

\* The hits of a seed have measurements.
LEMMA SeedMeasured ==
  ASSUME SpillInv, NEW k \in DOMAIN seeds
  PROVE  MeasurementOf(seeds[k][1]) \in Measurement /\ MeasurementOf(seeds[k][2]) \in Measurement
<1>0. SeedInv /\ TypeOK /\ BuildTypeOK /\ UnfoldInv
  BY DEF SpillInv, SeedInv, TypeOK
<1>1. stage # "prepare" /\ present
  <2>1. seeds # <<>>
    BY <1>0 DEF TypeOK
  <2> QED
    BY <1>0, <2>1 DEF SeedInv, IdleInv, UnfoldInv, TypeOK
<1>2. PICK at \in [DOMAIN seeds -> Below] :
        \A i \in DOMAIN seeds : seeds[i] = PairAt(hits1, hits2, at[i])
  BY <1>0, <1>1 DEF SeedInv, SeedsBelowCursor
<1>3. at[k] \in ValidFrom(hits1, hits2, 0)
  BY <1>2 DEF Below
<1> PICK a \in Nat, b \in Nat : a = Len(hits1) /\ b = Len(hits2)
  BY <1>0 DEF TypeOK
<1>4. at[k] \in 0 .. (a * b - 1)
  BY <1>3 DEF ValidFrom
<1>5. at[k] \div b \in 0 .. (a - 1) /\ at[k] % b \in 0 .. (b - 1)
  BY <1>4, RowInRange
<1> PICK r \in Int, c \in Int : r = (at[k] \div b) + 1 /\ c = (at[k] % b) + 1
  BY <1>5
<1>6. r \in DOMAIN hits1 /\ c \in DOMAIN hits2
  <2>1. r \in 1 .. a /\ c \in 1 .. b
    BY <1>5
  <2> QED
    BY <1>0, <2>1 DEF TypeOK
<1>7. seeds[k][1] = hits1[r] /\ seeds[k][2] = hits2[c]
  BY <1>2 DEF PairAt
<1>8. seeds[k][1] \in AtStation(1) /\ seeds[k][2] \in AtStation(2)
  <2>1. hits1[r] \in Range(hits1) /\ hits2[c] \in Range(hits2)
    BY <1>6 DEF Range
  <2> QED
    BY <1>0, <1>1, <1>7, <2>1 DEF UnfoldInv
<1> PICK n \in Nat : n = Len(measurements)
  BY <1>0 DEF BuildTypeOK
<1>9. seeds[k][1] \in 0 .. (n - 1) /\ seeds[k][2] \in 0 .. (n - 1)
  BY <1>8 DEF AtStation
<1>10. seeds[k][1] + 1 \in 1 .. n /\ seeds[k][2] + 1 \in 1 .. n
  BY <1>9
<1>11. \A i \in 1 .. n : measurements[i] \in Measurement
  BY <1>0 DEF BuildTypeOK
<1> QED
  BY <1>10, <1>11 DEF MeasurementOf

\* A seed without a direction has no fit.
LEMMA RejectRight ==
  ASSUME TrackingInv, NEW k \in DOMAIN fits,
         fits[k].status = "queued", fits' = [fits EXCEPT ![k].status = "rejected"]
  PROVE  \E g \in Fit : FitRight(g) /\ fits' = [fits EXCEPT ![k] = g]
<1> PICK f \in Fit : f = fits[k]
  BY DEF TrackingInv
<1>1. FitRight(f) /\ f.status = "queued"
  BY DEF TrackingInv, FitsRight
<1> PICK g : g = [f EXCEPT !.status = "rejected"]
  OBVIOUS
<1>2. /\ g \in Fit /\ g.status = "rejected" /\ g.active = f.active /\ g.found = f.found
      /\ g.candidates = f.candidates /\ g.next = f.next /\ g.tracks = f.tracks
      /\ g.failed = f.failed
  BY DEF Fit
<1>3. FitRight(g)
  BY <1>1, <1>2 DEF FitRight, Unfitted
<1> QED
  BY <1>2, <1>3

\* A fit starts with one branch, at the surface of its seed.
LEMMA StartRight ==
  ASSUME TrackingInv, NEW k \in DOMAIN fits, StartFit(k),
         fits' # [fits EXCEPT ![k].status = "rejected"]
  PROVE  \E g \in Fit : FitRight(g) /\ fits' = [fits EXCEPT ![k] = g]
<1>0. /\ SpillInv /\ k \in DOMAIN seeds /\ fits[k] \in Fit /\ FitRight(fits[k])
  BY DEF TrackingInv, FitsRight, SpillInv, SeedInv, TypeOK
<1> PICK m0 \in Measurement, m1 \in Measurement :
       m0 = MeasurementOf(seeds[k][1]) /\ m1 = MeasurementOf(seeds[k][2])
  BY <1>0, SeedMeasured
<1> PICK s \in Stations, p \in Coordinate : s = m0.station /\ p = m0.x
  BY DEF Measurement
<1>3. /\ fits[k].status = "queued"
      /\ fits' = [fits EXCEPT ![k].status = "finding", ![k].active = Extend(<<>>, s, p)]
  <2> PICK seed : seed = SeedFromHitPair(m0, m1)
    OBVIOUS
  <2>1. /\ fits[k].status = "queued"
        /\ \E start \in seed :
              fits' = [fits EXCEPT ![k].status = "finding",
                                   ![k].active = Extend(<<>>, start.surface, start.loc)]
    BY DEF StartFit
  <2>2. PICK start \in seed :
           fits' = [fits EXCEPT ![k].status = "finding",
                                ![k].active = Extend(<<>>, start.surface, start.loc)]
    BY <2>1
  <2>3. start = [surface |-> s, loc |-> p]
    BY <2>2 DEF SeedFromHitPair
  <2>4. start.surface = s /\ start.loc = p
    BY <2>3
  <2> QED
    BY <2>1, <2>2, <2>4
<1> PICK t \in State : GoodState(t) /\ t.station = s /\ Extend(<<>>, s, p) = << Append(<<>>, t) >>
  BY <1>0, OneState
<1> PICK b : b = Append(<<>>, t)
  OBVIOUS
<1>4. GoodBranch(b) /\ b \in Branch
  <2>1. <<>> \in Branch
    BY DEF Branch
  <2>2. GoodBranch(b)
    <3> PICK e \in Branch : e = <<>>
      BY <2>1
    <3>0. e \in Branch /\ t \in State /\ GoodState(t) /\ e = <<>>
      OBVIOUS
    <3>1. GoodBranch(Append(e, t))
      BY <3>0, BranchGrows
    <3> QED
      BY <3>1
  <2> QED
    BY <2>2 DEF GoodBranch
<1> PICK f : f = fits[k]
  OBVIOUS
<1> PICK g : g = [f EXCEPT !.status = "finding", !.active = << b >>]
  OBVIOUS
<1>5. fits' = [fits EXCEPT ![k] = g]
  BY <1>3
<1>6. /\ f \in Fit /\ f.active = <<>> /\ f.found = <<>> /\ f.candidates = <<>> /\ Unfitted(f)
  BY <1>0, <1>3 DEF FitRight
<1>7. g \in Fit
  <2>1. << b >> \in Seq(Branch)
    BY <1>4
  <2> QED
    BY <1>6, <2>1 DEF Fit
<1>8. /\ g.status = "finding" /\ g.active = << b >> /\ g.found = <<>> /\ g.candidates = <<>>
      /\ Unfitted(g)
  BY <1>6 DEF Fit, Unfitted
<1>9. FitRight(g)
  BY <1>4, <1>7, <1>8 DEF FitRight
<1> QED
  BY <1>5, <1>7, <1>9

\* The one branch of a fit that is finding its track.
LEMMA ActiveBranch ==
  ASSUME NEW f, FitRight(f), f.status = "finding", f.active # <<>>
  PROVE  \E b \in Branch :
            /\ GoodBranch(b) /\ f.active = << b >> /\ f.found = <<>>
            /\ Last(f.active) = b /\ Front(f.active) = <<>>
<1>1. f.active \in Seq(Branch) /\ f.found = <<>> /\ Len(f.active) = 1 /\ GoodBranch(f.active[1])
  BY DEF FitRight, Fit
<1> PICK a : a = f.active
  OBVIOUS
<1>2. a = << a[1] >> /\ a[1] \in Branch /\ Last(a) = a[1] /\ Front(a) = <<>>
  BY <1>1, OneElement
<1> QED
  BY <1>1, <1>2

\* At the next station the branch takes one state and goes on.
LEMMA CrossRight ==
  ASSUME TrackingInv, NEW k \in DOMAIN fits, CrossStation(k)
  PROVE  \E g \in Fit : FitRight(g) /\ fits' = [fits EXCEPT ![k] = g]
<1> PICK f : f = fits[k]
  OBVIOUS
<1>1. SpillInv /\ f \in Fit /\ FitRight(f) /\ f.status = "finding" /\ f.active # <<>>
  BY DEF TrackingInv, FitsRight, CrossStation
<1>2. PICK b \in Branch : /\ GoodBranch(b) /\ f.active = << b >> /\ f.found = <<>>
                          /\ Last(f.active) = b /\ Front(f.active) = <<>>
  BY <1>1, ActiveBranch
<1>3. PICK s \in Stations, p \in Predictions :
         /\ StationZ[s] > StationZ[Last(b).station]
         /\ fits' = [fits EXCEPT ![k].active = Front(@) \o Extend(b, s, p)]
  BY <1>2 DEF CrossStation
<1>4. p \in Coordinate
  BY HitAssumption
<1>5. PICK t \in State : GoodState(t) /\ t.station = s /\ Extend(b, s, p) = << Append(b, t) >>
  BY <1>1, <1>4, OneState
<1> PICK c : c = Append(b, t)
  OBVIOUS
<1>6. GoodBranch(c)
  BY <1>2, <1>3, <1>5, BranchGrows
<1>7. Front(f.active) \o Extend(b, s, p) = << c >>
  <2>1. << c >> \in Seq({c})
    OBVIOUS
  <2>2. <<>> \o << c >> = << c >>
    BY <2>1, ConcatEmptySeq
  <2> QED
    BY <1>2, <1>5, <2>2
<1> PICK g : g = [f EXCEPT !.active = << c >>]
  OBVIOUS
<1>8. fits' = [fits EXCEPT ![k] = g]
  BY <1>3, <1>7
<1>9. f.candidates = <<>> /\ Unfitted(f)
  BY <1>1 DEF FitRight
<1>10. g \in Fit
  <2>1. << c >> \in Seq(Branch)
    BY <1>6 DEF GoodBranch
  <2> QED
    BY <1>1, <2>1 DEF Fit
<1>11. /\ g.status = "finding" /\ g.active = << c >> /\ g.found = <<>> /\ g.candidates = <<>>
       /\ Unfitted(g)
  BY <1>1, <1>2, <1>9 DEF Fit, Unfitted
<1>12. FitRight(g)
  BY <1>6, <1>10, <1>11 DEF FitRight
<1> QED
  BY <1>8, <1>10, <1>12

\* A branch that ends becomes the one branch found.
LEMMA StopRight ==
  ASSUME TrackingInv, NEW k \in DOMAIN fits, StopBranch(k)
  PROVE  \E g \in Fit : FitRight(g) /\ fits' = [fits EXCEPT ![k] = g]
<1> PICK f : f = fits[k]
  OBVIOUS
<1>1. SpillInv /\ f \in Fit /\ FitRight(f) /\ f.status = "finding" /\ f.active # <<>>
  BY DEF TrackingInv, FitsRight, StopBranch
<1>2. PICK b \in Branch : /\ GoodBranch(b) /\ f.active = << b >> /\ f.found = <<>>
                          /\ Last(f.active) = b /\ Front(f.active) = <<>>
  BY <1>1, ActiveBranch
<1>3. Append(<<>>, b) = << b >>
  OBVIOUS
<1> PICK g : g = [f EXCEPT !.found = << b >>, !.active = <<>>]
  OBVIOUS
<1>4. fits' = [fits EXCEPT ![k] = g]
  BY <1>2, <1>3 DEF StopBranch
<1>5. f.candidates = <<>> /\ Unfitted(f)
  BY <1>1 DEF FitRight
<1>6. g \in Fit
  <2>1. << b >> \in Seq(Branch) /\ <<>> \in Seq(Branch)
    OBVIOUS
  <2> QED
    BY <1>1, <2>1 DEF Fit
<1>7. /\ g.status = "finding" /\ g.active = <<>> /\ g.found = << b >> /\ g.candidates = <<>>
      /\ Unfitted(g)
  BY <1>1, <1>5 DEF Fit, Unfitted
<1>8. FitRight(g)
  BY <1>2, <1>6, <1>7 DEF FitRight
<1> QED
  BY <1>4, <1>6, <1>8

\* A filter that fails leaves neither branches nor candidates.
LEMMA FailRight ==
  ASSUME TrackingInv, NEW k \in DOMAIN fits, FindingFails(k)
  PROVE  \E g \in Fit : FitRight(g) /\ fits' = [fits EXCEPT ![k] = g]
<1> PICK f : f = fits[k]
  OBVIOUS
<1>1. f \in Fit /\ FitRight(f) /\ f.status = "finding"
  BY DEF TrackingInv, FitsRight, FindingFails
<1> PICK g : g = [f EXCEPT !.status = "refitting", !.active = <<>>, !.found = <<>>]
  OBVIOUS
<1>2. fits' = [fits EXCEPT ![k] = g]
  BY DEF FindingFails
<1>3. f.candidates = <<>> /\ Unfitted(f)
  BY <1>1 DEF FitRight
<1>4. g \in Fit
  <2>1. <<>> \in Seq(Branch)
    OBVIOUS
  <2> QED
    BY <1>1, <2>1 DEF Fit
<1>5. /\ g.status = "refitting" /\ g.active = <<>> /\ g.found = <<>> /\ g.candidates = <<>>
      /\ Unfitted(g)
  BY <1>1, <1>3 DEF Fit, Unfitted
<1>6. FitRight(g)
  BY <1>4, <1>5 DEF FitRight, Results
<1> QED
  BY <1>2, <1>4, <1>6

\* The branch found becomes the one candidate, unless it met no hit.
LEMMA EndsRight ==
  ASSUME TrackingInv, NEW k \in DOMAIN fits, FindingEnds(k)
  PROVE  \E g \in Fit : FitRight(g) /\ fits' = [fits EXCEPT ![k] = g]
<1> PICK f : f = fits[k]
  OBVIOUS
<1>1. f \in Fit /\ FitRight(f) /\ f.status = "finding" /\ f.active = <<>>
  <2>1. fits[k] \in Fit /\ FitRight(fits[k])
    BY DEF TrackingInv, FitsRight
  <2>2. fits[k].status = "finding" /\ fits[k].active = <<>>
    BY DEF FindingEnds
  <2> QED
    BY <2>1, <2>2
<1>2. Len(f.found) = 1 /\ GoodBranch(f.found[1]) /\ f.found \in Seq(Branch)
  <2>1. Len(<<>>) = 0
    OBVIOUS
  <2> QED
    BY <1>1, <2>1 DEF FitRight, Fit
<1> PICK b : b = f.found[1]
  OBVIOUS
<1> PICK hs : hs = CandidateHits(b)
  OBVIOUS
<1>3. GoodHits(hs, b)
  BY <1>2, BranchHits
<1> PICK all : all = [i \in DOMAIN f.found |-> CandidateHits(f.found[i])]
  OBVIOUS
<1>4. all = << hs >>
  <2>1. DOMAIN f.found = {1}
    BY <1>2
  <2>2. all = [i \in {1} |-> hs]
    BY <2>1
  <2> QED
    BY <2>2
<1> PICK candidates : candidates = Kept(all, {i \in DOMAIN all : all[i] # <<>>})
  OBVIOUS
<1>5. candidates = IF hs = <<>> THEN <<>> ELSE << hs >>
  <2>1. DOMAIN all = {1} /\ all[1] = hs
    BY <1>4
  <2>2. {i \in DOMAIN all : all[i] # <<>>} = IF hs = <<>> THEN {} ELSE {1}
    BY <2>1
  <2>3. Kept(all, {}) = <<>> /\ Kept(<< hs >>, {1}) = << hs >>
    BY KeptOfOne
  <2> QED
    BY <1>4, <2>2, <2>3
<1>6. hs = <<>> <=> Met(b) = {}
  <2>1. StationsOf(hs) = Met(b) /\ hs \in Seq(Index)
    BY <1>3 DEF GoodHits
  <2>2. hs = <<>> <=> StationsOf(hs) = {}
    <3>1. CASE hs = <<>>
      BY <3>1 DEF StationsOf
    <3>2. CASE hs # <<>>
      <4>1. 1 \in DOMAIN hs
        BY <2>1, <3>2
      <4> QED
        BY <3>2, <4>1 DEF StationsOf
    <3> QED
      BY <3>1, <3>2
  <2> QED
    BY <2>1, <2>2
<1> PICK g : g = [f EXCEPT !.status = "refitting", !.candidates = candidates]
  OBVIOUS
<1>7. fits' = [fits EXCEPT ![k] = g]
  BY DEF FindingEnds
<1>8. Unfitted(f)
  BY <1>1 DEF FitRight
<1>9. g \in Fit
  <2>1. candidates \in Seq(Seq(Index))
    <3>1. hs \in Seq(Index)
      BY <1>3 DEF GoodHits
    <3>2. << hs >> \in Seq(Seq(Index)) /\ <<>> \in Seq(Seq(Index))
      BY <3>1
    <3> QED
      BY <1>5, <3>2
  <2> QED
    BY <1>1, <2>1 DEF Fit
<1>10. /\ g.status = "refitting" /\ g.active = <<>>
       /\ g.found = f.found /\ g.candidates = candidates
       /\ Unfitted(g)
  BY <1>1, <1>8 DEF Fit, Unfitted
<1>11. Results(g)
  <2>1. CASE hs = <<>>
    BY <1>2, <1>5, <1>6, <1>10, <2>1 DEF Results
  <2>2. CASE hs # <<>>
    <3>1. candidates = << hs >>
      BY <1>5, <2>2
    <3>2. Len(candidates) = 1 /\ candidates[1] = hs
      BY <3>1
    <3> QED
      BY <1>2, <1>3, <1>6, <1>10, <2>2, <3>2 DEF Results
  <2> QED
    BY <2>1, <2>2
<1>12. FitRight(g)
  BY <1>9, <1>10, <1>11 DEF FitRight
<1> QED
  BY <1>7, <1>9, <1>12

\* A fit that is at a candidate is at its only one.
LEMMA AtCandidate ==
  ASSUME NEW f, FitRight(f), f.status = "refitting", f.next <= Len(f.candidates)
  PROVE  /\ f.active = <<>>
         /\ Len(f.found) = 1
         /\ GoodBranch(f.found[1])
         /\ Met(f.found[1]) # {}
         /\ Len(f.candidates) = 1
         /\ GoodHits(f.candidates[1], f.found[1])
         /\ Unfitted(f)
<1>1. f.active = <<>> /\ Results(f) /\ f.next \in Nat
  BY DEF FitRight, Fit
<1>2. Len(<<>>) = 0
  OBVIOUS
<1>3. ASSUME f.candidates = <<>> /\ Unfitted(f) PROVE FALSE
  <2>1. Len(f.candidates) = 0 /\ f.next = 1
    BY <1>2, <1>3 DEF Unfitted
  <2> QED
    BY <2>1
<1>4. ASSUME Len(f.candidates) = 1 /\ Fitted(f, f.candidates[1]) PROVE FALSE
  <2>1. f.next = 2
    BY <1>4 DEF Fitted
  <2> QED
    BY <1>4, <2>1
<1> QED
  BY <1>1, <1>3, <1>4 DEF Results

\* A candidate with too few hits is passed over and leaves no track.
LEMMA SkipRight ==
  ASSUME TrackingInv, NEW k \in DOMAIN fits, SkipCandidate(k)
  PROVE  \E g \in Fit : FitRight(g) /\ fits' = [fits EXCEPT ![k] = g]
<1> PICK f : f = fits[k]
  OBVIOUS
<1>1. f \in Fit /\ FitRight(f) /\ f.status = "refitting" /\ f.next <= Len(f.candidates)
  BY DEF TrackingInv, FitsRight, SkipCandidate, InLoop
<1>2. /\ f.active = <<>>
      /\ Len(f.found) = 1
      /\ GoodBranch(f.found[1])
      /\ Met(f.found[1]) # {}
      /\ Len(f.candidates) = 1
      /\ GoodHits(f.candidates[1], f.found[1])
      /\ Unfitted(f)
  BY <1>1, AtCandidate
<1>3. f.next = 1 /\ f.tracks = <<>> /\ f.failed = {}
  BY <1>2 DEF Unfitted
<1>4. Len(f.candidates[1]) < MinHits
  BY <1>3 DEF SkipCandidate, Candidate
<1> PICK g : g = [f EXCEPT !.next = 2]
  OBVIOUS
<1>5. fits' = [fits EXCEPT ![k] = g]
  BY <1>3 DEF SkipCandidate
<1>6. g \in Fit
  BY <1>1 DEF Fit
<1>7. /\ g.status = "refitting" /\ g.active = <<>> /\ g.found = f.found
      /\ g.candidates = f.candidates /\ g.next = 2 /\ g.tracks = <<>> /\ g.failed = {}
  BY <1>1, <1>2, <1>3 DEF Fit
<1>8. Fitted(g, g.candidates[1])
  BY <1>4, <1>7 DEF Fitted
<1>9. Results(g)
  BY <1>2, <1>7, <1>8 DEF Results
<1>10. FitRight(g)
  BY <1>6, <1>7, <1>9 DEF FitRight
<1> QED
  BY <1>5, <1>6, <1>10

\* A candidate that is fitted leaves one track, failed or of its own hits.
LEMMA RefitRight ==
  ASSUME TrackingInv, NEW k \in DOMAIN fits, Refit(k)
  PROVE  \E g \in Fit : FitRight(g) /\ fits' = [fits EXCEPT ![k] = g]
<1> PICK f : f = fits[k]
  OBVIOUS
<1>1. f \in Fit /\ FitRight(f) /\ f.status = "refitting" /\ f.next <= Len(f.candidates)
  <2>1. fits[k] \in Fit /\ FitRight(fits[k])
    BY DEF TrackingInv, FitsRight
  <2>2. InLoop(k)
    BY DEF Refit
  <2> QED
    BY <2>1, <2>2 DEF InLoop
<1>2. /\ f.active = <<>>
      /\ Len(f.found) = 1
      /\ GoodBranch(f.found[1])
      /\ Met(f.found[1]) # {}
      /\ Len(f.candidates) = 1
      /\ GoodHits(f.candidates[1], f.found[1])
      /\ Unfitted(f)
  BY <1>1, AtCandidate
<1>3. f.next = 1 /\ f.tracks = <<>> /\ f.failed = {}
  BY <1>2 DEF Unfitted
<1> PICK hs : hs = f.candidates[1]
  OBVIOUS
<1>4. Candidate(k) = hs
  BY <1>3 DEF Candidate
<1>5. /\ BuildTypeOK /\ hs \in Seq(Index) /\ Backwards(hs) /\ Len(hs) >= MinHits
      /\ \A i \in DOMAIN hs : hs[i] < Len(measurements)
  <2>1. BuildTypeOK
    BY DEF TrackingInv, SpillInv, SeedInv, TypeOK
  <2>2. Len(Candidate(k)) >= MinHits
    BY DEF Refit
  <2> QED
    BY <1>2, <1>4, <2>1, <2>2 DEF GoodHits
<1>6. PICK ok \in BOOLEAN, some \in SUBSET DOMAIN StatesOfFit(Candidate(k)),
           flag \in {"measurement", "smoothed"} :
        fits' = [fits EXCEPT
            ![k].next = @ + 1,
            ![k].tracks = Append(@, FromACTSFitResult(ok, TRUE,
                                      Smoothed(StatesOfFit(Candidate(k)), some, flag))),
            ![k].failed = IF ok THEN @ ELSE @ \union {Len(fits[k].tracks) + 1}]
  BY Zenon DEF Refit
<1> PICK after : after = Smoothed(StatesOfFit(Candidate(k)), some, flag)
  OBVIOUS
<1>7. \E S : after \in Seq(S) /\ Len(after) = Len(hs) /\ \A i \in DOMAIN hs : after[i].index = hs[i]
  <2>1. after = Smoothed(StatesOfFit(hs), some, flag)
    BY <1>4
  <2> QED
    BY <1>5, <2>1, FitKeepsHits
<1> PICK t : t = FromACTSFitResult(ok, TRUE, after)
  OBVIOUS
<1>8. GoodTrack(t, hs, ~ok)
  BY <1>5, <1>7, FitResult
<1> PICK failed : failed = IF ok THEN {} ELSE {1}
  OBVIOUS
<1> PICK g : g = [f EXCEPT !.next = 2, !.tracks = << t >>, !.failed = failed]
  OBVIOUS
<1>9. fits' = [fits EXCEPT ![k] = g]
  <2>1. Len(<<>>) = 0 /\ Append(<<>>, t) = << t >>
    OBVIOUS
  <2>2. f.next + 1 = 2 /\ Append(f.tracks, t) = << t >> /\ Len(f.tracks) + 1 = 1
    BY <1>3, <2>1
  <2>3. (IF ok THEN f.failed ELSE f.failed \union {Len(f.tracks) + 1}) = failed
    BY <1>3, <2>2
  <2>4. fits' = [fits EXCEPT ![k].next = 2, ![k].tracks = << t >>, ![k].failed = failed]
    BY <1>6, <2>2, <2>3
  <2> QED
    BY <2>4
<1>10. g \in Fit
  <2>1. t \in Track
    BY <1>8 DEF GoodTrack
  <2>2. << t >> \in Seq(Track) /\ 2 \in Nat
    BY ONLY <2>1
  <2>3. failed = {} \/ failed = {1}
    OBVIOUS
  <2>4. failed \in SUBSET (Nat \ {0})
    BY <2>3
  <2> QED
    BY <1>1, <2>2, <2>4 DEF Fit
<1>11. /\ g.status = "refitting" /\ g.active = <<>> /\ g.found = f.found
       /\ g.candidates = f.candidates /\ g.next = 2 /\ g.tracks = << t >> /\ g.failed = failed
  BY <1>1, <1>2, <1>3 DEF Fit
<1>12. Fitted(g, g.candidates[1])
  <2>1. Len(g.tracks) = 1 /\ g.tracks[1] = t
    BY <1>11
  <2>2. failed \in {{}, {1}} /\ (1 \in failed <=> ~ok)
    OBVIOUS
  <2>3. GoodTrack(t, hs, 1 \in failed)
    <3>1. CASE ok
      <4>1. (1 \in failed) = FALSE /\ (~ok) = FALSE
        BY <2>2, <3>1
      <4> QED
        BY <1>8, <2>2, <3>1 DEF GoodTrack
    <3>2. CASE ~ok
      BY <1>8, <2>2, <3>2 DEF GoodTrack
    <3> QED
      BY <3>1, <3>2
  <2> QED
    BY <1>5, <1>11, <2>1, <2>2, <2>3 DEF Fitted
<1>13. Results(g)
  BY <1>2, <1>11, <1>12 DEF Results
<1>14. FitRight(g)
  BY <1>10, <1>11, <1>13 DEF FitRight
<1> QED
  BY <1>9, <1>10, <1>14

\* A fit ends behind its last candidate.
LEMMA EndRight ==
  ASSUME TrackingInv, NEW k \in DOMAIN fits, EndFit(k)
  PROVE  \E g \in Fit : FitRight(g) /\ fits' = [fits EXCEPT ![k] = g]
<1> PICK f : f = fits[k]
  OBVIOUS
<1>1. f \in Fit /\ FitRight(f) /\ f.status = "refitting"
  BY DEF TrackingInv, FitsRight, EndFit
<1> PICK g : g = [f EXCEPT !.status = "done"]
  OBVIOUS
<1>2. fits' = [fits EXCEPT ![k] = g]
  BY DEF EndFit
<1>3. g \in Fit
  BY <1>1 DEF Fit
<1>4. /\ g.status = "done" /\ g.active = f.active
      /\ g.found = f.found /\ g.candidates = f.candidates
      /\ g.next = f.next /\ g.tracks = f.tracks /\ g.failed = f.failed
  BY <1>1 DEF Fit
<1>5. f.active = <<>> /\ Results(f)
  BY <1>1 DEF FitRight
<1>6. \A hs : Fitted(f, hs) => Fitted(g, hs)
  BY <1>4 DEF Fitted
<1>7. Results(g)
  BY <1>4, <1>5, <1>6 DEF Results, Unfitted
<1>8. FitRight(g)
  BY <1>3, <1>4, <1>5, <1>7 DEF FitRight
<1> QED
  BY <1>2, <1>3, <1>8

-------------------------------------------------------------------------------
(* The invariant is inductive. *)

\* What it is to queue no fit and to queue one.
LEMMA Grow ==
  ASSUME NEW S, NEW s \in Seq(S), NEW e
  PROVE  s \o << >> = s /\ s \o << e >> = Append(s, e)
<1>1. s \in Seq(S \union {e})
  OBVIOUS
<1> QED
  BY <1>1

\* The elements of a sequence that has grown by one.
LEMMA Appended ==
  ASSUME NEW S, NEW s \in Seq(S), NEW e, NEW n \in Nat, Len(s) = n
  PROVE  /\ Append(s, e) = [k \in 1 .. n + 1 |-> Append(s, e)[k]]
         /\ Append(s, e)[n + 1] = e
         /\ \A k \in 1 .. n : Append(s, e)[k] = s[k]
<1>1. s \in Seq(S \union {e}) /\ e \in S \union {e}
  OBVIOUS
<1> DEFINE t == Append(s, e)
<1>2. t \in Seq(S \union {e}) /\ Len(t) = n + 1
  BY <1>1
<1>3. t[n + 1] = e /\ \A k \in 1 .. n : t[k] = s[k]
  BY <1>1
<1> HIDE DEF t
<1>4. t \in [1 .. n + 1 -> S \union {e}]
  BY <1>2, LenProperties
<1>5. t = [k \in 1 .. n + 1 |-> t[k]]
  BY <1>4
<1> QED
  BY <1>3, <1>5 DEF t


\* The invariant of a spill is inductive.
LEMMA SpillStep ==
  ASSUME SpillInv, [Next]_vars
  PROVE  SpillInv'
BY SeedInvIsInductive, MeasureStep, UnfoldStep DEF SpillInv

\* A fit that has not begun is right.
LEMMA QueuedRight == Queued \in Fit /\ FitRight(Queued)
<1>1. Queued \in Fit
  <2>1. <<>> \in Seq(Branch) /\ <<>> \in Seq(Seq(Index)) /\ <<>> \in Seq(Track)
    OBVIOUS
  <2> QED
    BY <2>1 DEF Queued, Fit
<1>2. /\ Queued.status = "queued" /\ Queued.active = <<>> /\ Queued.found = <<>>
      /\ Queued.candidates = <<>> /\ Unfitted(Queued)
  BY DEF Queued, Unfitted
<1> QED
  BY <1>1, <1>2 DEF FitRight

\* A fit after those of the seeds so far are queued is one of them or queued.
LEMMA QueuedOnes ==
  ASSUME NEW fs \in Seq(Fit), NEW d, NEW gs, gs = fs \o [i \in 1 .. d |-> Queued],
         d \in {0, 1}
  PROVE  \A k \in DOMAIN gs : (k \in DOMAIN fs /\ gs[k] = fs[k]) \/ gs[k] = Queued
<1>1. CASE d = 0
  <2>1. gs = fs
    BY <1>1, ConcatEmptySeq
  <2> QED
    BY <2>1
<1>2. CASE d = 1
  <2>1. [i \in 1 .. d |-> Queued] = << Queued >>
    BY <1>2
  <2>2. gs = Append(fs, Queued)
    BY <2>1, Grow
  <2> PICK n \in Nat : n = Len(fs)
    OBVIOUS
  <2> PICK q : q = Queued
    OBVIOUS
  <2>a. gs = Append(fs, q) /\ fs \in Seq(Fit) /\ n \in Nat /\ Len(fs) = n
    BY <2>2
  <2>b. /\ Append(fs, q) = [k \in 1 .. n + 1 |-> Append(fs, q)[k]]
        /\ Append(fs, q)[n + 1] = q
        /\ \A k \in 1 .. n : Append(fs, q)[k] = fs[k]
    BY ONLY <2>a, Appended
  <2>3. /\ gs = [k \in 1 .. n + 1 |-> gs[k]]
        /\ gs[n + 1] = Queued
        /\ \A k \in 1 .. n : gs[k] = fs[k]
    BY ONLY <2>a, <2>b, q = Queued
  <2>4. DOMAIN gs = 1 .. n + 1 /\ DOMAIN fs = 1 .. n
    BY <2>3
  <2>5. \A k \in 1 .. n + 1 : k \in 1 .. n \/ k = n + 1
    OBVIOUS
  <2> QED
    BY <2>3, <2>4, <2>5
<1> QED
  BY <1>1, <1>2

\* A step of the earlier stages queues a fit for the seed it emits, if any, and
\* leaves the measurements alone once there are seeds.
LEMMA SeedStepKeeps ==
  ASSUME TrackingInv, SeedStep
  PROVE  TrackingInv'
<1>1. SpillInv'
  BY SpillStep DEF TrackingInv, SeedStep, Next
<1>2. /\ seeds \in Seq(Index \X Index) /\ Len(seeds) \in Nat
      /\ fits \in Seq(Fit) /\ Len(fits) = Len(seeds)
  BY DEF TrackingInv, SpillInv, SeedInv, TypeOK
<1>3. seeds' = seeds \/ \E p : seeds' = Append(seeds, p)
  BY DEF SeedStep, MissingGeometry, BuildStep, StartUnfold, EmitSeed, EndUnfold, unfold
<1> PICK n \in Nat : n = Len(seeds)
  BY <1>2
<1>4. Len(seeds') = n \/ Len(seeds') = n + 1
  BY <1>2, <1>3
<1> PICK new : new = [i \in 1 .. (Len(seeds') - Len(seeds)) |-> Queued]
  OBVIOUS
<1>5. fits' = fits \o new
  BY DEF SeedStep
<1>6. Queued \in Fit /\ FitRight(Queued)
  BY QueuedRight
<1>7. /\ fits' \in Seq(Fit) /\ Len(fits') = Len(seeds')
      /\ \A k \in DOMAIN fits' : FitRight(fits'[k])
  <2>1. CASE Len(seeds') = n
    <3>1. new = << >>
      BY <1>2, <2>1
    <3>2. fits' = fits
      BY <1>2, <1>5, <3>1, ConcatEmptySeq
    <3> QED
      BY <1>2, <2>1, <3>2 DEF TrackingInv, FitsRight
  <2>2. CASE Len(seeds') = n + 1
    <3>1. new = << Queued >>
      BY <1>2, <2>2
    <3>2. fits' = Append(fits, Queued)
      BY <1>2, <1>5, <3>1, Grow
    <3> PICK q \in Fit : q = Queued
      BY <1>6
    <3> PICK fs : fs = Append(fits, q)
      OBVIOUS
    <3>3. fs \in Seq(Fit) /\ Len(fs) = n + 1 /\ fs[n + 1] = q /\ \A k \in 1 .. n : fs[k] = fits[k]
      BY <1>2
    <3>4. DOMAIN fs = 1 .. (n + 1) /\ DOMAIN fits = 1 .. n
      BY <1>2, <3>3
    <3>5. ASSUME NEW k \in DOMAIN fs PROVE FitRight(fs[k])
      <4>1. k \in 1 .. n \/ k = n + 1
        BY <3>4
      <4>2. CASE k \in 1 .. n
        <5>1. FitRight(fits[k])
          BY <3>4, <4>2 DEF TrackingInv, FitsRight
        <5> QED
          BY <3>3, <4>2, <5>1
      <4>3. CASE k = n + 1
        BY <1>6, <3>3, <4>3
      <4> QED
        BY <4>1, <4>2, <4>3
    <3> QED
      BY <2>2, <3>2, <3>3, <3>5
  <2> QED
    BY <1>4, <2>1, <2>2
<1>8. CASE stage = "prepare"
  <2>1. seeds = <<>> /\ seeds' = seeds
    BY <1>8 DEF TrackingInv, SpillInv, SeedInv, IdleInv, SeedStep, MissingGeometry, BuildStep,
                StartUnfold, EmitSeed, EndUnfold, unfold
  <2>2. Len(seeds') = 0
    BY <2>1
  <2>3. DOMAIN fits' = {}
    BY <1>7, <2>2
  <2> QED
    BY <1>1, <1>7, <2>3 DEF TrackingInv, FitsRight
<1>9. CASE stage # "prepare"
  <2>1. UNCHANGED <<measurements, sourceLinks>>
    BY <1>9 DEF SeedStep, MissingGeometry, BuildStep, StartUnfold, EmitSeed, EndUnfold, build
  <2>2. ASSUME NEW k \in DOMAIN fits' PROVE FitRight(fits[k])'
    <3> PICK f : f = fits'[k]
      OBVIOUS
    <3>1. FitRight(f)'
      BY <1>7, <2>1, RightStaysRight
    <3> QED
      BY <3>1
  <2> QED
    BY <1>1, <1>7, <2>2 DEF TrackingInv, FitsRight
<1> QED
  BY <1>8, <1>9

\* Any step of a fit leaves it right.
LEMMA FitGoesOn ==
  ASSUME TrackingInv, NEW k \in DOMAIN fits, FitStep(k)
  PROVE  \E g \in Fit : FitRight(g) /\ fits' = [fits EXCEPT ![k] = g]
<1>1. CASE StartFit(k)
  <2>1. CASE fits' = [fits EXCEPT ![k].status = "rejected"]
    BY <1>1, <2>1, RejectRight DEF StartFit
  <2>2. CASE fits' # [fits EXCEPT ![k].status = "rejected"]
    BY <1>1, <2>2, StartRight
  <2> QED
    BY <2>1, <2>2
<1>2. CASE CrossStation(k)
  BY <1>2, CrossRight
<1>3. CASE StopBranch(k)
  BY <1>3, StopRight
<1>4. CASE FindingFails(k)
  BY <1>4, FailRight
<1>5. CASE FindingEnds(k)
  BY <1>5, EndsRight
<1>6. CASE SkipCandidate(k)
  BY <1>6, SkipRight
<1>7. CASE Refit(k)
  BY <1>7, RefitRight
<1>8. CASE EndFit(k)
  BY <1>8, EndRight
<1> QED
  BY <1>1, <1>2, <1>3, <1>4, <1>5, <1>6, <1>7, <1>8 DEF FitStep

\* Fits, seeds and measurements stay in agreement in every step.
LEMMA TrackingInvIsInductive ==
  ASSUME TrackingInv, [TrackingNext]_trackingVars
  PROVE  TrackingInv'
<1>1. CASE SeedStep
  BY <1>1, SeedStepKeeps
<1>2. ASSUME NEW k \in DOMAIN fits, FitStep(k) PROVE TrackingInv'
  <2>1. UNCHANGED vars
    BY <1>2 DEF FitStep
  <2>2. SpillInv'
    BY <2>1, SpillStep DEF TrackingInv
  <2>3. seeds' = seeds /\ measurements' = measurements /\ sourceLinks' = sourceLinks
    BY <2>1 DEF vars, unfold, build
  <2>4. PICK g \in Fit : FitRight(g) /\ fits' = [fits EXCEPT ![k] = g]
    BY <1>2, FitGoesOn
  <2>5. fits' \in Seq(Fit) /\ Len(fits') = Len(seeds')
    BY <2>3, <2>4, ExceptSeq DEF TrackingInv
  <2>6. ASSUME NEW j \in DOMAIN fits' PROVE FitRight(fits[j])'
    <3> PICK f : f = fits'[j]
      OBVIOUS
    <3>1. f = g \/ (f = fits[j] /\ j \in DOMAIN fits)
      BY <2>4
    <3>2. FitRight(f)
      BY <2>4, <3>1 DEF TrackingInv, FitsRight
    <3>3. FitRight(f)'
      BY <2>3, <3>2, RightStaysRight
    <3> QED
      BY <3>3
  <2> QED
    BY <2>2, <2>5, <2>6 DEF TrackingInv, FitsRight
<1>3. CASE TrackingFinished \/ UNCHANGED trackingVars
  <2>1. UNCHANGED vars /\ fits' = fits
    BY <1>3 DEF TrackingFinished, trackingVars
  <2>2. SpillInv'
    BY <2>1, SpillStep DEF TrackingInv
  <2>3. seeds' = seeds /\ measurements' = measurements /\ sourceLinks' = sourceLinks
    BY <2>1 DEF vars, unfold, build
  <2>4. ASSUME NEW j \in DOMAIN fits' PROVE FitRight(fits[j])'
    <3> PICK f : f = fits'[j]
      OBVIOUS
    <3>1. FitRight(f)
      BY <2>1 DEF TrackingInv, FitsRight
    <3>2. FitRight(f)'
      BY <2>3, <3>1, RightStaysRight
    <3> QED
      BY <3>2
  <2> QED
    BY <2>1, <2>2, <2>3, <2>4 DEF TrackingInv, FitsRight
<1> QED
  BY <1>1, <1>2, <1>3 DEF TrackingNext

\* In every behaviour the fits stay right.
THEOREM TrackingCorrect == TrackingSpec => []TrackingInv
<1>1. TrackingInit => TrackingInv
  <2> SUFFICES ASSUME TrackingInit PROVE TrackingInv
    OBVIOUS
  <2>1. SpillInv
    BY InitSeed, InitMeasured DEF TrackingInit, SpillInv, UnfoldInv, Init
  <2>2. seeds = << >> /\ fits = << >>
    BY DEF TrackingInit, Init
  <2>3. fits \in Seq(Fit) /\ Len(fits) = Len(seeds) /\ DOMAIN fits = {}
    BY <2>2
  <2> QED
    BY <2>1, <2>3 DEF TrackingInv, FitsRight
<1>2. TrackingInv /\ [TrackingNext]_trackingVars => TrackingInv'
  BY TrackingInvIsInductive
<1> QED
  BY <1>1, <1>2, PTL DEF TrackingSpec

\* What fit_seed decides of a seed depends on whether it is within the angle.
Verdict(f, m0, m1) == f.status # "queued" => (f.status # "rejected" <=> WithinAngle(m0, m1))

\* The decision is taken when the fit starts, and the later steps keep it.
LEMMA VerdictTaken ==
  ASSUME TrackingInv, OnlyForwardPairsAreFitted, NEW k \in DOMAIN fits, FitStep(k)
  PROVE  Verdict(fits'[k], MeasurementOf(seeds[k][1]), MeasurementOf(seeds[k][2]))
<1> PICK m0, m1 : m0 = MeasurementOf(seeds[k][1]) /\ m1 = MeasurementOf(seeds[k][2])
  OBVIOUS
<1> PICK f \in Fit : f = fits[k]
  BY DEF TrackingInv
<1>1. Verdict(f, m0, m1)
  BY DEF OnlyForwardPairsAreFitted, Verdict
<1>2. fits \in Seq(Fit) /\ k \in DOMAIN fits
  BY DEF TrackingInv
<1>3. CASE StartFit(k)
  <2>1. HasDirection(m0, m1) <=> WithinAngle(m0, m1)
    BY SeedAngle DEF TrackingInv, SpillInv, SeedInv, TypeOK
  <2> PICK seed : seed = SeedFromHitPair(m0, m1)
    OBVIOUS
  <2>2. seed = {} <=> ~HasDirection(m0, m1)
    BY DEF SeedFromHitPair
  <2>3. \/ seed = {} /\ fits' = [fits EXCEPT ![k].status = "rejected"]
        \/ \E start \in seed :
              fits' = [fits EXCEPT ![k].status = "finding",
                                   ![k].active = Extend(<<>>, start.surface, start.loc)]
    BY <1>3 DEF StartFit
  <2>4. CASE seed = {}
    <3>1. fits'[k] = [f EXCEPT !.status = "rejected"]
      BY <1>2, <2>3, <2>4
    <3>2. fits'[k].status = "rejected"
      BY <3>1 DEF Fit
    <3> QED
      BY <2>1, <2>2, <2>4, <3>2 DEF Verdict
  <2>5. CASE seed # {}
    <3>1. PICK start \in seed :
             fits' = [fits EXCEPT ![k].status = "finding",
                                  ![k].active = Extend(<<>>, start.surface, start.loc)]
      BY <2>3, <2>5
    <3> PICK bs : bs = Extend(<<>>, start.surface, start.loc)
      OBVIOUS
    <3>2. fits'[k] = [f EXCEPT !.status = "finding", !.active = bs]
      BY <1>2, <3>1
    <3>3. fits'[k].status = "finding"
      BY <3>2 DEF Fit
    <3> QED
      BY <2>1, <2>2, <2>5, <3>3 DEF Verdict
  <2> QED
    BY <2>4, <2>5
<1>4. CASE CrossStation(k)
  <2>1. f.status = "finding" /\ \E bs : fits' = [fits EXCEPT ![k].active = bs]
    BY <1>4 DEF CrossStation
  <2>2. PICK bs : fits' = [fits EXCEPT ![k].active = bs]
    BY <2>1
  <2>3. fits'[k] = [f EXCEPT !.active = bs]
    BY <1>2, <2>2
  <2>4. fits'[k].status = f.status
    BY <2>3 DEF Fit
  <2> QED
    BY <1>1, <2>4 DEF Verdict
<1>5. CASE StopBranch(k) \/ FindingFails(k) \/ FindingEnds(k)
  <2>1. f.status = "finding" /\ fits'[k].status \in {"finding", "refitting"}
    BY <1>2, <1>5 DEF StopBranch, FindingFails, FindingEnds, Fit
  <2> QED
    BY <1>1, <2>1 DEF Verdict
<1>6. CASE SkipCandidate(k) \/ Refit(k) \/ EndFit(k)
  <2>1. f.status = "refitting"
    BY <1>6 DEF SkipCandidate, Refit, EndFit, InLoop
  <2>2. CASE SkipCandidate(k)
    <3>1. fits' = [fits EXCEPT ![k].next = @ + 1]
      BY <2>2 DEF SkipCandidate
    <3>2. fits'[k].status = "refitting"
      BY <1>2, <2>1, <3>1 DEF Fit
    <3> QED
      BY <1>1, <2>1, <3>2 DEF Verdict
  <2>3. CASE Refit(k)
    <3>1. PICK ok \in BOOLEAN, some \in SUBSET DOMAIN StatesOfFit(Candidate(k)),
               flag \in {"measurement", "smoothed"} :
            fits' = [fits EXCEPT
                ![k].next = @ + 1,
                ![k].tracks = Append(@, FromACTSFitResult(ok, TRUE,
                                          Smoothed(StatesOfFit(Candidate(k)), some, flag))),
                ![k].failed = IF ok THEN @ ELSE @ \union {Len(fits[k].tracks) + 1}]
      BY <2>3 DEF Refit
    <3> PICK t : t = FromACTSFitResult(ok, TRUE,
                                       Smoothed(StatesOfFit(Candidate(k)), some, flag))
      OBVIOUS
    <3>2. fits' = [fits EXCEPT
                 ![k].next = @ + 1,
                 ![k].tracks = Append(@, t),
                 ![k].failed = IF ok THEN @ ELSE @ \union {Len(fits[k].tracks) + 1}]
      BY <3>1
    <3>3. fits'[k].status = "refitting"
      BY <1>2, <2>1, <3>2 DEF Fit
    <3> QED
      BY <1>1, <2>1, <3>3 DEF Verdict
  <2>4. CASE EndFit(k)
    <3>1. fits' = [fits EXCEPT ![k].status = "done"]
      BY <2>4 DEF EndFit
    <3>2. fits'[k].status = "done"
      BY <1>2, <3>1 DEF Fit
    <3> QED
      BY <1>1, <2>1, <3>2 DEF Verdict
  <2> QED
    BY <1>6, <2>2, <2>3, <2>4
<1> QED
  BY <1>3, <1>4, <1>5, <1>6 DEF FitStep

\* A fit that is queued has no verdict yet, and the measurements of a seed do not
\* change after it was emitted.
LEMMA VerdictsKept ==
  ASSUME TrackingInv, OnlyForwardPairsAreFitted, [TrackingNext]_trackingVars
  PROVE  OnlyForwardPairsAreFitted'
<1>1. /\ seeds \in Seq(Index \X Index) /\ fits \in Seq(Fit) /\ Len(fits) = Len(seeds)
  BY DEF TrackingInv, SpillInv, SeedInv, TypeOK
<1>2. ASSUME NEW j \in DOMAIN fits, FitStep(j) PROVE OnlyForwardPairsAreFitted'
  <2>1. seeds' = seeds /\ measurements' = measurements
    BY <1>2 DEF FitStep, vars, unfold, build
  <2>2. PICK g \in Fit : fits' = [fits EXCEPT ![j] = g]
    BY <1>2, FitGoesOn
  <2>3. Verdict(fits'[j], MeasurementOf(seeds[j][1]), MeasurementOf(seeds[j][2]))
    BY <1>2, VerdictTaken
  <2>4. \A k \in DOMAIN fits' : k \in DOMAIN fits /\ (k # j => fits'[k] = fits[k])
    BY <1>1, <2>2
  <2>5. \A k \in DOMAIN fits' :
           Verdict(fits'[k], MeasurementOf(seeds[k][1]), MeasurementOf(seeds[k][2]))
    BY <2>3, <2>4 DEF OnlyForwardPairsAreFitted, Verdict
  <2> QED
    BY <2>1, <2>5 DEF OnlyForwardPairsAreFitted, Verdict, MeasurementOf
<1>3. CASE TrackingFinished \/ UNCHANGED trackingVars
  <2>1. seeds' = seeds /\ measurements' = measurements /\ fits' = fits
    BY <1>3 DEF TrackingFinished, trackingVars, vars, unfold, build
  <2> QED
    BY <2>1 DEF OnlyForwardPairsAreFitted, MeasurementOf
<1>4. CASE SeedStep
  <2>1. TrackingInv'
    BY <1>4, SeedStepKeeps
  <2>2. CASE stage = "prepare"
    <3>1. seeds = <<>> /\ seeds' = seeds
      BY <1>4, <2>2 DEF TrackingInv, SpillInv, SeedInv, IdleInv, SeedStep, MissingGeometry,
                        BuildStep, StartUnfold, EmitSeed, EndUnfold, unfold
    <3>2. fits' \in Seq(Fit) /\ Len(fits') = 0
      BY <2>1, <3>1 DEF TrackingInv
    <3> QED
      BY <3>2 DEF OnlyForwardPairsAreFitted
  <2>3. CASE stage # "prepare"
    <3>1. measurements' = measurements
      BY <1>4, <2>3 DEF SeedStep, MissingGeometry, BuildStep, StartUnfold, EmitSeed, EndUnfold,
                        build
    <3>2. \A k \in DOMAIN fits : k \in DOMAIN seeds /\ seeds'[k] = seeds[k]
      <4> PICK n \in Nat : n = Len(seeds)
        BY <1>1
      <4>1. DOMAIN fits = 1 .. n /\ DOMAIN seeds = 1 .. n
        BY <1>1
      <4>2. seeds' = seeds \/ \E p : seeds' = Append(seeds, p)
        BY <1>4 DEF SeedStep, MissingGeometry, BuildStep, StartUnfold, EmitSeed, EndUnfold, unfold
      <4>3. ASSUME NEW p, seeds' = Append(seeds, p) PROVE \A k \in 1 .. n : seeds'[k] = seeds[k]
        <5>1. \A k \in 1 .. n : Append(seeds, p)[k] = seeds[k]
          BY <1>1, Appended
        <5> QED
          BY <4>3, <5>1
      <4> QED
        BY <4>1, <4>2, <4>3
    <3>3. \A k \in DOMAIN fits' :
             (k \in DOMAIN fits /\ fits'[k] = fits[k]) \/ fits'[k] = Queued
      <4> PICK d : d = Len(seeds') - Len(seeds)
        OBVIOUS
      <4>1. d \in {0, 1}
        <5>1. seeds' = seeds \/ \E p : seeds' = Append(seeds, p)
          BY <1>4 DEF SeedStep, MissingGeometry, BuildStep, StartUnfold, EmitSeed, EndUnfold,
                      unfold
        <5>2. Len(seeds') = Len(seeds) \/ Len(seeds') = Len(seeds) + 1
          BY <1>1, <5>1
        <5> QED
          BY <1>1, <5>2
      <4>2. fits' = fits \o [i \in 1 .. d |-> Queued]
        BY <1>4 DEF SeedStep
      <4> PICK gs : gs = fits'
        OBVIOUS
      <4>3. gs = fits \o [i \in 1 .. d |-> Queued] /\ fits \in Seq(Fit)
        BY <1>1, <4>2
      <4>4. \A k \in DOMAIN gs : (k \in DOMAIN fits /\ gs[k] = fits[k]) \/ gs[k] = Queued
        BY ONLY <4>1, <4>3, QueuedOnes
      <4> QED
        BY <4>4
    <3>4. Queued.status = "queued"
      BY DEF Queued
    <3>5. ASSUME NEW k \in DOMAIN fits'
          PROVE  Verdict(fits'[k], MeasurementOf(seeds[k][1])', MeasurementOf(seeds[k][2])')
      BY <3>1, <3>2, <3>3, <3>4 DEF OnlyForwardPairsAreFitted, Verdict, MeasurementOf
    <3> QED
      BY <3>5 DEF OnlyForwardPairsAreFitted, Verdict
  <2> QED
    BY <2>2, <2>3
<1> QED
  BY <1>2, <1>3, <1>4 DEF TrackingNext

\* For every geometry, spill and interleaving of fits: fit_seed turns away exactly
\* the seeds that are not within the angle, although the cut lets them pass.
THEOREM OnlyForwardPairsFitted == TrackingSpec => []OnlyForwardPairsAreFitted
<1>1. TrackingInit => OnlyForwardPairsAreFitted
  BY DEF TrackingInit, OnlyForwardPairsAreFitted
<1>2. TrackingInv /\ OnlyForwardPairsAreFitted /\ [TrackingNext]_trackingVars
        => OnlyForwardPairsAreFitted'
  BY VerdictsKept
<1> QED
  BY <1>1, <1>2, TrackingCorrect, PTL DEF TrackingSpec

\* Every behaviour of the plugin is type-correct: the hits a branch takes and a
\* candidate has are measurement indices, and there is one fit for each seed.
THEOREM TrackingTypeCorrect == TrackingSpec => []TrackingTypeOK
<1>1. TrackingInv => TrackingTypeOK
  BY DEF TrackingInv, SpillInv, SeedInv, TrackingTypeOK
<1> QED
  BY <1>1, TrackingCorrect, PTL

\* A seed gives at most one track, and its filter never holds more than one branch.
THEOREM OneTrackEach == TrackingSpec => []OneTrackPerSeed
<1>1. ASSUME NEW f, FitRight(f)
      PROVE  Len(f.active) + Len(f.found) <= 1 /\ Len(f.tracks) <= 1
  <2>1. Len(<<>>) = 0
    OBVIOUS
  <2>2. Unfitted(f) => Len(f.tracks) = 0
    BY <2>1 DEF Unfitted
  <2>3. \A hs : Fitted(f, hs) => Len(f.tracks) \in {0, 1}
    BY <2>1 DEF Fitted
  <2>4. CASE f.status \in {"queued", "rejected", "finding"}
    <3>1. Len(f.tracks) = 0
      BY <1>1, <2>2, <2>4 DEF FitRight
    <3>2. CASE f.status \in {"queued", "rejected"}
      <4>1. f.active = <<>> /\ f.found = <<>>
        BY <1>1, <3>2 DEF FitRight
      <4>2. Len(f.active) = 0 /\ Len(f.found) = 0
        BY <2>1, <4>1
      <4> QED
        BY <3>1, <4>2
    <3>3. CASE f.status = "finding"
      <4>1. CASE f.found = <<>> /\ Len(f.active) = 1
        <5>1. Len(f.found) = 0
          BY <2>1, <4>1
        <5> QED
          BY <3>1, <4>1, <5>1
      <4>2. CASE f.active = <<>> /\ Len(f.found) = 1
        <5>1. Len(f.active) = 0
          BY <2>1, <4>2
        <5> QED
          BY <3>1, <4>2, <5>1
      <4> QED
        BY <1>1, <3>3, <4>1, <4>2 DEF FitRight
    <3> QED
      BY <2>4, <3>2, <3>3
  <2>5. CASE f.status \in {"refitting", "done"}
    <3>1. f.active = <<>> /\ Results(f)
      BY <1>1, <2>5 DEF FitRight
    <3>2. Len(f.found) \in {0, 1} /\ Len(f.tracks) \in {0, 1}
      BY <2>1, <2>2, <2>3, <3>1 DEF Results
    <3> QED
      BY <2>1, <3>1, <3>2
  <2>6. f.status \in {"queued", "rejected", "finding", "refitting", "done"}
    BY <1>1 DEF FitRight, Fit
  <2> QED
    BY <2>4, <2>5, <2>6
<1>2. TrackingInv => OneTrackPerSeed
  BY <1>1 DEF TrackingInv, FitsRight, OneTrackPerSeed
<1> QED
  BY <1>2, TrackingCorrect, PTL

\* What is kept of at most one element.
LEMMA KeptOfOneElement ==
  ASSUME NEW S, NEW s \in Seq(S), Len(s) = 1, NEW T \in SUBSET {1}
  PROVE  Kept(s, T) = IF 1 \in T THEN s ELSE <<>>
<1>1. s = << s[1] >>
  BY OneElement
<1>2. T = {} \/ T = {1}
  OBVIOUS
<1>3. Kept(<< s[1] >>, {1}) = << s[1] >> /\ Kept(s, {}) = <<>>
  BY KeptOfOne
<1> QED
  BY <1>1, <1>2, <1>3

\* What findCandidateHits reads off the states is whole: a candidate for every
\* branch that has met a station with hits, with one hit of each such station.
THEOREM CandidatesComplete == TrackingSpec => []CandidatesAreWhole
<1>1. ASSUME NEW f, FitRight(f), f.status \in {"refitting", "done"}
      PROVE  LET withHits == Kept(f.found, {i \in DOMAIN f.found : Met(f.found[i]) # {}})
             IN  /\ Len(f.candidates) = Len(withHits)
                 /\ \A i \in DOMAIN f.candidates :
                       /\ StationsOf(f.candidates[i]) = Met(withHits[i])
                       /\ Backwards(f.candidates[i])
  <2> PICK T : T = {i \in DOMAIN f.found : Met(f.found[i]) # {}}
    OBVIOUS
  <2> PICK withHits : withHits = Kept(f.found, T)
    OBVIOUS
  <2>1. Results(f) /\ f.found \in Seq(Branch) /\ f.candidates \in Seq(Seq(Index))
    BY <1>1 DEF FitRight, Fit
  <2>2. CASE f.found = <<>>
    <3>1. f.candidates = <<>>
      <4>1. Len(<<>>) = 0
        OBVIOUS
      <4> QED
        BY <2>1, <2>2, <4>1 DEF Results
    <3>2. T = {}
      BY <2>2
    <3>3. withHits = <<>>
      BY <3>2, KeptOfOne
    <3> QED
      BY <3>1, <3>3
  <2>3. CASE f.found # <<>>
    <3>1. Len(f.found) = 1
      BY <2>1, <2>3 DEF Results
    <3> PICK b : b = f.found[1]
      OBVIOUS
    <3>2. T = IF Met(b) # {} THEN {1} ELSE {}
      <4>1. DOMAIN f.found = {1}
        BY <2>1, <3>1
      <4> QED
        BY <4>1
    <3>3. withHits = IF Met(b) # {} THEN f.found ELSE <<>>
      <4>1. Kept(f.found, T) = IF 1 \in T THEN f.found ELSE <<>>
        BY <2>1, <3>1, <3>2, KeptOfOneElement
      <4> QED
        BY <3>2, <4>1
    <3>4. CASE Met(b) = {}
      <4>1. f.candidates = <<>>
        BY <2>1, <2>3, <3>4 DEF Results
      <4>2. withHits = <<>>
        BY <3>3, <3>4
      <4> QED
        BY <4>1, <4>2
    <3>5. CASE Met(b) # {}
      <4>1. Len(f.candidates) = 1 /\ GoodHits(f.candidates[1], b)
        BY <2>1, <2>3, <3>5 DEF Results
      <4>2. DOMAIN f.candidates = {1}
        BY <2>1, <4>1
      <4>3. withHits = f.found
        BY <3>3, <3>5
      <4>4. StationsOf(f.candidates[1]) = Met(withHits[1]) /\ Backwards(f.candidates[1])
        BY <4>1, <4>3 DEF GoodHits
      <4> QED
        BY <3>1, <4>1, <4>2, <4>3, <4>4
    <3> QED
      BY <3>4, <3>5
  <2> QED
    BY <2>2, <2>3
<1>2. TrackingInv => CandidatesAreWhole
  BY <1>1 DEF TrackingInv, FitsRight, CandidatesAreWhole
<1> QED
  BY <1>2, TrackingCorrect, PTL

\* The results are those of the candidates with enough hits, one each and in
\* their order; a failed fit is told by its status and brings nothing to take
\* for fitted, a successful one only hits of its own candidate.
THEOREM ResultsCorrect == TrackingSpec => []ResultsFollowCandidates
<1>1. ASSUME BuildTypeOK, NEW f, FitRight(f)
      PROVE  LET fitted == Kept(f.candidates, {i \in 1 .. (f.next - 1) :
                                 Cardinality(StationsOf(f.candidates[i])) >= MinHits})
             IN  /\ Len(f.tracks) = Len(fitted)
                 /\ \A i \in DOMAIN f.tracks :
                       /\ Range(f.tracks[i].hits) \subseteq Range(fitted[i])
                       /\ Backwards(f.tracks[i].hits)
                       /\ IF i \in f.failed
                          THEN f.tracks[i] = [fitStatus |-> 1, refLoc |-> "unset", hits |-> <<>>]
                          ELSE f.tracks[i].fitStatus = 0 /\ f.tracks[i].refLoc = "global"
  <2> PICK T : T = {i \in 1 .. (f.next - 1) : Cardinality(StationsOf(f.candidates[i])) >= MinHits}
    OBVIOUS
  <2> PICK fitted : fitted = Kept(f.candidates, T)
    OBVIOUS
  <2>1. CASE Unfitted(f)
    <3>1. f.tracks = <<>> /\ f.next = 1
      BY <2>1 DEF Unfitted
    <3>2. T = {}
      BY <3>1
    <3>3. fitted = <<>>
      BY <3>2, KeptOfOne
    <3> QED
      BY <3>1, <3>3
  <2>2. CASE ~Unfitted(f)
    <3>1. /\ f.status \in {"refitting", "done"}
          /\ f.candidates \in Seq(Seq(Index)) /\ f.tracks \in Seq(Track)
      BY <1>1, <2>2 DEF FitRight, Fit
    <3>2. /\ Len(f.candidates) = 1 /\ GoodHits(f.candidates[1], f.found[1])
          /\ Fitted(f, f.candidates[1])
      BY <1>1, <2>2, <3>1 DEF FitRight, Results
    <3> PICK hs : hs = f.candidates[1]
      OBVIOUS
    <3>3. hs \in Seq(Index) /\ Cardinality(StationsOf(hs)) = Len(hs)
      <4>1. hs \in Seq(Index) /\ Backwards(hs) /\ \A i \in DOMAIN hs : hs[i] < Len(measurements)
        BY <3>2 DEF GoodHits
      <4> QED
        BY <1>1, <4>1, CountStations
    <3>4. f.next = 2
      BY <3>2 DEF Fitted
    <3>5. T = IF Len(hs) >= MinHits THEN {1} ELSE {}
      <4>1. 1 .. (f.next - 1) = {1}
        BY <3>4
      <4> QED
        BY <3>3, <4>1
    <3>6. fitted = IF Len(hs) >= MinHits THEN f.candidates ELSE <<>>
      <4>1. Kept(f.candidates, T) = IF 1 \in T THEN f.candidates ELSE <<>>
        BY <3>1, <3>2, <3>5, KeptOfOneElement
      <4> QED
        BY <3>5, <4>1
    <3>7. CASE Len(hs) < MinHits
      <4>1. f.tracks = <<>>
        BY <3>2, <3>3, <3>7, HitAssumption DEF Fitted
      <4>2. fitted = <<>>
        BY <3>3, <3>6, <3>7, HitAssumption
      <4> QED
        BY <4>1, <4>2
    <3>8. CASE Len(hs) >= MinHits
      <4>1. Len(f.tracks) = 1 /\ GoodTrack(f.tracks[1], hs, 1 \in f.failed)
        BY <3>2, <3>3, <3>8, HitAssumption DEF Fitted
      <4>2. fitted = f.candidates /\ fitted[1] = hs /\ Len(fitted) = 1
        BY <3>2, <3>6, <3>8
      <4>3. DOMAIN f.tracks = {1}
        BY <3>1, <4>1
      <4>4. /\ Range(f.tracks[1].hits) \subseteq Range(fitted[1])
            /\ Backwards(f.tracks[1].hits)
            /\ IF 1 \in f.failed
               THEN f.tracks[1] = [fitStatus |-> 1, refLoc |-> "unset", hits |-> <<>>]
               ELSE f.tracks[1].fitStatus = 0 /\ f.tracks[1].refLoc = "global"
        BY <4>1, <4>2 DEF GoodTrack
      <4> QED
        BY <4>1, <4>2, <4>3, <4>4
    <3>9. Len(hs) < MinHits \/ Len(hs) >= MinHits
      BY <3>3, HitAssumption
    <3> QED
      BY <3>7, <3>8, <3>9
  <2> QED
    BY <2>1, <2>2
<1>2. TrackingInv => ResultsFollowCandidates
  BY <1>1 DEF TrackingInv, FitsRight, ResultsFollowCandidates, SpillInv, SeedInv, TypeOK
<1> QED
  BY <1>2, TrackingCorrect, PTL
===============================================================================
