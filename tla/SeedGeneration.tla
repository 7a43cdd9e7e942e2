---------------------------- MODULE SeedGeneration ----------------------------
(***************************************************************************)
(* One spill through prepare_measurements and generate_seeds: the spill     *)
(* context is built from the hits, then phlex unfolds it into one child per *)
(* seed.  The unfold calls the predicate (is there a current flat index?)  *)
(* and, while it holds, the unfold function, which emits the seed at the   *)
(* current flat index and scans for the next one.                          *)
(***************************************************************************)
EXTENDS SpectrometerMeasurements

CONSTANTS TimeWindow,  \* kTimeWindowNs
          NoIndex      \* std::nullopt

ASSUME TimeAssumption == TimeWindow \in Nat /\ NoIndex \notin Nat

VARIABLES present, \* the detector and the field products are both non-null
          stage,   \* "prepare", "unfold" or "done"
          hits1,   \* SeedGenObject::hits1_, measurement indices at station 1
          hits2,   \* SeedGenObject::hits2_
          cursor,  \* the flat index the unfold is at, or NoIndex
          seeds    \* the seeds emitted so far

build == <<hits, next, measurements, sourceLinks>>
unfold == <<hits1, hits2, cursor, seeds>>
vars == <<build, unfold, present, stage>>

Index == 0 .. (IndexRange - 1)

TypeOK ==
    /\ BuildTypeOK
    /\ present \in BOOLEAN
    /\ stage \in {"prepare", "unfold", "done"}
    /\ hits1 \in Seq(Index)
    /\ hits2 \in Seq(Index)
    /\ cursor \in Nat \union {NoIndex}
    /\ seeds \in Seq(Index \X Index)

Init ==
    /\ \E hs \in Spills : StartBuild(hs)
    /\ present \in BOOLEAN
    /\ stage = "prepare"
    /\ hits1 = <<>>
    /\ hits2 = <<>>
    /\ cursor = NoIndex
    /\ seeds = <<>>

\* Coincidence cut: skip the pair if |t0 - t1| > window, which is false for NaN.
InTime(m0, m1) == ~Less(TimeWindow, Magnitude(Minus(m0.time, m1.time)))

\* The direction from m0 to m1 has a cosine of at least 0.9 with the beam axis.
WithinAngle(m0, m1) ==
    LET dx == Minus(m1.x, m0.x)
        dz == Minus(m1.z, m0.z)
    IN  dx # NaN /\ Less(0, dz) /\ 100 * dz * dz >= 81 * (dx * dx + dz * dz)

\* Direction cut: z of (m1 - m0).normalized() is at least 0.9.  normalized()
\* divides only by a norm that compares greater than zero: without a transverse
\* coordinate z is the plain difference in mm, and of equal points it is zero.
ForwardGoing(m0, m1) ==
    LET dx == Minus(m1.x, m0.x)
        dz == Minus(m1.z, m0.z)
    IN  \/ WithinAngle(m0, m1)
        \/ dx = NaN /\ dz # NaN /\ 10 * dz >= 9

Compatible(m0, m1) == InTime(m0, m1) /\ ForwardGoing(m0, m1)

\* seedAt: flat index k over hits1 x hits2, row by row.
PairAt(h1, h2, k) == <<h1[(k \div Len(h2)) + 1], h2[(k % Len(h2)) + 1]>>

Valid(h1, h2, k) ==
    LET p == PairAt(h1, h2, k)
    IN  Compatible(measurements[p[1] + 1], measurements[p[2] + 1])

\* The flat indices from `from' on that pass both cuts.
ValidFrom(h1, h2, from) ==
    {k \in from .. (Len(h1) * Len(h2) - 1) : Valid(h1, h2, k)}

FindNextValid_SkipsOne(h1, h2, from) ==
    IF ValidFrom(h1, h2, from + 1) = {} THEN NoIndex ELSE Min(ValidFrom(h1, h2, from + 1))

FindNextValid(h1, h2, from) ==
    IF ValidFrom(h1, h2, from) = {} THEN NoIndex ELSE Min(ValidFrom(h1, h2, from))

\* prepare_measurements without a detector or a field: an empty context, and
\* a SeedGenObject without hits.
MissingGeometry ==
    /\ stage = "prepare"
    /\ ~present
    /\ stage' = "unfold"
    /\ UNCHANGED <<build, unfold, present>>

BuildStep ==
    /\ stage = "prepare"
    /\ present
    /\ DropHit \/ AcceptHit
    /\ UNCHANGED <<unfold, present, stage>>

\* Measurement indices of the links of a station, in their order.
IndicesAt(s) ==
    LET links == SelectModule(sourceLinks, s)
    IN  [i \in 1 .. Len(links) |-> links[i].index]

\* SeedGenObject's constructor and initial_value.
StartUnfold ==
    /\ stage = "prepare"
    /\ present
    /\ Built
    /\ stage' = "unfold"
    /\ hits1' = IndicesAt(1)
    /\ hits2' = IndicesAt(2)
    /\ cursor' = FindNextValid(hits1', hits2', 0)
    /\ UNCHANGED <<build, present, seeds>>

EmitSeed_SameIndexAgain ==
    /\ stage = "unfold"
    /\ cursor # NoIndex
    /\ seeds' = Append(seeds, PairAt(hits1, hits2, cursor))
    /\ cursor' = FindNextValid(hits1, hits2, cursor)
    /\ UNCHANGED <<build, hits1, hits2, present, stage>>

\* The unfold function.
EmitSeed ==
    /\ stage = "unfold"
    /\ cursor # NoIndex
    /\ seeds' = Append(seeds, PairAt(hits1, hits2, cursor))
    /\ cursor' = FindNextValid(hits1, hits2, cursor + 1)
    /\ UNCHANGED <<build, hits1, hits2, present, stage>>

\* The predicate is false: the unfold is over.
EndUnfold ==
    /\ stage = "unfold"
    /\ cursor = NoIndex
    /\ stage' = "done"
    /\ UNCHANGED <<build, unfold, present>>

Finished == stage = "done" /\ UNCHANGED vars

Next == MissingGeometry \/ BuildStep \/ StartUnfold \/ EmitSeed \/ EndUnfold \/ Finished

Spec == Init /\ [][Next]_vars

-------------------------------------------------------------------------------
(* Properties *)

\* The valid flat indices the unfold has left behind.
Below ==
    IF cursor = NoIndex THEN ValidFrom(hits1, hits2, 0)
    ELSE {k \in ValidFrom(hits1, hits2, 0) : k < cursor}

\* While the unfold runs, the seeds emitted are the compatible pairs below the
\* current flat index, each once and in row order, and the scan for the next
\* index has passed over none of them.
SeedsBelowCursor ==
    stage # "prepare" =>
        /\ cursor # NoIndex => cursor \in ValidFrom(hits1, hits2, 0)
        /\ \E at \in [DOMAIN seeds -> Below] :
              /\ \A i, j \in DOMAIN seeds : i < j => at[i] < at[j]
              /\ \A k \in Below : \E i \in DOMAIN seeds : at[i] = k
              /\ \A i \in DOMAIN seeds : seeds[i] = PairAt(hits1, hits2, at[i])

\* The hits of the spill that become measurements, and the index each gets.
AcceptedHits == {i \in DOMAIN hits : InWindow(hits[i]) # {}}
IndexOf(i) == Cardinality({j \in AcceptedHits : j < i})

\* Stated on the hits of the spill alone: the seeds of a spill are all pairs of
\* a hit nearest to station 1 and a hit nearest to station 2 that pass the cuts.
\* No pair is missed, none is repeated, and a spill without geometry has none.
ExpectedSeeds ==
    { <<IndexOf(p[1]), IndexOf(p[2])>> :
        p \in {q \in AcceptedHits \X AcceptedHits :
                  /\ BestStation(hits[q[1]]) = 1
                  /\ BestStation(hits[q[2]]) = 2
                  /\ Compatible(hits[q[1]], hits[q[2]])} }

SeedsAreAllPairs ==
    stage = "done" =>
        IF present THEN Range(seeds) = ExpectedSeeds /\ IsInjective(seeds)
        ELSE seeds = <<>>

\* The comment on kMinForwardCosine: the implied direction of a pair must be
\* within the angle for the pair to be considered a plausible seed.
SeedsAreForwardGoing ==
    \A i \in DOMAIN seeds :
        WithinAngle(measurements[seeds[i][1] + 1], measurements[seeds[i][2] + 1])
===============================================================================
