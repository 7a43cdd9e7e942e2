----------------------- MODULE SpectrometerMeasurements -----------------------
(***************************************************************************)
(* SpectrometerMeasurements (include/detectors/spectrometer): the loop that *)
(* turns the straw-tube hits of a spill into measurements, each assigned   *)
(* to the nearest station, and into source links grouped by station.       *)
(*                                                                         *)
(* A hit has one transverse coordinate x, the beam coordinate z and a time; *)
(* any of them may be NaN.  Lengths and times are integers, which is enough *)
(* for the comparisons the code makes.  A measurement index is 0-based as  *)
(* in the code; the sequence `measurements' is 1-based.                    *)
(***************************************************************************)
EXTENDS Integers, Sequences, FiniteSets, SequencesExt

CONSTANTS NStations,   \* number of sensitive surfaces of the tracking geometry
          StationZ,    \* StationZ[s]: z of the centre of surface s
          ZWindow,     \* zWindowMm
          IndexRange,  \* number of values of ActsExamples::Index, 2^32
          Spills,      \* the hit vectors a spill may hold
          NaN

Stations == 1 .. NStations
Coordinate == Int \union {NaN}
Hit == [x : Coordinate, z : Coordinate, time : Coordinate]
Measurement == [station : Stations, x : Coordinate, z : Coordinate, time : Coordinate]
SourceLink == [station : Stations, index : 0 .. (IndexRange - 1)]

ASSUME StationAssumption == NStations \in Nat /\ StationZ \in [Stations -> Int]
ASSUME WindowAssumption == ZWindow \in Nat
ASSUME IndexAssumption == IndexRange \in Nat \ {0}
ASSUME SpillAssumption == \A hs \in Spills : hs \in Seq(Hit) /\ Len(hs) <= IndexRange
ASSUME NaNAssumption == NaN \notin Int

VARIABLES hits,         \* the hits of the spill
          next,         \* the hit the loop looks at
          measurements, \* m_measurements
          sourceLinks   \* m_sourceLinks, a multiset sorted by geometry id

\* IEEE comparison: false as soon as one side is NaN.
Less(a, b) == a # NaN /\ b # NaN /\ a < b
Minus(a, b) == IF a = NaN \/ b = NaN THEN NaN ELSE a - b
Magnitude(a) == IF a = NaN THEN NaN ELSE IF a < 0 THEN -a ELSE a

Dz(hit, s) == Magnitude(Minus(hit.z, StationZ[s]))

\* Stations whose surface is near enough for the hit.
InWindow(hit) == {s \in Stations : Less(Dz(hit, s), ZWindow)}

\* The nearest of them; of two equally near the one visited first.
BestStation(hit) ==
    CHOOSE s \in InWindow(hit) :
        \A u \in InWindow(hit) :
            Dz(hit, s) < Dz(hit, u) \/ (Dz(hit, s) = Dz(hit, u) /\ s <= u)

\* Bounds of the links of station s in a sorted sequence of links.
LowerBound(links, s) == Cardinality({i \in DOMAIN links : links[i].station < s})
UpperBound(links, s) == Cardinality({i \in DOMAIN links : links[i].station <= s})

\* flat_multiset::emplace: after the links of the same station.
InsertLink(links, l) == InsertAt(links, UpperBound(links, l.station) + 1, l)

\* selectModule: the equal range of one station.
SelectModule(links, s) == SubSeq(links, LowerBound(links, s) + 1, UpperBound(links, s))

StartBuild(hs) ==
    /\ hits = hs
    /\ next = 1
    /\ measurements = <<>>
    /\ sourceLinks = <<>>

\* The null surface is not tested for.
DropHit_NotTested ==
    /\ next <= Len(hits)
    /\ InWindow(hits[next]) = {}
    /\ LET h == hits[next]
       IN  measurements' = Append(measurements,
                                  [station |-> 0, x |-> h.x, z |-> h.z, time |-> h.time])
    /\ next' = next + 1
    /\ UNCHANGED <<hits, sourceLinks>>

\* The hit has no station within the window and is dropped.
DropHit ==
    /\ next <= Len(hits)
    /\ InWindow(hits[next]) = {}
    /\ next' = next + 1
    /\ UNCHANGED <<hits, measurements, sourceLinks>>

AcceptHit_IndexAfterPush ==
    /\ next <= Len(hits)
    /\ InWindow(hits[next]) # {}
    /\ LET h == hits[next]
           s == BestStation(h)
       IN  /\ measurements' = Append(measurements,
                                     [station |-> s, x |-> h.x, z |-> h.z, time |-> h.time])
           /\ sourceLinks' = InsertLink(sourceLinks,
                       [station |-> s, index |-> Len(measurements') % IndexRange])
    /\ next' = next + 1
    /\ UNCHANGED hits

\* The measurement is pushed and its index linked to the station.  The
\* tolerance of globalToLocal is the window again, so it cannot fail here.
AcceptHit ==
    /\ next <= Len(hits)
    /\ InWindow(hits[next]) # {}
    /\ LET h == hits[next]
           s == BestStation(h)
       IN  /\ measurements' = Append(measurements,
                                     [station |-> s, x |-> h.x, z |-> h.z, time |-> h.time])
           /\ sourceLinks' = InsertLink(sourceLinks,
                       [station |-> s, index |-> Len(measurements) % IndexRange])
    /\ next' = next + 1
    /\ UNCHANGED hits

Built == next > Len(hits)

-------------------------------------------------------------------------------
(* Properties *)

BuildTypeOK ==
    /\ hits \in Spills
    /\ next \in 1 .. (Len(hits) + 1)
    /\ measurements \in Seq(Measurement)
    /\ Len(measurements) < next
    /\ sourceLinks \in Seq(SourceLink)

\* Looking a measurement up through its source link, as the calibrator does,
\* gives the measurement of the station the link is filed under, and every
\* measurement has exactly one link.
LinksResolve ==
    /\ \A l \in Range(sourceLinks) :
          /\ l.index < Len(measurements)
          /\ measurements[l.index + 1].station = l.station
    /\ IsInjective(sourceLinks)
    /\ Len(sourceLinks) = Len(measurements)
===============================================================================
