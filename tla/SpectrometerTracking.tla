------------------------- MODULE SpectrometerTracking -------------------------
(***************************************************************************)
(* The whole spectrometer_tracking plugin for one spill: the seeds of       *)
(* SeedGeneration, and fit_seed, which phlex runs for every seed as soon as *)
(* the unfold has emitted it, any number of them at a time.  One fit is     *)
(*   - track finding: Acts' combinatorial Kalman filter carries branches    *)
(*     from station to station and extends each with the hits that          *)
(*     selectNearestMeasurement leaves over;                                *)
(*   - fitting: every branch with enough hits is refitted.                  *)
(* Where a branch crosses a station, how far it gets and whether a fit      *)
(* converges are decided by Acts and hence arbitrary here.                  *)
(***************************************************************************)
EXTENDS SeedGeneration

CONSTANTS MinHits,     \* kMinHitsPerTrack
          Predictions  \* predicted local positions of a branch at a station

ASSUME HitAssumption == MinHits \in Nat \ {0} /\ Predictions \subseteq Coordinate

VARIABLE fits  \* fits[k]: the fit_seed call for seeds[k]

trackingVars == <<vars, fits>>

\* A track state: the station whose surface it is on, the hit that was taken
\* there, if any, and what Acts and the calibrator have set of it.
Flags == {"measurement", "calibrated", "sourceLink", "smoothed"}
State == [station : Stations, index : Index \union {NoIndex}, flags : SUBSET Flags]
Branch == Seq(State)   \* in the order the stations were crossed
Track == [fitStatus : {0, 1}, refLoc : {"unset", "local", "global"}, hits : Seq(Index)]
Fit == [status : {"queued", "finding", "refitting", "done", "rejected"},
        active : Seq(Branch),          \* branches the filter still propagates
        found  : Seq(Branch),          \* branches it has finished
        candidates : Seq(Seq(Index)),  \* findCandidateHits: the hits of each
        next   : Nat,                  \* the candidate the loop of fit_seed is at
        tracks : Seq(Track),           \* the results so far
        failed : SUBSET (Nat \ {0})]   \* history: results whose fit had an error

Queued == [status |-> "queued", active |-> <<>>, found |-> <<>>,
           candidates |-> <<>>, next |-> 1, tracks |-> <<>>, failed |-> {}]

TrackingInit == Init /\ fits = <<>>

MeasurementOf(i) == measurements[i + 1]

\* The elements of a finite set by their rank: the k-th has k - 1 below it.
Ordered(S, rank) ==
    [k \in 1 .. Cardinality(S) |->
        CHOOSE x \in S : Cardinality({y \in S : rank[y] < rank[x]}) = k - 1]

\* What a loop over s collects when it passes over all but some positions.
Kept(s, positions) ==
    LET order == Ordered(positions, [i \in positions |-> i])
    IN  [i \in DOMAIN order |-> s[order[i]]]

\* Squared distance of the measurement behind a link from the prediction.
Dist2(link, p) ==
    LET d == Minus(p, MeasurementOf(link.index).x) IN IF d = NaN THEN NaN ELSE d * d

\* selectNearestMeasurement: the first of the nearest candidates; when no
\* distance compares, `best' is still the first candidate.
Nearest(links, p) ==
    LET near == {i \in DOMAIN links : Dist2(links[i], p) # NaN}
        closest == {i \in near : \A j \in near : Dist2(links[i], p) <= Dist2(links[j], p)}
    IN  IF near = {} THEN 1 ELSE Min(closest)

\* Every candidate is left over.
Selected_All(links, p) == links

\* One of the candidates is left over, if there is any.
Selected(links, p) == IF links = <<>> THEN <<>> ELSE <<links[Nearest(links, p)]>>

Calibrate_WithoutLink(state) == [state EXCEPT !.flags = @ \union {"calibrated"}]

\* calibrator: the measurement is stored in the state, and the link with it.
Calibrate(state) == [state EXCEPT !.flags = @ \union {"calibrated", "sourceLink"}]

Measured(s, i) == Calibrate([station |-> s, index |-> i, flags |-> {"measurement"}])
Hole(s) == [station |-> s, index |-> NoIndex, flags |-> {}]

\* The branches a branch becomes at station s: one for every selected candidate,
\* or one with a hole when the station has no hit.
Extend(b, s, p) ==
    LET chosen == Selected(SelectModule(sourceLinks, s), p)
    IN  IF chosen = <<>> THEN <<Append(b, Hole(s))>>
        ELSE [i \in DOMAIN chosen |-> Append(b, Measured(s, chosen[i].index))]

\* The hits of a branch as findCandidateHits collects them, from its tip back.
CandidateHits(b) ==
    LET back == Reverse(b)
        usable == Kept(back, {i \in DOMAIN back :
                                {"measurement", "sourceLink"} \subseteq back[i].flags})
    IN  [i \in DOMAIN usable |-> usable[i].index]

\* The states that count as measurements of the fit.
FittedHits(states) ==
    LET kept == Kept(states,
                     {i \in DOMAIN states :
                        {"measurement", "calibrated", "smoothed"} \subseteq states[i].flags})
    IN  [i \in DOMAIN kept |-> kept[i].index]

\* The error is not looked at.
FromACTSFitResult_Unchecked(ok, hasReferenceSurface, states) ==
    [fitStatus |-> 0,
     refLoc |-> IF hasReferenceSurface THEN "global" ELSE "local",
     hits |-> FittedHits(states)]

\* fromACTSFitResult, of the states of the fit from the last station back.  After
\* an error only the status is set.
FromACTSFitResult(ok, hasReferenceSurface, states) ==
    IF ~ok THEN [fitStatus |-> 1, refLoc |-> "unset", hits |-> <<>>]
    ELSE [fitStatus |-> 0,
          refLoc |-> IF hasReferenceSurface THEN "global" ELSE "local",
          hits |-> FittedHits(states)]

\* The Kalman fitter looks the measurement of a surface up when it crosses it:
\* of two hits on one surface it knows the first.
StatesOfFit(hs) ==
    LET StationAt(i) == MeasurementOf(hs[i]).station
        first == {i \in DOMAIN hs : \A j \in 1 .. (i - 1) : StationAt(j) # StationAt(i)}
        order == Ordered(first, [i \in first |-> -StationZ[StationAt(i)]])
    IN  [i \in DOMAIN order |-> Measured(StationAt(order[i]), hs[order[i]])]

\* The states of a fit that has not failed are smoothed; some may turn out outliers
\* or stay unsmoothed.
Smoothed(states, some, flag) ==
    [i \in DOMAIN states |->
        [states[i] EXCEPT !.flags = (@ \union {"smoothed"}) \ (IF i \in some THEN {flag} ELSE {})]]

\* normalized() of the difference of two positions is finite: a coordinate that
\* is missing stays missing, whether the difference is divided or not.
HasDirection(m0, m1) == Minus(m1.x, m0.x) # NaN /\ Minus(m1.z, m0.z) # NaN

\* The direction is not tested for.
SeedFromHitPair_Unchecked(m0, m1) == {[surface |-> m0.station, loc |-> m0.x]}

\* makeSeedFromHitPair: at the first hit, on its surface; none without direction.
SeedFromHitPair(m0, m1) ==
    IF HasDirection(m0, m1) THEN {[surface |-> m0.station, loc |-> m0.x]} ELSE {}

\* The checks of fit_seed, then the filter at the surface it starts from, where
\* the prediction is the seed's own position.
StartFit(k) ==
    /\ fits[k].status = "queued"
    /\ LET seed == SeedFromHitPair(MeasurementOf(seeds[k][1]), MeasurementOf(seeds[k][2]))
       IN  \/ /\ seed = {}
              /\ fits' = [fits EXCEPT ![k].status = "rejected"]
           \/ \E start \in seed :
                 fits' = [fits EXCEPT ![k].status = "finding",
                                      ![k].active = Extend(<<>>, start.surface, start.loc)]

\* The newest active branch crosses a station further downstream.
CrossStation(k) ==
    /\ fits[k].status = "finding"
    /\ fits[k].active # <<>>
    /\ LET b == Last(fits[k].active)
       IN  \E s \in {u \in Stations : StationZ[u] > StationZ[Last(b).station]}, p \in Predictions :
              fits' = [fits EXCEPT ![k].active = Front(@) \o Extend(b, s, p)]

\* It leaves the detector or runs out of steps.
StopBranch(k) ==
    /\ fits[k].status = "finding"
    /\ fits[k].active # <<>>
    /\ fits' = [fits EXCEPT ![k].found = Append(@, Last(fits[k].active)), ![k].active = Front(@)]

\* The fit is queued again after an error, for ever.
FindingFails_Retries(k) ==
    /\ fits[k].status = "finding"
    /\ fits' = [fits EXCEPT ![k] = Queued]

\* findTracks reports an error: no candidate at all.
FindingFails(k) ==
    /\ fits[k].status = "finding"
    /\ fits' = [fits EXCEPT ![k].status = "refitting", ![k].active = <<>>, ![k].found = <<>>]

\* The hits of every branch are read off its states; a branch without any is
\* no candidate.
FindingEnds(k) ==
    /\ fits[k].status = "finding"
    /\ fits[k].active = <<>>
    /\ LET all == [i \in DOMAIN fits[k].found |-> CandidateHits(fits[k].found[i])]
       IN  fits' = [fits EXCEPT ![k].status = "refitting",
                                ![k].candidates = Kept(all, {i \in DOMAIN all : all[i] # <<>>})]

Candidate(k) == fits[k].candidates[fits[k].next]
InLoop(k) == fits[k].status = "refitting" /\ fits[k].next <= Len(fits[k].candidates)

\* Too few hits: the candidate is passed over.
SkipCandidate(k) ==
    /\ InLoop(k)
    /\ Len(Candidate(k)) < MinHits
    /\ fits' = [fits EXCEPT ![k].next = @ + 1]

\* refit, with the surface of the seed as reference.
Refit(k) ==
    /\ InLoop(k)
    /\ Len(Candidate(k)) >= MinHits
    /\ LET states == StatesOfFit(Candidate(k))
       IN  \E ok \in BOOLEAN, some \in SUBSET DOMAIN states, flag \in {"measurement", "smoothed"} :
              fits' = [fits EXCEPT
                  ![k].next = @ + 1,
                  ![k].tracks =
                      Append(@, FromACTSFitResult(ok, TRUE, Smoothed(states, some, flag))),
                  ![k].failed = IF ok THEN @ ELSE @ \union {Len(fits[k].tracks) + 1}]

EndFit(k) ==
    /\ fits[k].status = "refitting"
    /\ fits[k].next > Len(fits[k].candidates)
    /\ fits' = [fits EXCEPT ![k].status = "done"]

FitStep(k) ==
    /\ \/ StartFit(k)
       \/ CrossStation(k) \/ StopBranch(k) \/ FindingFails(k) \/ FindingEnds(k)
       \/ SkipCandidate(k) \/ Refit(k) \/ EndFit(k)
    /\ UNCHANGED vars

\* A step of the earlier stages; a seed it emits becomes a fit to be run.
SeedStep ==
    /\ MissingGeometry \/ BuildStep \/ StartUnfold \/ EmitSeed \/ EndUnfold
    /\ fits' = fits \o [i \in 1 .. (Len(seeds') - Len(seeds)) |-> Queued]

SpillDone ==
    /\ stage = "done"
    /\ \A k \in DOMAIN fits : fits[k].status \in {"done", "rejected"}

TrackingFinished == SpillDone /\ UNCHANGED trackingVars

TrackingNext == SeedStep \/ (\E k \in DOMAIN fits : FitStep(k)) \/ TrackingFinished

TrackingSpec == TrackingInit /\ [][TrackingNext]_trackingVars

\* The pool always runs one of the tasks that can run.
FairTrackingSpec ==
    /\ TrackingSpec
    /\ WF_trackingVars(SeedStep)
    /\ WF_trackingVars(\E k \in DOMAIN fits : FitStep(k))

-------------------------------------------------------------------------------
(* Properties *)

TrackingTypeOK ==
    /\ TypeOK
    /\ fits \in Seq(Fit)
    /\ Len(fits) = Len(seeds)

StationOf(i) == MeasurementOf(i).station

StationsOf(hs) == {StationOf(hs[i]) : i \in DOMAIN hs}
Backwards(hs) ==
    \A i, j \in DOMAIN hs : i < j => StationZ[StationOf(hs[i])] > StationZ[StationOf(hs[j])]

\* The stations with hits that a branch has crossed.
Met(b) == {b[i].station : i \in DOMAIN b} \ {s \in Stations : SelectModule(sourceLinks, s) = <<>>}

\* What findCandidateHits reads off the states: for every branch that has met a
\* station with hits there is a candidate, in the order of the branches, with one
\* hit of each such station from the last to the first.  A state whose link the
\* calibrator had not set would silently be left out, and of two hits on one
\* surface the refit would silently lose one.
CandidatesAreWhole ==
    \A k \in DOMAIN fits :
        LET found == fits[k].found
            withHits == Kept(found, {i \in DOMAIN found : Met(found[i]) # {}})
            candidates == fits[k].candidates
        IN  fits[k].status \in {"refitting", "done"} =>
                /\ Len(candidates) = Len(withHits)
                /\ \A i \in DOMAIN candidates :
                      StationsOf(candidates[i]) = Met(withHits[i]) /\ Backwards(candidates[i])

\* What fit_seed hands on: the results are those of the candidates with enough
\* hits, one each and in their order, a failed fit included.  Its status tells it
\* apart, and it has no measurement and no reference position to take for fitted
\* ones; a successful one has a global reference and only hits of its own
\* candidate, from the last station to the first.
ResultsFollowCandidates ==
    \A k \in DOMAIN fits :
        LET tracks == fits[k].tracks
            candidates == fits[k].candidates
            fitted == Kept(candidates, {i \in 1 .. (fits[k].next - 1) :
                                          Cardinality(StationsOf(candidates[i])) >= MinHits})
        IN  /\ Len(tracks) = Len(fitted)
            /\ \A i \in DOMAIN tracks :
                  /\ Range(tracks[i].hits) \subseteq Range(fitted[i])
                  /\ Backwards(tracks[i].hits)
                  /\ IF i \in fits[k].failed
                     THEN tracks[i] = [fitStatus |-> 1, refLoc |-> "unset", hits |-> <<>>]
                     ELSE tracks[i].fitStatus = 0 /\ tracks[i].refLoc = "global"

\* The selector collapses the branching: a seed gives at most one track, and
\* the filter never holds more than one branch of it.
OneTrackPerSeed ==
    \A k \in DOMAIN fits :
        /\ Len(fits[k].active) + Len(fits[k].found) <= 1
        /\ Len(fits[k].tracks) <= 1

\* What the cut on the angle promises holds only of the cut and the check of
\* the direction together.  A pair without a transverse coordinate passes the cut
\* at any angle; fit_seed, once it has looked at a seed, has turned away exactly
\* those, so every seed that reaches the filter is within the angle.
OnlyForwardPairsAreFitted ==
    \A k \in DOMAIN fits :
        fits[k].status # "queued" =>
            (fits[k].status # "rejected"
                <=> WithinAngle(MeasurementOf(seeds[k][1]), MeasurementOf(seeds[k][2])))

\* Every spill gets to the end of its last fit.
SpillCompletes == <>SpillDone

\* The header of SpectrometerCkf.hpp: no measurement-selector cut yet, every
\* candidate at a surface is kept.  So, of a branch that took one of the hits of
\* a station, there is a sibling for each other hit.
EveryCandidateIsKept ==
    \A k \in DOMAIN fits :
        LET branches == Range(fits[k].active) \union Range(fits[k].found)
        IN  fits[k].status = "finding" =>
            \A b \in branches : \A i \in DOMAIN b :
                \A l \in Range(SelectModule(sourceLinks, b[i].station)) :
                    \E other \in branches :
                        IsPrefix(Append(SubSeq(b, 1, i - 1), Measured(b[i].station, l.index)), other)
===============================================================================
