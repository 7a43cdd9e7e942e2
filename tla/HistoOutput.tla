------------------------------ MODULE HistoOutput ------------------------------
(***************************************************************************)
(* The validation histograms of rec_output_module: one histogrammer per     *)
(* subdetector, observers with concurrency::unlimited, one HistoFileService *)
(* they share.                                                             *)
(*                                                                         *)
(* A thread fills through contexts of its own, one for each histogram, made *)
(* in its first call of a histogrammer.  A fill increments the bin          *)
(* of the shared histogram atomically, but the number of entries and the    *)
(* moments stay in the context until it is destroyed (ROOT).  The           *)
(* destructor of a histogrammer destroys its contexts, then puts its        *)
(* histograms into the file; the last one to go closes the file.            *)
(*                                                                         *)
(* An observer call gets one product or, for the simulation truth, two; for *)
(* each the histogrammer has a multiplicity histogram, filled once, and     *)
(* coordinate histograms, filled once per element.  What the bins hold is   *)
(* abstracted to how often they were incremented, flow bins included.       *)
(***************************************************************************)
EXTENDS Integers, Sequences, FiniteSets, FiniteSetsExt, SequencesExt, Functions

CONSTANTS Threads,        \* threads of the TBB pool
          Histogrammers,  \* those of the instance, by their subdetector
          Calls,          \* observer calls the framework makes
          TargetOf,       \* TargetOf[c]: the histogrammer of call c
          Sizes,          \* Sizes[c]: the size of each product of call c
          SpillOf,        \* SpillOf[c]: the event the products of call c are from
          MaxFaults,      \* bound: histograms that cannot be written
          MaxContextFaults, \* bound: contexts that cannot be made
          NoCall, NoHistogrammer

\* For each product of a call, its multiplicity histogram and coordinate ones.
Group(count, coords) == [count |-> count, coords |-> coords]
SpectrometerGroups ==
    << Group("h_spectrometer_track_multiplicity", <<"h_ref_x", "h_ref_y", "h_ref_z">>) >>
UpstreamTaggerGroups == << Group("h_upstream_tagger_multiplicity", <<>>) >>
SurroundTaggerGroups == << Group("h_surround_tagger_multiplicity", <<>>) >>
CalorimeterGroups    == << Group("h_calorimeter_multiplicity", <<>>) >>
TimingDetectorGroups == << Group("h_timing_detector_multiplicity", <<>>) >>
SimTruthGroups ==
    << Group("h_sim_hit_multiplicity", <<"h_sim_hit_x", "h_sim_hit_y", "h_sim_hit_z">>),
       Group("h_sim_particle_multiplicity",
             <<"h_sim_particle_vtx_x", "h_sim_particle_vtx_y", "h_sim_particle_vtx_z">>) >>
Groups ==
    [spectrometer    |-> SpectrometerGroups,
     upstream_tagger |-> UpstreamTaggerGroups,
     surround_tagger |-> SurroundTaggerGroups,
     calorimeter     |-> CalorimeterGroups,
     timing_detector |-> TimingDetectorGroups,
     sim_truth       |-> SimTruthGroups]

\* The histograms of g in the order its destructor puts them.
HistsOf(g) ==
    [i \in DOMAIN Groups[g] |-> Groups[g][i].count] \o
    FlattenSeq([i \in DOMAIN Groups[g] |-> Groups[g][i].coords])
Hists == UNION {Range(HistsOf(g)) : g \in Histogrammers}

\* No two histograms share a name in the file, and there is a histogrammer: the
\* service is made together with theirs.
ASSUME GroupAssumption ==
    /\ Histogrammers \subseteq DOMAIN Groups /\ Histogrammers # {}
    /\ \A g \in DOMAIN Groups : IsInjective(HistsOf(g))
    /\ \A g, h \in DOMAIN Groups : g # h => Range(HistsOf(g)) \intersect Range(HistsOf(h)) = {}
ASSUME CallAssumption ==
    /\ IsFiniteSet(Calls) /\ IsFiniteSet(Threads)
    /\ TargetOf \in [Calls -> Histogrammers]
    /\ \A c \in Calls : Sizes[c] \in [DOMAIN Groups[TargetOf[c]] -> Nat]
ASSUME FaultAssumption == MaxFaults \in Nat /\ MaxContextFaults \in Nat
ASSUME NullAssumption == NoCall \notin Calls /\ NoHistogrammer \notin Histogrammers

VARIABLES
    pending,   \* calls the framework has not started
    cur,       \* the call each thread executes
    completed, \* calls that have returned
    todo,      \* todo[t]: histograms its call has still to fill, in order
    contexts,  \* contexts[t]: the histograms t has a fill context for
    throws,    \* calls that ended in an exception
    bins,      \* bins[h]: increments of the shared histogram h
    buffered,  \* buffered[t][h]: statistics in the context of t
    entries,   \* entries[h]: statistics that reached the histogram
    alive,     \* histogrammers that exist, each with a reference to the file
    dying,     \* the one being destroyed
    puts,      \* histograms its destructor has still to put, in order
    file,      \* what is in the file, a function on the histograms written
    open,      \* the HistoFileService exists
    faults     \* history: the histograms whose put failed

filling == <<pending, cur, completed, todo, contexts, throws, bins, buffered>>
ending  == <<alive, dying, puts, file, open, faults>>
vars    == <<filling, entries, ending>>

Stored == [bins : Nat, entries : Nat]

TypeOK ==
    /\ pending \subseteq Calls
    /\ cur \in [Threads -> Calls \union {NoCall}]
    /\ completed \subseteq Calls
    /\ todo \in [Threads -> Seq(Hists)]
    /\ contexts \in [Threads -> SUBSET Hists]
    /\ throws \in 0 .. MaxContextFaults
    /\ bins \in [Hists -> Nat]
    /\ buffered \in [Threads -> [Hists -> Nat]]
    /\ entries \in [Hists -> Nat]
    /\ alive \subseteq Histogrammers
    /\ dying \in alive \union {NoHistogrammer}
    /\ puts \in Seq(Hists)
    /\ DOMAIN file \subseteq Hists
    /\ \A h \in DOMAIN file : file[h] \in Stored
    /\ open = (alive # {})
    /\ faults \subseteq Hists

Init ==
    /\ pending = Calls
    /\ cur = [t \in Threads |-> NoCall]
    /\ completed = {}
    /\ todo = [t \in Threads |-> <<>>]
    /\ contexts = [t \in Threads |-> {}]
    /\ throws = 0
    /\ bins = [h \in Hists |-> 0]
    /\ buffered = [t \in Threads |-> [h \in Hists |-> 0]]
    /\ entries = [h \in Hists |-> 0]
    /\ alive = Histogrammers
    /\ dying = NoHistogrammer
    /\ puts = <<>>
    /\ file = <<>>
    /\ open = TRUE
    /\ faults = {}

-------------------------------------------------------------------------------
(* Observer calls *)

\* The fills of an observe() in their order.
FillsOf(c) ==
    LET g == TargetOf[c]
    IN  FlattenSeq([i \in DOMAIN Sizes[c] |->
            <<Groups[g][i].count>> \o
            FlattenSeq([n \in 1 .. Sizes[c][i] |-> Groups[g][i].coords])])

CanObserve(t, c) ==
    /\ c \in pending
    /\ cur[t] = NoCall
    /\ alive = Histogrammers /\ dying = NoHistogrammer

\* ensure_contexts tests the first context only and makes all of them, in the
\* order of the puts.
Needed(t, g) == IF HistsOf(g)[1] \in contexts[t] THEN << >> ELSE HistsOf(g)

\* The framework calls observe() on some thread.
StartObserve(t, c) ==
    /\ CanObserve(t, c)
    /\ pending' = pending \ {c}
    /\ cur' = [cur EXCEPT ![t] = c]
    /\ todo' = [todo EXCEPT ![t] = FillsOf(c)]
    /\ contexts' = [contexts EXCEPT ![t] = @ \union Range(Needed(t, TargetOf[c]))]
    /\ UNCHANGED <<completed, throws, bins, buffered, entries, ending>>

\* The exception ends the call only, the job goes on.
StartObserveFails_JobGoesOn(t, c) ==
    /\ CanObserve(t, c)
    /\ throws < MaxContextFaults
    /\ throws' = throws + 1
    /\ \E n \in 0 .. (Len(Needed(t, TargetOf[c])) - 1) :
          contexts' = [contexts EXCEPT ![t] = @ \union Range(SubSeq(Needed(t, TargetOf[c]), 1, n))]
    /\ pending' = pending \ {c}
    /\ UNCHANGED <<cur, completed, todo, bins, buffered, entries, ending>>

\* A context cannot be made: those before it stay, the exception ends the call
\* and the job.
StartObserveFails(t, c) ==
    /\ CanObserve(t, c)
    /\ throws < MaxContextFaults
    /\ throws' = throws + 1
    /\ \E n \in 0 .. (Len(Needed(t, TargetOf[c])) - 1) :
          contexts' = [contexts EXCEPT ![t] = @ \union Range(SubSeq(Needed(t, TargetOf[c]), 1, n))]
    /\ pending' = {}
    /\ UNCHANGED <<cur, completed, todo, bins, buffered, entries, ending>>

\* RHistFillContext::Fill
FillHist(t) ==
    /\ todo[t] # <<>>
    /\ LET h == Head(todo[t])
       IN  /\ bins' = [bins EXCEPT ![h] = @ + 1]
           /\ buffered' = [buffered EXCEPT ![t][h] = @ + 1]
    /\ todo' = [todo EXCEPT ![t] = Tail(@)]
    /\ UNCHANGED <<pending, cur, completed, contexts, throws, entries, ending>>

EndObserve(t) ==
    /\ cur[t] # NoCall
    /\ todo[t] = <<>>
    /\ cur' = [cur EXCEPT ![t] = NoCall]
    /\ completed' = completed \union {cur[t]}
    /\ UNCHANGED <<pending, todo, contexts, throws, bins, buffered, entries, ending>>

\* A node threw somewhere in the graph: the framework starts no further call.
AbortJob ==
    /\ pending # {}
    /\ pending' = {}
    /\ UNCHANGED <<cur, completed, todo, contexts, throws, bins, buffered, entries, ending>>

ThreadStep(t) ==
    \/ \E c \in Calls : StartObserve(t, c) \/ StartObserveFails(t, c)
    \/ FillHist(t)
    \/ EndObserve(t)

-------------------------------------------------------------------------------
(* Destruction, on the main thread, after the last call, in any order. *)

Quiescent == pending = {} /\ \A t \in Threads : cur[t] = NoCall

\* The contexts are left to the destructor of the member, after the puts.
BeginDestructor_WithoutClear(g) ==
    /\ Quiescent
    /\ g \in alive
    /\ dying = NoHistogrammer
    /\ dying' = g
    /\ puts' = HistsOf(g)
    /\ UNCHANGED <<filling, entries, alive, file, open, faults>>

\* fill_contexts_.clear(): the contexts hand over their statistics.
BeginDestructor(g) ==
    /\ Quiescent
    /\ g \in alive
    /\ dying = NoHistogrammer
    /\ dying' = g
    /\ puts' = HistsOf(g)
    /\ LET flushed(h) == h \in Range(HistsOf(g))
       IN  /\ entries' = [h \in Hists |-> IF flushed(h)
                THEN entries[h] + MapThenSumSet(LAMBDA t : buffered[t][h], {t \in Threads : h \in contexts[t]})
                ELSE entries[h]]
           /\ buffered' = [t \in Threads |-> [h \in Hists |-> IF flushed(h)
                THEN 0 ELSE buffered[t][h]]]
    /\ contexts' = [t \in Threads |-> contexts[t] \ Range(HistsOf(g))]
    /\ UNCHANGED <<pending, cur, completed, todo, throws, bins, alive, file, open, faults>>

\* HistoFileService::put.  On a closed file it would throw, and swallow that.
Put ==
    /\ puts # <<>>
    /\ LET h == Head(puts)
       IN  file' = IF open
                   THEN [x \in DOMAIN file \union {h} |->
                            IF x = h THEN [bins |-> bins[h], entries |-> entries[h]] ELSE file[x]]
                   ELSE file
    /\ puts' = Tail(puts)
    /\ UNCHANGED <<filling, entries, alive, dying, open, faults>>

\* The exception leaves the destructor of the histogrammer.
PutFails_AbandonsTheRest ==
    /\ puts # <<>>
    /\ Cardinality(faults) < MaxFaults
    /\ faults' = faults \union {Head(puts)}
    /\ puts' = <<>>
    /\ UNCHANGED <<filling, entries, alive, dying, file, open>>

\* put catches the exception and logs it: the destructor goes on with the next.
PutFails ==
    /\ puts # <<>>
    /\ Cardinality(faults) < MaxFaults
    /\ faults' = faults \union {Head(puts)}
    /\ puts' = Tail(puts)
    /\ UNCHANGED <<filling, entries, alive, dying, file, open>>

\* The reference to the file is lost, the histogrammer never goes.
EndDestructor_LeaksLast ==
    /\ dying # NoHistogrammer
    /\ puts = <<>>
    /\ alive' = IF Cardinality(alive) = 1 THEN alive ELSE alive \ {dying}
    /\ dying' = NoHistogrammer
    /\ open' = (alive' # {})
    /\ UNCHANGED <<filling, entries, puts, file, faults>>

\* Releases the shared_ptr; the last one closes the file.
EndDestructor ==
    /\ dying # NoHistogrammer
    /\ puts = <<>>
    /\ alive' = alive \ {dying}
    /\ dying' = NoHistogrammer
    /\ open' = (alive' # {})
    /\ UNCHANGED <<filling, entries, puts, file, faults>>

MainStep ==
    \/ \E g \in Histogrammers : BeginDestructor(g)
    \/ Put \/ PutFails
    \/ EndDestructor

Finished == ~open /\ UNCHANGED vars

Next == MainStep \/ AbortJob \/ (\E t \in Threads : ThreadStep(t)) \/ Finished

Fairness == WF_vars(MainStep) /\ \A t \in Threads : WF_vars(ThreadStep(t))
Spec == Init /\ [][Next]_vars
FairSpec == Spec /\ Fairness

-------------------------------------------------------------------------------
(* Properties *)

\* What call c contributes to histogram h of its histogrammer: the multiplicity
\* counts the call, a coordinate every element of its product.
Weight(c, h) ==
    LET groups == Groups[TargetOf[c]]
        i == CHOOSE j \in DOMAIN groups : h = groups[j].count \/ h \in Range(groups[j].coords)
    IN  IF h = groups[i].count THEN 1 ELSE Sizes[c][i]

Expected(h) ==
    MapThenSumSet(LAMBDA c : Weight(c, h),
                  {c \in completed : h \in Range(HistsOf(TargetOf[c]))})

\* What is in the file is final: bins and number of entries are those of all
\* completed calls, although part of them waited in the contexts of threads.
FileIsExact ==
    \A h \in DOMAIN file : file[h] = [bins |-> Expected(h), entries |-> Expected(h)]

\* No call fills through a context its thread does not have, although a thread
\* with the first context of a histogrammer is taken to have all: the set that a
\* failed call has left half-made is never used.
FillsHaveContexts == \A t \in Threads : Range(todo[t]) \subseteq contexts[t]

\* It does not matter which histogrammer is torn down last: the closed file has
\* every histogram, except just those whose own put failed.
ClosedFileIsComplete == ~open => Hists \ DOMAIN file = faults

\* The last histogrammer to go closes the file: no reference to it is left.
Closes == <>(~open)

\* The multiplicity histograms are titled "... per event;N;Events": after a job
\* without failures each holds one entry per event.
MultiplicityIsPerEvent ==
    ~open /\ faults = {} /\ completed = Calls =>
        \A g \in Histogrammers : \A i \in DOMAIN Groups[g] :
            file[Groups[g][i].count].bins = Cardinality({SpillOf[c] : c \in Calls})
===============================================================================
