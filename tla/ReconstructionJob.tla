--------------------------- MODULE ReconstructionJob ---------------------------
(***************************************************************************)
(* A whole job: the nodes of all plugins of a workflow (run_reconstruction  *)
(* or smoke), wired by the creator, layer and suffix that the code of each  *)
(* spells out on its own, with rec_output registered as in RecOutput.       *)
(*                                                                         *)
(* phlex calls a node once for each data cell of the deepest layer of its   *)
(* inputs, as soon as each input has been made for the cell or for one that *)
(* contains it, and ends when no call is left.  Here a call is one step:    *)
(* what happens inside is in the module of its component.                   *)
(*                                                                         *)
(* Chains of nodes from different hit types meet in nothing but the output: *)
(* a behaviour follows those of one set of hit types, a slice.              *)
(***************************************************************************)
EXTENDS RecOutput, Integers, FiniteSets, SequencesExt

CONSTANTS NSpills,   \* driver: spills of the job
          MaxSeeds,  \* bound: seeds of a spill
          NTracks,   \* NTracks[e]: tracks of event e in the input file
          Slices     \* Slices[mode]: the sets of hit types to follow

ASSUME JobAssumption == NSpills \in Nat /\ MaxSeeds \in Nat /\ NTracks \in Seq(1 .. 3)

-------------------------------------------------------------------------------
(* The input file *)

Detectors == {"UpstreamTagger", "SurroundTagger", "StrawTubes", "Calorimeter", "TimingDetector"}
StrawStations == 1 .. 4

Particles == {p \in (DOMAIN NTracks) \X (0 .. 2) : p[2] < NTracks[p[1]]}

\* The hits a track leaves in a detector: one, or one in each station.
HitsIn(d) == Particles \X {d} \X (IF d = "StrawTubes" THEN StrawStations ELSE {0})

\* The RNTuples of the file, as make_test_input writes them.
InputFile ==
    [sim_particles        |-> Particles,
     sim_hits             |-> UNION {HitsIn(d) : d \in Detectors},
     ubt_hits             |-> HitsIn("UpstreamTagger"),
     sbt_hits             |-> HitsIn("SurroundTagger"),
     straw_tubes_hits     |-> HitsIn("StrawTubes"),
     calorimeter_hits     |-> HitsIn("Calorimeter"),
     timing_detector_hits |-> HitsIn("TimingDetector")]

-------------------------------------------------------------------------------
(* The nodes before the output.  The product of a node is named by the node,  *)
(* by the layer it runs at and by a suffix.                                  *)

Detector == Selector("tracking_geometry", "job", "detector")
Field    == Selector("spectrometer_field", "job", "field")
DigitisedHits(suffix) == Selector("rntuple_source", "spill", suffix)

Transform(name, layer, inputs, suffix) ==
    [name |-> name, inputs |-> inputs, output |-> Selector(name, layer, suffix)]

\* Registered for the suffix of the input once more.
CalorimeterReco_InputSuffix ==
    Transform("calorimeter_reco", "spill", {DigitisedHits("calorimeter_hits")}, "calorimeter_hits")

CalorimeterReco ==
    Transform("calorimeter_reco", "spill", {DigitisedHits("calorimeter_hits")}, "calorimeter_reco")
UpstreamTaggerReco ==
    Transform("upstream_tagger_reco", "spill", {DigitisedHits("ubt_hits")}, "upstream_tagger_reco")
SurroundTaggerReco ==
    Transform("surround_tagger_reco", "spill", {DigitisedHits("sbt_hits")}, "surround_tagger_reco")
TimingDetectorReco ==
    Transform("timing_detector_reco", "spill", {DigitisedHits("timing_detector_hits")},
              "timing_detector_reco")
Copies == {CalorimeterReco, UpstreamTaggerReco, SurroundTaggerReco, TimingDetectorReco}

PrepareMeasurements ==
    Transform("prepare_measurements", "spill",
              {DigitisedHits("straw_tubes_hits"), Detector, Field}, "spill_context")
GenerateSeeds ==
    Transform("generate_seeds", "seed",
              {Selector("prepare_measurements", "spill", "spill_context")}, "seed_hit_pair")
FitSeed ==
    Transform("fit_seed", "seed", {Selector("generate_seeds", "seed", "seed_hit_pair")},
              "track_fit_result")

-------------------------------------------------------------------------------

VARIABLES slice,    \* the hit types followed
          hits,     \* hits[suffix]: the vector its provider holds
          store,    \* the products made: [product, cell, value]
          children, \* children[cell]: seeds of the spill, once it is unfolded
          calls,    \* the observer calls made: [node, cell, got]
          status    \* of the job

jobVars == <<slice, hits, store, children, calls, status>>
allVars == <<vars, jobVars>>

\* The data cells: the job, its spills, their seeds.
Spill == {<<i>> : i \in 1 .. NSpills}
SeedsOf(cell) == {Append(cell, k) : k \in 1 .. children[cell]}
Cells(layer) ==
    CASE layer = "job"   -> {<<>>}
      [] layer = "spill" -> Spill
      [] layer = "seed"  -> UNION {SeedsOf(cell) : cell \in DOMAIN children}

\* The layer a node runs at.
LayerOf(inputs) ==
    LET layers == {p.layer : p \in inputs}
    IN  IF "seed" \in layers THEN "seed" ELSE IF "spill" \in layers THEN "spill" ELSE "job"

\* What was made of a product for a cell or for one that contains it.
Made(p, cell) == {r \in store : r.product = p /\ IsPrefix(r.cell, cell)}
ValueOf(p, cell) == (CHOOSE r \in Made(p, cell) : TRUE).value

Provided(p, cell) == \E r \in store : r.product = p /\ r.cell = cell
Ready(node, cell) ==
    /\ cell \in Cells(LayerOf(node.inputs))
    /\ \A p \in node.inputs : Made(p, cell) # {}
Waiting(node, cell) == Ready(node, cell) /\ ~Provided(node.output, cell)

HitTypes == {"ubt_hits", "sbt_hits", "straw_tubes_hits", "calorimeter_hits", "timing_detector_hits"}
            \union (IF config.isSim THEN {"sim_hits", "sim_particles"} ELSE {})

\* The hit type a product of the output is made from.
OriginOf(p) ==
    IF p = Tracks THEN "straw_tubes_hits"
    ELSE IF p \in SimProducts THEN p.suffix
    ELSE CHOOSE s \in DOMAIN InputFile :
            \E n \in Copies : n.name = p.creator /\ n.inputs = {DigitisedHits(s)}

Followed(node) == {p \in node.inputs : OriginOf(p) \in slice}
Observers == {node \in Range(nodes) : Followed(node) # {}}

Called(node, cell) == \E c \in calls : c.node = node.name /\ c.cell = cell
CanCall(node, cell) ==
    /\ cell \in Cells(LayerOf(node.inputs))
    /\ \A p \in Followed(node) : Made(p, cell) # {}
    /\ ~Called(node, cell)

Make(p, cell, value) == store' = store \union {[product |-> p, cell |-> cell, value |-> value]}

JobInit ==
    /\ Init
    /\ slice \in Slices[config.mode]
    /\ hits = InputFile
    /\ store = {}
    /\ children = [cell \in {} |-> 0]
    /\ calls = {}
    /\ status = "running"

Running == Registered /\ status = "running"

\* The steps of RecOutput.
Registration ==
    /\ RejectMode \/ RejectClash \/ MakeNoop \/ MakeWriter \/ MakeHistoFile \/ RegisterNode \/ CannotOpen
    /\ UNCHANGED jobVars

\* The vector is moved into the product.
ReadHits_Moves(suffix, cell) ==
    /\ Running
    /\ suffix \in slice
    /\ ~Provided(DigitisedHits(suffix), cell)
    /\ Make(DigitisedHits(suffix), cell, hits[suffix])
    /\ hits' = [hits EXCEPT ![suffix] = {}]
    /\ UNCHANGED <<slice, children, calls, status>>

\* read_<suffix>: a copy of all hits of the file, for every spill.
ReadHits(suffix, cell) ==
    /\ Running
    /\ suffix \in slice
    /\ ~Provided(DigitisedHits(suffix), cell)
    /\ Make(DigitisedHits(suffix), cell, hits[suffix])
    /\ UNCHANGED <<slice, hits, children, calls, status>>

\* read_tracking_geometry and read_field.
ReadConditions(p) ==
    /\ Running
    /\ "straw_tubes_hits" \in slice
    /\ ~Provided(p, <<>>)
    /\ Make(p, <<>>, p.suffix)
    /\ UNCHANGED <<slice, hits, children, calls, status>>

\* An identity transform.
CopyHits(node, cell) ==
    /\ Running
    /\ Waiting(node, cell)
    /\ \E p \in node.inputs : Make(node.output, cell, ValueOf(p, cell))
    /\ UNCHANGED <<slice, hits, children, calls, status>>

\* One context for the spill, with the measurements of its hits.
Prepare(cell) ==
    /\ Running
    /\ Waiting(PrepareMeasurements, cell)
    /\ Make(PrepareMeasurements.output, cell,
            [spill |-> cell, hits |-> ValueOf(DigitisedHits("straw_tubes_hits"), cell)])
    /\ UNCHANGED <<slice, hits, children, calls, status>>

CanUnfold(cell) == Ready(GenerateSeeds, cell) /\ cell \notin DOMAIN children

\* The predicate of the unfold never turns false.
Unfold_ForEver(cell) ==
    /\ Running
    /\ CanUnfold(cell)
    /\ UNCHANGED jobVars

\* Every seed of the spill is bundled with the context it was found in.
Unfold(cell) ==
    /\ Running
    /\ CanUnfold(cell)
    /\ LET context == ValueOf(PrepareMeasurements.output, cell)
       IN  \E n \in 0 .. MaxSeeds :
              /\ children' = [c \in DOMAIN children \union {cell} |-> IF c = cell THEN n ELSE children[c]]
              /\ store' = store \union
                    {[product |-> GenerateSeeds.output, cell |-> Append(cell, k),
                      value |-> [context |-> context, pair |-> k]] : k \in 1 .. n}
    /\ UNCHANGED <<slice, hits, calls, status>>

\* At most one track from a seed.
Fit(cell) ==
    /\ Running
    /\ Waiting(FitSeed, cell)
    /\ \E tracks \in {{}, {ValueOf(GenerateSeeds.output, cell)}} : Make(FitSeed.output, cell, tracks)
    /\ UNCHANGED <<slice, hits, children, calls, status>>

\* An observer gets its products for a cell.
Observe(node, cell) ==
    /\ Running
    /\ CanCall(node, cell)
    /\ calls' = calls \union {[node |-> node.name, cell |-> cell,
                               got |-> [p \in Followed(node) |-> ValueOf(p, cell)]]}
    /\ UNCHANGED <<slice, hits, store, children, status>>

Call ==
    \/ \E suffix \in HitTypes, cell \in Spill : ReadHits(suffix, cell)
    \/ \E p \in {Detector, Field} : ReadConditions(p)
    \/ \E node \in Copies, cell \in Spill : CopyHits(node, cell)
    \/ \E cell \in Spill : Prepare(cell) \/ Unfold(cell)
    \/ \E cell \in Cells("seed") : Fit(cell)
    \/ \E node \in Observers : \E cell \in Cells(LayerOf(node.inputs)) : Observe(node, cell)

\* No call is left.
Quiet ==
    /\ \A suffix \in HitTypes \intersect slice, cell \in Spill : Provided(DigitisedHits(suffix), cell)
    /\ "straw_tubes_hits" \in slice => \A p \in {Detector, Field} : Provided(p, <<>>)
    /\ \A node \in Copies \union {PrepareMeasurements}, cell \in Spill : ~Waiting(node, cell)
    /\ \A cell \in Spill : ~CanUnfold(cell)
    /\ \A cell \in Cells("seed") : ~Waiting(FitSeed, cell)
    /\ \A node \in Observers : \A cell \in Cells(LayerOf(node.inputs)) : ~CanCall(node, cell)

EndJob ==
    /\ Running
    /\ Quiet
    /\ status' = "complete"
    /\ UNCHANGED <<slice, hits, store, children, calls>>

\* A call throws: no further call is started.
AbortJob ==
    /\ Running
    /\ ~Quiet
    /\ status' = "aborted"
    /\ UNCHANGED <<slice, hits, store, children, calls>>

Stopped == status # "running" \/ step \in {"rejected", "failed"}

JobNext ==
    \/ Registration
    \/ (Call \/ EndJob \/ AbortJob) /\ UNCHANGED vars
    \/ Stopped /\ UNCHANGED allVars

\* Registration goes on, and the pool runs a call as long as there is one.
JobFairness == WF_allVars(Registration) /\ WF_allVars((Call \/ EndJob) /\ UNCHANGED vars)
JobSpec == JobInit /\ [][JobNext]_allVars /\ JobFairness

-------------------------------------------------------------------------------
(* Properties *)

\* What an observer is to find for a cell of the layer: all hits of the input
\* file, for every spill; tracks only from this seed of this spill, in a context
\* of all its straw hits.
AsRecorded(p, cell, value) ==
    IF p = Tracks
    THEN value \subseteq {[context |-> [spill |-> <<cell[1]>>, hits |-> InputFile["straw_tubes_hits"]],
                           pair |-> cell[2]]}
    ELSE value = InputFile[OriginOf(p)]

\* In a job that completes, every observer that was registered has been called
\* exactly once for each cell of its layer, and got what belongs to that cell.
\* A name that two plugins spell differently would leave it waiting in silence.
CleanJobIsComplete ==
    status = "complete" =>
        \A node \in Observers : \A cell \in Cells(LayerOf(node.inputs)) :
            LET mine == {c \in calls : c.node = node.name /\ c.cell = cell}
            IN  /\ Cardinality(mine) = 1
                /\ \A c \in mine : \A p \in Followed(node) : AsRecorded(p, cell, c.got[p])

Owed == IF Registered
        THEN UNION {{<<node.name, cell>> : cell \in Cells(LayerOf(node.inputs))} : node \in Observers}
        ELSE {}
AllDeliveries ==
    {node.name : node \in Range(WriterNodes(TRUE) \o HistoNodes(TRUE) \o NoopNodes(TRUE))}
    \X (Spill \union {<<i, k>> : i \in 1 .. NSpills, k \in 1 .. MaxSeeds})

Ledger == INSTANCE SpillLedger
    WITH Deliveries <- AllDeliveries, owed <- Owed, handed <- {<<c.node, c.cell>> : c \in calls}

\* Seen from outside a job is a ledger: it ends as complete only with every
\* delivery made that the registered observers and the data call for.
LedgerSpec == Ledger!LedgerSpec

\* Every job comes to an end, whatever its configuration.
JobEnds == <>Stopped
===============================================================================
