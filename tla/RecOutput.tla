------------------------------ MODULE RecOutput ------------------------------
(***************************************************************************)
(* Registration of the nodes of rec_output_module: PHLEX_REGISTER_ALGORITHMS *)
(* runs once, on the main thread, before the first event.  It reads the      *)
(* configuration, rejects a bad one, and then opens the RNTuple file, then   *)
(* the histogram file, registering observers in between.                    *)
(*                                                                         *)
(* A path is a file of the working directory and the way it is written:     *)
(* without a directory part ("out.root") or with one ("./out.root",         *)
(* "/data/out.root"); directories exist.                                   *)
(***************************************************************************)
EXTENDS Sequences

CONSTANTS Files,    \* names in the directory
          Existing  \* Existing \subseteq SUBSET Files: what may be there before

ASSUME ExistingAssumption == Existing \subseteq SUBSET Files

Modes == {"reco", "noop", "misspelt"}
Paths == [hasDir : BOOLEAN, file : Files]
Configs == [mode : Modes, isSim : BOOLEAN, rntuple_file : Paths, histo_file : Paths]

Selector(creator, layer, suffix) == [creator |-> creator, layer |-> layer, suffix |-> suffix]
Passthrough(suffix) == Selector("rntuple_source", "spill", suffix)

Tracks  == Selector("fit_seed", "seed", "track_fit_result")
UBTHits == Selector("upstream_tagger_reco", "spill", "upstream_tagger_reco")
SBTHits == Selector("surround_tagger_reco", "spill", "surround_tagger_reco")
CaloHits == Selector("calorimeter_reco", "spill", "calorimeter_reco")
TimeDetHits == Selector("timing_detector_reco", "spill", "timing_detector_reco")
SimHits == Passthrough("sim_hits")
SimParticles == Passthrough("sim_particles")

RecoProducts == {Tracks, UBTHits, SBTHits, CaloHits, TimeDetHits}
SimProducts  == {SimHits, SimParticles}

\* An observer: its name, the object it belongs to and the products it gets.
Node(name, object, inputs) == [name |-> name, object |-> object, inputs |-> inputs]
Writes(name, input) == Node(name, "writer", {input})
Validates(name, input) == Node(name, "histogrammer", {input})

\* The simulation observers whether or not there is a simulation.
WriterNodes_AlwaysSim(isSim) ==
    << Writes("write_spectrometer_tracks", Tracks),
       Writes("write_upstream_tagger", UBTHits),
       Writes("write_surround_tagger", SBTHits),
       Writes("write_calorimeter", CaloHits),
       Writes("write_timing_detector", TimeDetHits),
       Writes("write_sim_hits", SimHits),
       Writes("write_sim_particles", SimParticles) >>

WriterNodes(isSim) ==
    << Writes("write_spectrometer_tracks", Tracks),
       Writes("write_upstream_tagger", UBTHits),
       Writes("write_surround_tagger", SBTHits),
       Writes("write_calorimeter", CaloHits),
       Writes("write_timing_detector", TimeDetHits) >> \o
    IF isSim THEN << Writes("write_sim_hits", SimHits),
                     Writes("write_sim_particles", SimParticles) >>
             ELSE << >>

HistoNodes(isSim) ==
    << Validates("validate_spectrometer", Tracks),
       Validates("validate_upstream_tagger", UBTHits),
       Validates("validate_surround_tagger", SBTHits),
       Validates("validate_calorimeter", CaloHits),
       Validates("validate_timing_detector", TimeDetHits) >> \o
    IF isSim THEN << Node("validate_sim_truth", "histogrammer", SimProducts) >>
             ELSE << >>

\* observe_tracks_only also for simulations.
NoopNodes_TracksOnly(isSim) == << Node("noop", "noop", RecoProducts) >>

NoopNodes(isSim) ==
    << Node("noop", "noop", IF isSim THEN RecoProducts \union SimProducts ELSE RecoProducts) >>

\* The RNTuples HitRNTupleWriter makes, by the product they store.
TuplesOf(isSim) == IF isSim THEN RecoProducts \union SimProducts ELSE RecoProducts

Products == RecoProducts \union SimProducts
NodeNames == {"noop", "write_spectrometer_tracks", "write_upstream_tagger",
              "write_surround_tagger", "write_calorimeter", "write_timing_detector",
              "write_sim_hits", "write_sim_particles", "validate_spectrometer",
              "validate_upstream_tagger", "validate_surround_tagger", "validate_calorimeter",
              "validate_timing_detector", "validate_sim_truth"}
Nodes == [name : NodeNames, object : {"noop", "writer", "histogrammer"}, inputs : SUBSET Products]

VARIABLES
    config,  \* the configuration of the module
    before,  \* files that existed when the job started
    content, \* content[f]: what f holds now
    step,    \* how far the registration has come
    todo,    \* observers to register before the next step
    nodes,   \* observers registered
    tuples   \* RNTuples of the HitRNTupleWriter

vars == <<config, before, content, step, todo, nodes, tuples>>

Steps == {"start", "writer", "histograms", "noop", "rejected", "failed"}

TypeOK ==
    /\ config \in Configs
    /\ before \in Existing
    /\ content \in [Files -> {"absent", "old", "rntuple", "histograms"}]
    /\ step \in Steps
    /\ todo \in Seq(Nodes) /\ nodes \in Seq(Nodes)
    /\ tuples \subseteq Products
    /\ \A i, j \in DOMAIN nodes : nodes[i].name = nodes[j].name => i = j

ContentBefore == [f \in Files |-> IF f \in before THEN "old" ELSE "absent"]

Init ==
    /\ config \in Configs
    /\ before \in Existing
    /\ content = ContentBefore
    /\ step = "start"
    /\ todo = << >>
    /\ nodes = << >>
    /\ tuples = {}

-------------------------------------------------------------------------------

\* Only the paths as they are written.
WeaklyCanonical_Lexical(p) == p

\* std::filesystem::weakly_canonical: the longest leading part of the path that
\* exists is made absolute.  A path of one component that does not exist has no
\* such part and stays as it is.
WeaklyCanonical(p) ==
    IF p.hasDir \/ content[p.file] # "absent" THEN [p EXCEPT !.hasDir = TRUE] ELSE p

ValidMode == config.mode \in {"reco", "noop"}
Clash == WeaklyCanonical(config.rntuple_file) = WeaklyCanonical(config.histo_file)

RejectMode ==
    /\ step = "start"
    /\ ~ValidMode
    /\ step' = "rejected"
    /\ UNCHANGED <<config, before, content, todo, nodes, tuples>>

RejectClash ==
    /\ step = "start"
    /\ ValidMode
    /\ Clash
    /\ step' = "rejected"
    /\ UNCHANGED <<config, before, content, todo, nodes, tuples>>

MakeNoop ==
    /\ step = "start"
    /\ config.mode = "noop"
    /\ ~Clash
    /\ step' = "noop"
    /\ todo' = NoopNodes(config.isSim)
    /\ UNCHANGED <<config, before, content, nodes, tuples>>

\* HitRNTupleWriter: recreates its file and makes the RNTuples in it.
MakeWriter ==
    /\ step = "start"
    /\ config.mode = "reco"
    /\ ~Clash
    /\ step' = "writer"
    /\ content' = [content EXCEPT ![config.rntuple_file.file] = "rntuple"]
    /\ tuples' = TuplesOf(config.isSim)
    /\ todo' = WriterNodes(config.isSim)
    /\ UNCHANGED <<config, before, nodes>>

\* register_writer, or the observe of a node with several inputs.
RegisterNode ==
    /\ step \in {"writer", "histograms", "noop"}
    /\ todo # << >>
    /\ nodes' = Append(nodes, Head(todo))
    /\ todo' = Tail(todo)
    /\ UNCHANGED <<config, before, content, step, tuples>>

\* HistoFileService: recreates its file; the histogrammers are made with it.
MakeHistoFile ==
    /\ step = "writer"
    /\ todo = << >>
    /\ step' = "histograms"
    /\ content' = [content EXCEPT ![config.histo_file.file] = "histograms"]
    /\ todo' = HistoNodes(config.isSim)
    /\ UNCHANGED <<config, before, nodes, tuples>>

\* A file cannot be created: the constructor throws and the job ends.
CannotOpen ==
    /\ \/ step = "start" /\ config.mode = "reco" /\ ~Clash
       \/ step = "writer" /\ todo = << >>
    /\ step' = "failed"
    /\ UNCHANGED <<config, before, content, todo, nodes, tuples>>

Registered == step \in {"histograms", "noop"} /\ todo = << >>

Finished ==
    /\ Registered \/ step \in {"rejected", "failed"}
    /\ UNCHANGED vars

Next ==
    \/ RejectMode \/ RejectClash
    \/ MakeNoop \/ MakeWriter \/ MakeHistoFile
    \/ RegisterNode
    \/ CannotOpen
    \/ Finished

Spec == Init /\ [][Next]_vars

-------------------------------------------------------------------------------
(* Properties *)

\* write_sim uses the simulation writers unchecked: an observer of the writer is
\* only ever registered for a product whose RNTuple exists.
WritersExist ==
    \A i \in DOMAIN nodes : nodes[i].object = "writer" => nodes[i].inputs \subseteq tuples

InputsOf(object) ==
    UNION {nodes[i].inputs : i \in {j \in DOMAIN nodes : nodes[j].object = object}}

\* Once registered, what is written, what is histogrammed and what the benchmark
\* mode consumes are the same products, those of the simulation switch.
SameProducts ==
    Registered =>
        LET products == RecoProducts \union (IF config.isSim THEN SimProducts ELSE {})
        IN  IF config.mode = "noop"
            THEN InputsOf("noop") = products
            ELSE /\ InputsOf("writer") = products
                 /\ InputsOf("histogrammer") = products
                 /\ tuples = products

\* The histogram file never truncates the RNTuple output: as long as the writer
\* exists its file is its own.
OutputsDiffer ==
    step \in {"writer", "histograms"} => content[config.rntuple_file.file] = "rntuple"

\* The two paths are comparable: both name a directory, neither does, or the
\* file they name existed before.
Comparable ==
    \/ config.rntuple_file.hasDir = config.histo_file.hasDir
    \/ config.rntuple_file.file \in before

\* With comparable paths the check holds what it promises.
OutputsDifferIfComparable == Comparable => OutputsDiffer
===============================================================================
