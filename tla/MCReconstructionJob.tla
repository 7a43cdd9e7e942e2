------------------------- MODULE MCReconstructionJob -------------------------
(* Two spills over a file of two events, each slice in turn. *)
EXTENDS ReconstructionJob

MCFiles == {"results.root", "validation.root"}
MCExisting == {{}, {"validation.root"}}
MCNTracks == <<1, 2>>

\* The noop observer is called per seed, whatever else it gets.
MCSlices ==
    [reco |-> { {"straw_tubes_hits"}, {"ubt_hits"}, {"sbt_hits"}, {"timing_detector_hits"},
                {"calorimeter_hits"}, {"sim_hits", "sim_particles"} },
     noop |-> { {"straw_tubes_hits", "calorimeter_hits"}, {"straw_tubes_hits", "sim_particles"} },
     misspelt |-> {{}}]

\* The histogram file under its bare name, the other one in every spelling.
MCJobInit == JobInit /\ config.histo_file = [hasDir |-> FALSE, file |-> "validation.root"]
MCJobSpec == MCJobInit /\ [][JobNext]_allVars /\ JobFairness
===============================================================================
