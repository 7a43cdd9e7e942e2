---------------------------- MODULE MCHistoOutput ----------------------------
(* Instances of HistoOutput for TLC. *)
EXTENDS HistoOutput

CONSTANTS fitA, fitB,  \* two seeds of one event: layer "seed"
          truth        \* the simulation truth of that event: layer "spill"

MCHistogrammers == {"spectrometer", "sim_truth"}
MCCalls == {fitA, fitB, truth}

MCTargetOf == [c \in MCCalls |-> IF c = truth THEN "sim_truth" ELSE "spectrometer"]

MCSizes == [c \in MCCalls |-> IF c = truth THEN <<2, 1>> ELSE IF c = fitA THEN <<1>> ELSE <<2>>]

MCSpillOf == [c \in MCCalls |-> 1]
===============================================================================
