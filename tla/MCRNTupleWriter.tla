--------------------------- MODULE MCRNTupleWriter ---------------------------
(* Instances of RNTupleWriter for TLC. *)
EXTENDS RNTupleWriter, TLC

CONSTANTS t1, t2, t3, c1, c2, c3

\* Two calls on the first tuple, and one on the last.
MCSize == (c1 :> 3) @@ (c2 :> 2) @@ (c3 :> 1)
MCTupleOf == (c1 :> 1) @@ (c2 :> 1) @@ (c3 :> NReco + NSim)
===============================================================================
