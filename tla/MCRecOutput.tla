----------------------------- MODULE MCRecOutput -----------------------------
(* Two file names, any of them present before the job. *)
EXTENDS RecOutput

MCFiles == {"results.root", "validation.root"}
MCExisting == SUBSET MCFiles
===============================================================================
