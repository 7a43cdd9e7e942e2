------------------------------- MODULE HitStore -------------------------------
(***************************************************************************)
(* What HitRNTupleWriter promises to the module that registers it: a store *)
(* of hits, one collection per RNTuple.  A hit is accepted when the        *)
(* framework hands it over and becomes durable some time later; it never   *)
(* stops being durable.  The store may be closed as `complete' only when   *)
(* every accepted hit is durable.  A fault (an I/O error) gives up that    *)
(* guarantee and nothing else: after one the store closes as `damaged', as *)
(* it does when closing itself fails.                                      *)
(***************************************************************************)
CONSTANTS Tuples,   \* the RNTuples of the file
          Hits      \* everything that can be stored in any of them

VARIABLES accepted, \* accepted[n]: the hits handed over for tuple n
          durable,  \* durable[n]: those of them that are in the file
          status    \* "open", "faulty", "complete" or "damaged"

vars == <<accepted, durable, status>>

Closed == status \in {"complete", "damaged"}

TypeOK ==
    /\ accepted \in [Tuples -> SUBSET Hits]
    /\ durable \in [Tuples -> SUBSET Hits]
    /\ status \in {"open", "faulty", "complete", "damaged"}

Init ==
    /\ accepted = [n \in Tuples |-> {}]
    /\ durable = [n \in Tuples |-> {}]
    /\ status = "open"

Accept(n, h) ==
    /\ ~Closed
    /\ h \notin accepted[n]
    /\ accepted' = [accepted EXCEPT ![n] = @ \union {h}]
    /\ UNCHANGED <<durable, status>>

Persist(n, H) ==
    /\ ~Closed
    /\ H \subseteq accepted[n] \ durable[n]
    /\ durable' = [durable EXCEPT ![n] = @ \union H]
    /\ UNCHANGED <<accepted, status>>

Fault ==
    /\ ~Closed
    /\ status' = "faulty"
    /\ UNCHANGED <<accepted, durable>>

Close ==
    /\ \/ status = "open" /\ durable = accepted /\ status' = "complete"
       \/ status = "faulty" /\ status' = "damaged"
    /\ UNCHANGED <<accepted, durable>>

CloseFails ==
    /\ ~Closed
    /\ status' = "damaged"
    /\ UNCHANGED <<accepted, durable>>

Next ==
    \/ \E n \in Tuples : \E H \in SUBSET (accepted[n] \ durable[n]) : Persist(n, H)
    \/ \E n \in Tuples, h \in Hits : Accept(n, h)
    \/ Fault
    \/ Close
    \/ CloseFails

Spec == Init /\ [][Next]_vars
===============================================================================
