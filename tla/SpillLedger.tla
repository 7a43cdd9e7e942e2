------------------------------ MODULE SpillLedger ------------------------------
(***************************************************************************)
(* What a reconstruction job promises, without the graph that does it: a    *)
(* ledger of deliveries.  A delivery is owed once, made once and never      *)
(* taken back, and the job may only call itself complete when none is open. *)
(***************************************************************************)
CONSTANT Deliveries

VARIABLES owed, handed, status

ledger == <<owed, handed, status>>

LedgerInit ==
    /\ owed = {}
    /\ handed = {}
    /\ status = "running"

\* New data turn up, and with them deliveries to be made.
Owe ==
    /\ status = "running"
    /\ owed' \in SUBSET Deliveries
    /\ owed \subseteq owed'
    /\ owed # owed'
    /\ UNCHANGED <<handed, status>>

HandOver ==
    /\ status = "running"
    /\ \E d \in owed \ handed : handed' = handed \union {d}
    /\ UNCHANGED <<owed, status>>

Complete ==
    /\ status = "running"
    /\ owed = handed
    /\ status' = "complete"
    /\ UNCHANGED <<owed, handed>>

\* A job may be given up at any time; what was handed over stays.
GiveUp ==
    /\ status = "running"
    /\ status' = "aborted"
    /\ UNCHANGED <<owed, handed>>

LedgerNext == Owe \/ HandOver \/ Complete \/ GiveUp

LedgerSpec == LedgerInit /\ [][LedgerNext]_ledger
===============================================================================
