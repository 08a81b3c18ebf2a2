---------------------------- MODULE MCLedgerStore ----------------------------
(* Two transactions, as model values, for the runs of LedgerStore. *)
EXTENDS LedgerStore

CONSTANTS t1, t2
==============================================================================
