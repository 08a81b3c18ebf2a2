------------------------------ MODULE LossyLog ------------------------------
(***************************************************************************)
(* What ledger.json promises its readers: a numbered log that is only ever *)
(* extended by one entry, or lost as a whole by a crash that hits an       *)
(* append.  It is never edited, reordered or cut in the middle.            *)
(***************************************************************************)
EXTENDS Naturals, Sequences

CONSTANT Tx

VARIABLES log,        \* the entries a reader sees
          appending   \* whether an append is under way

LogInit == log = <<>> /\ appending = FALSE

BeginAppend == ~appending /\ appending' = TRUE /\ UNCHANGED log

EndAppend(tx) ==
    /\ appending /\ appending' = FALSE
    /\ log' = Append(log, [ledger_index |-> Len(log) + 1, tx |-> tx])

Lose == appending /\ appending' = FALSE /\ log' = <<>>

LogNext == BeginAppend \/ Lose \/ \E tx \in Tx : EndAppend(tx)

LogSpec == LogInit /\ [][LogNext]_<<log, appending>>
==============================================================================
