------------------------------- MODULE Unwired -------------------------------
(***************************************************************************)
(* The cluster with the routers as they are committed.  They read          *)
(* state.tracker.quorum, an attribute the tracker does not have (it is     *)
(* quorum_threshold), so the two handlers that compare with it raise       *)
(* AttributeError there: what they wrote before stays, what they would     *)
(* have scheduled after is never scheduled.                                *)
(*                                                                         *)
(* main.py also passes n= to a constructor whose parameter is node_count.  *)
(* That stops the process before it serves anything, so this module takes  *)
(* the first mistake as corrected and shows what the second one does.      *)
(***************************************************************************)
EXTENDS AgentConsensus

\* /pre-prepare raises after the record and the stage are stored, before the
\* early quorum is decided and before any background task is added.
PrePrepareRaises(n, e) ==
    /\ StoreRecord(n, e)
    /\ local_stage' = [local_stage EXCEPT ![n][SeqOf[e]] = "PRE_PREPARED"]
    /\ UNCHANGED <<ledger, jobs, net, signed, restarts>>

\* /prepare and /commit raise after the vote is stored.  One with a wrong signature
\* is dropped before.
VoteRaises(m) ==
    LET votes == IF m.phase = "PREPARE" THEN prepare_votes ELSE commit_votes
        stored == [votes EXCEPT ![m.to][SeqOf[m.tx]] = Tally(votes, m)]
    IN  /\ Deliver(m)
        /\ prepare_votes' = IF m.phase = "PREPARE" THEN stored ELSE prepare_votes
        /\ commit_votes' = IF m.phase = "COMMIT" THEN stored ELSE commit_votes
        /\ UNCHANGED <<local_head, pre_prepares, local_stage, ledger, jobs,
                       signed, history>>

UnwiredNext ==
    \/ \E n \in Node, e \in Envelope : PrePrepareRaises(n, e)
    \/ \E m \in Message : VoteRaises(m)
    \/ \E n \in Node, h \in ResetTargets : ResetHead(n, h)
    \/ Tasks
    \/ \E n \in Node : Restart(n)

UnwiredSpec == Init /\ [][UnwiredNext]_vars
==============================================================================
