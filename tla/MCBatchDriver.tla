--------------------------- MODULE MCBatchDriver ---------------------------
(***************************************************************************)
(* Two nodes that lead in turn.  The scenario is one batch of one record,  *)
(* in which everything about the record may happen, or two batches of one  *)
(* record each, for what the first leaves behind in the second.            *)
(***************************************************************************)
EXTENDS BatchDriver, TLC

CONSTANTS n1, n2, e1, e2, e3, e4

Sorted == <<n1, n2>>
FourEnvelopes == e1 :> 1 @@ e2 :> 1 @@ e3 :> 2 @@ e4 :> 2
Proposal == (<<n1, 1>> :> e1) @@ (<<n2, 1>> :> e2) @@ (<<n1, 2>> :> e3) @@ (<<n2, 2>> :> e4)
OneOrTwo == {<<1>>, <<1, 1>>}

TwoBatches == Len(plan) = 2

\* Bounds on the network.  With two batches the second rounds and all votes are
\* lost: what is left is between heads, resets and watchdogs.  With one batch the
\* second PREPAREs and the head resets are lost.  Only n1 is given the first
\* proposal after the second one.
LostPost(p) == \/ TwoBatches /\ p.env \in {e2, e4}
               \/ p.to = n2 /\ (p.env = e3 \/ (p.env = e1 /\ rounds[1] = 2))
LostVote(m) == TwoBatches \/ (m.phase = "PREPARE" /\ m.tx = e2)

\* Bound: n1 restarts once, with the first proposal open, and every /verify-tx is
\* answered (one that is not counts like a node that has not committed).
RestartBound ==
    restarts' # restarts => ~TwoBatches /\ Open(n1, 1) /\ rounds[1] = 1 /\ restarts'[n2] = 0
Answered ==
    asking' > asking /\ local_stage[NodeOrder[asking]][Current] = "COMMITTED"
        => confirmed' # confirmed

BoundedNext == /\ DriverNext
               /\ \A p \in offered \ offered' : ~LostPost(p)
               /\ \A m \in Message : LostVote(m) => net'[m] >= net[m]
               /\ ~TwoBatches => resetting \subseteq resetting'
               /\ RestartBound
               /\ Answered

\* Bound: the first scenario of the program, which n1 leads.
BoundedInit == Init /\ DriverInit /\ leader = 1

BoundedSpec == /\ BoundedInit /\ [][BoundedNext]_<<vars, driver>>
               /\ Fairness
               /\ WF_<<vars, driver>>(DriverStep)
=============================================================================
