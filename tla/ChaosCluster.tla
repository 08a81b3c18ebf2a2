---------------------------- MODULE ChaosCluster ----------------------------
(***************************************************************************)
(* The cluster of AgentConsensus with faults injected through              *)
(* node_app/routers/chaos.py.                                              *)
(*                                                                         *)
(* A Byzantine node runs the same handlers and tasks.  When it has         *)
(* answered a /pre-prepare it owes a forged PREPARE, when it has answered  *)
(* a /prepare, counted or dropped, a forged COMMIT, to the peers it has    *)
(* cut off; the forged vote names a transaction nobody proposed and is     *)
(* signed with the node's own key.  The fault may come and go, and the     *)
(* peer lists with it: a post that some peer list leaves out is one of the *)
(* posts that are lost.  That holds for the list a broadcast took two      *)
(* seconds earlier, for the drop list of a forged vote, and for an offline *)
(* node, which answers 503.                                                *)
(***************************************************************************)
EXTENDS AgentConsensus

CONSTANTS
    Byzantine,   \* the nodes that are ever put in MALICIOUS_BYZANTINE
    Poison       \* the poisoned_tx_id of each transaction id

ASSUME PoisonAssumption ==
    /\ Byzantine \subseteq Node
    /\ Poison \in [TxId -> TxId \ Envelope]
    /\ \A tx \in TxId : SeqOf[Poison[tx]] = SeqOf[tx]

VARIABLE owed    \* forged votes scheduled, as the votes they answer

ChaosTypeOK == owed \in [Vote -> Nat]

ChaosInit == owed = [v \in Vote |-> 0]

\* A forged PREPARE follows a pre-prepare, a forged COMMIT a prepare.
NextPhase(path) == IF path = "pre-prepare" THEN "PREPARE" ELSE "COMMIT"

\* Node n answers a request for tx with a 202, as it does a vote it drops.
Answer(n, path, tx) ==
    owed' = IF n \in Byzantine
            THEN [owed EXCEPT ![[phase |-> NextPhase(path), from |-> n, tx |-> tx]] = @ + 1]
            ELSE owed

\* _send_corrupted_broadcast.
Forge(v) ==
    /\ owed[v] > 0
    /\ owed' = [owed EXCEPT ![v] = @ - 1]
    /\ Broadcast(v.phase, v.from, Poison[v.tx])
    /\ UNCHANGED <<tracker, ledger, jobs, history>>

ChaosNext ==
    \/ \E n \in Node, e \in Envelope : PrePrepare(n, e) /\ Answer(n, "pre-prepare", e)
    \/ \E m \in Message : \E sig \in Signatures(m) :
          ReceivePrepare(m, sig) /\ Answer(m.to, "prepare", m.tx)
    \/ /\ \/ \E m \in Message : \E sig \in Signatures(m) : ReceiveCommit(m, sig)
          \/ \E n \in Node, h \in ResetTargets : ResetHead(n, h)
          \/ Tasks
       /\ UNCHANGED owed
    \/ \E n \in Node : /\ Restart(n)
                       /\ owed' = [v \in Vote |-> IF v.from = n THEN 0 ELSE owed[v]]
    \/ \E v \in Vote : Forge(v)

ChaosSpec == Init /\ ChaosInit /\ [][ChaosNext]_<<vars, owed>>

-----------------------------------------------------------------------------
(* Properties *)

Honest == Node \ Byzantine

\* Forged votes do not make up for the order of the background tasks: as long as
\* every node is given a slot once at most, 2Q - n Byzantine nodes (f + 1 of
\* 3f + 1) cannot make an honest node commit it.  Their votes take the place of
\* late PREPAREs and of COMMITs, but the honest part of each quorum remains.
HonestCommitNeedsRepost ==
    \A s \in Slot :
        /\ \E n \in Honest : Decided(n, s)
        /\ \A n \in Node : posts[n][s] <= 1
        => Cardinality(Byzantine) + Cardinality(Node) > 2 * Quorum

\* Forged votes make up for silent nodes, each Byzantine node for one: a slot is
\* decided anywhere only if the honest nodes that have accepted a pre-prepare for it
\* and the Byzantine nodes are more than a quorum.  Of 3f + 1 nodes with b Byzantine
\* ones at least 2f + 2 - b honest nodes were given the slot.
DecisionNeedsHonestAudience ==
    \A s \in Slot :
        (\E n \in Node : Decided(n, s)) =>
            Cardinality({n \in Honest : posts[n][s] >= 1}) + Cardinality(Byzantine) > Quorum
=============================================================================
