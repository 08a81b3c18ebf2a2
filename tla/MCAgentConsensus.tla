-------------------------- MODULE MCAgentConsensus --------------------------
(***************************************************************************)
(* Small clusters for TLC.  The envelopes of an instance are model values; *)
(* e1 and e2 are two proposals for slot 1 (a second leader's, after a      *)
(* rotation), e3 a proposal for slot 2.                                    *)
(***************************************************************************)
EXTENDS AgentConsensus, TLC, Functions

CONSTANTS e1, e2, e3

TwoProposals == e1 :> 1 @@ e2 :> 1
TwoSlots == e1 :> 1 @@ e3 :> 2

\* Bound: the votes posted with a wrong signature are for e1, to another node than
\* the one they name.
SomeStrays == {m \in Message : m.tx = e1 /\ m.from # m.to}

NodeSymmetry == Permutations(Node)

\* Bound: one node only is given the second slot, by a client that does not
\* wait for the first one to be decided.
SecondSlotBound == SumFunction([n \in Node |-> posts[n][2]]) <= 1

\* Bound: heads are reset only while that can still matter, on a node with an
\* older slot that has not been given the second one, in a cluster that may be.
ResetBound ==
    UNCHANGED <<local_stage, posts, jobs, net>> =>
        \A n \in Node : local_head'[n] = local_head[n]
                        \/ /\ posts[n][1] = 1
                           /\ \A m \in Node : posts[m][2] = 0
==============================================================================
