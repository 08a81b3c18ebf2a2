------------------------------- MODULE Quorums -------------------------------
(***************************************************************************)
(* The two thresholds ConsensusTracker.__init__ derives from the size of   *)
(* the topology.  A node that asks for QuorumThreshold(n) votes counts the *)
(* votes of its PEERS only: it never receives a vote of its own, because   *)
(* broadcast_to_peers posts to every node but the sender.                  *)
(***************************************************************************)
EXTENDS Naturals

MaxFaulty(n) == (n - 1) \div 3

QuorumThreshold(n) == 2 * MaxFaulty(n) + 1
==============================================================================
