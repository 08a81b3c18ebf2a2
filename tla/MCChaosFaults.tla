---------------------------- MODULE MCChaosFaults ----------------------------
(* A node with four peers, and the lists of targets a client may send. *)
EXTENDS ChaosFaults

CONSTANTS p1, p2, p3, p4,
          stranger  \* a name that is no peer of this node

FourPeers == <<p1, p2, p3, p4>>

\* No list, one peer, half of them, all, one named twice, a stranger.
SomeTargets == {<<>>, <<p2>>, <<p3, p4>>, <<p4, p1, p2, p3>>,
                <<p1, p1, p2, p3, p4>>, <<stranger, p3>>}
==============================================================================
