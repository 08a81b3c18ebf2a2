--------------------------- MODULE MCChaosCluster ---------------------------
(***************************************************************************)
(* Four nodes, one of them Byzantine, and one slot that is posted twice.   *)
(***************************************************************************)
EXTENDS ChaosCluster, TLC

CONSTANTS b, h1, h2, h3, e1, p1

OneSlot == e1 :> 1 @@ p1 :> 1
Poisoned == e1 :> p1 @@ p1 :> p1

\* A client that posts a slot again only after a stall: every node has evicted
\* the first attempt and has received a quorum of late PREPAREs.
Settled == \A n \in Node, s \in Slot :
               /\ local_stage[n][s] = "EVICTED"
               /\ Cardinality(prepare_votes[n][s]) >= Quorum

Retrying == \E n \in Node, s \in Slot : posts[n][s] > 1

\* Bound: b forges each vote once, as soon as it has answered; h1 receives it.
Owing == \E v \in Vote : owed[v] > 0 /\ [v EXCEPT !.tx = p1] \notin signed
Lost(m) == \/ Retrying /\ m.phase = "PREPARE"
           \/ Retrying /\ m.to \in {b, h3}
           \/ m.tx = p1 /\ m.to # h1

\* Bound: the vote with a wrong signature is a PREPARE for e1 that b gets, when every
\* node has evicted the first attempt and b has not forged a COMMIT yet.
SomeStrays == {[phase |-> "PREPARE", from |-> h1, to |-> b, tx |-> e1]}
StrayBound == UNCHANGED vars =>
    /\ \A n \in Node : local_stage[n][1] = "EVICTED"
    /\ \A v \in Vote : owed'[v] > owed[v] => [v EXCEPT !.tx = p1] \notin signed

\* Bound: of the second attempt only the watchdog of h1 runs out.
Asleep(n) == n # h1 /\ Retrying
StillAsleep == \A n \in Node, at \in {"watchdog", "prepares"} :
    Asleep(n) => LET k == [at |-> at, tx |-> e1] IN jobs'[n][k] >= jobs[n][k]

\* Bound: PREPAREs reach a node in the order of their senders.
Earlier == h1 :> {} @@ h2 :> {h1} @@ h3 :> {h1, h2} @@ b :> {h1, h2, h3}
InOrder(m) ==
    m.tx = e1 => \A c \in Earlier[m.from] \ {m.to} :
        LET k == [m EXCEPT !.from = c]
        IN  net[k] = 0 /\ [phase |-> k.phase, from |-> k.from, tx |-> k.tx] \in signed

\* Bound: b may restart before the others are given the slot, and the head of h3 be
\* reset between the attempts.
RestartBound == restarts' # restarts =>
    /\ restarts'[b] = 1 /\ \A n \in Node \ {b} : restarts'[n] = 0 /\ posts[n][1] = 0
ResetBound == UNCHANGED <<local_stage, posts, jobs, net>> =>
    \A n \in Node : local_head'[n] # local_head[n] => n = h3 /\ Settled /\ ~Retrying

RetryNext == /\ ChaosNext
             /\ RestartBound /\ ResetBound /\ StrayBound
             /\ Retrying' => Settled \/ Retrying
             /\ \A m \in Message : net'[m] < net[m] => ~Lost(m) /\ InOrder(m)
             /\ StillAsleep
             /\ IF Owing THEN (signed' # signed /\ owed' # owed) \/ restarts' # restarts
                         ELSE restarts' = restarts => \A v \in Vote : owed'[v] >= owed[v]

RetrySpec == Init /\ ChaosInit /\ [][RetryNext]_<<vars, owed>>
=============================================================================
