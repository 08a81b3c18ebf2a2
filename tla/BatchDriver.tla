---------------------------- MODULE BatchDriver ----------------------------
(***************************************************************************)
(* The client the repository ships: execute_batch_run of                   *)
(* benchmarks/profiler.py, and the cluster it drives.  The driver posts    *)
(* the records of a batch in order to every node, replaces the leader and  *)
(* posts a record again when no node has answered, asks the nodes what     *)
(* they have committed, and resets every head after a stalled batch.       *)
(*                                                                         *)
(* Its posts give up after two seconds, which does not call them back: the *)
(* node may handle a pre-prepare or a reset at any time after the driver   *)
(* has gone on.  The driver looks at the nodes one after another while     *)
(* their votes and watchdogs are under way.                                *)
(*                                                                         *)
(* The scenarios of this module inject no fault or take nodes offline.     *)
(* Under MALICIOUS_BYZANTINE the faulty nodes would forge votes, as in     *)
(* ChaosCluster, and what is said here of verdicts would not follow.       *)
(***************************************************************************)
EXTENDS AgentConsensus

CONSTANTS
    NodeOrder,    \* node_names: the nodes, sorted
    EnvelopeOf,   \* the envelope a leader signs for a slot
    BatchPlans,   \* the lists of batch sizes a scenario may be given
    Mode,         \* scenario_mode
    Faulty,       \* offline_nodes: with mode NONE they are under no fault
    OkNodes       \* the nodes that make a record OK (three in the code)

ASSUME OrderAssumption ==
    /\ NodeOrder \in [1..Cardinality(Node) -> Node]
    /\ \A n \in Node : \E i \in DOMAIN NodeOrder : NodeOrder[i] = n
    /\ \A i, j \in DOMAIN NodeOrder : NodeOrder[i] = NodeOrder[j] => i = j
ASSUME BatchAssumption == \A p \in BatchPlans : p \in Seq(Nat \ {0})
ASSUME LeaderAssumption ==
    /\ EnvelopeOf \in [Node \X Slot -> Envelope]
    /\ \A n \in Node, s \in Slot : SeqOf[EnvelopeOf[<<n, s>>]] = s

\* The slots at which the batches of plan p begin, and the one after the last.
Bases(p) ==
    {f \in [1..(Len(p) + 1) -> Slot \cup {s + 1 : s \in Slot}] :
        /\ f[1] = 1
        /\ \A i \in 1..Len(p) : /\ f[i + 1] = f[i] + p[i]
                               /\ f[i]..(f[i + 1] - 1) \subseteq Slot}

ASSUME NumberingAssumption == \A p \in BatchPlans : Bases(p) # {}
\* The driver is one of the clients of /reset-head.
ASSUME ResetAssumption == Slot \subseteq ResetTargets
ASSUME ModeAssumption == Mode \in {"NONE", "OFFLINE"}
ASSUME VerdictAssumption == OkNodes \in Nat \ {0} /\ Faulty \subseteq Node

VARIABLES
    at,          \* what the driver is doing
    plan,        \* batch_sizes of the scenario
    batch,       \* the batch being run, from 1; Len(plan) + 1 at the end
    base,        \* base_sequence of the batch
    idx,         \* the record being posted, or verified
    leader,      \* _current_leader_idx, from 1
    round,       \* iterations of the leader loop for this record
    acked,       \* committed_successfully
    waiting,     \* the nodes whose answer the driver still waits for
    offered,     \* pre-prepares that can still arrive
    resetting,   \* head resets that can still arrive
    asking,      \* the position in NodeOrder of the next node to ask
    confirmed,   \* nodes_committed: the nodes that said yes
    verdict,     \* status of the record of each slot
    rounds       \* history: how often each slot has been posted

loop == <<plan, batch, base, leader, round>>
driver == <<at, plan, batch, base, idx, leader, round, acked, waiting, offered,
            resetting, asking, confirmed, verdict, rounds>>

Recipients == IF Mode = "OFFLINE" THEN Node \ Faulty ELSE Node
Healthy == Node \ Faulty

Current == base + idx
Size == plan[batch]

\* The first leader is the one an earlier scenario of the same program left.
DriverInit ==
    /\ plan \in BatchPlans
    /\ at = IF plan = <<>> THEN "done" ELSE "propose"
    /\ batch = 1 /\ base = 1 /\ idx = 0
    /\ leader \in 1..Cardinality(Node) /\ round = 0 /\ acked = FALSE
    /\ waiting = {} /\ offered = {} /\ resetting = {}
    /\ asking = 1 /\ confirmed = {}
    /\ verdict = [s \in Slot |-> "PENDING"]
    /\ rounds = [s \in Slot |-> 0]

-----------------------------------------------------------------------------
(* Posting the records *)

\* The leader's envelope goes to the recipients at once.
Propose ==
    /\ at = "propose" /\ at' = "await"
    /\ LET e == EnvelopeOf[<<NodeOrder[leader], Current>>]
       IN  offered' = offered \cup {[to |-> n, env |-> e] : n \in Recipients}
    /\ waiting' = Recipients /\ acked' = FALSE
    /\ round' = round + 1
    /\ rounds' = [rounds EXCEPT ![Current] = @ + 1]
    /\ UNCHANGED <<vars, plan, batch, base, idx, leader, resetting, asking, confirmed, verdict>>

\* A node handles a pre-prepare.  The driver sees the 202 if it still waits for
\* this node in this round.
Handle(p) ==
    /\ p \in offered /\ PrePrepare(p.to, p.env)
    /\ offered' = offered \ {p}
    /\ LET heard == /\ at = "await" /\ p.to \in waiting
                    /\ p.env = EnvelopeOf[<<NodeOrder[leader], Current>>]
       IN  /\ acked' = (acked \/ heard)
           /\ waiting' = IF heard THEN waiting \ {p.to} ELSE waiting
    /\ UNCHANGED <<at, loop, idx, resetting, asking, confirmed, verdict, rounds>>

\* Faulty variant: posts without a time limit.
GivesUpNever(n) == FALSE

\* The two seconds of a post are over.
GivesUp(n) == n \in waiting

TimeOut(n) ==
    /\ at \in {"await", "reset"} /\ GivesUp(n)
    /\ waiting' = waiting \ {n}
    /\ UNCHANGED <<vars, at, loop, idx, acked, offered, resetting, asking,
                   confirmed, verdict, rounds>>

\* Faulty variant: leaders are tried until one is answered.
PostedIfAcked == acked

\* The record is done with: a node has answered, or every leader had a turn.
RecordPosted == acked \/ round = Cardinality(Node)

\* Faulty variant: the node after the last.
NextLeaderUnwrapped == leader + 1

NextLeader == (leader % Cardinality(Node)) + 1

\* All answers are in or given up.  Without one the next node leads.
EndRound ==
    /\ at = "await" /\ waiting = {}
    /\ leader' = IF acked THEN leader ELSE NextLeader
    /\ IF RecordPosted
       THEN /\ round' = 0
            /\ IF idx + 1 < Size
               THEN at' = "propose" /\ idx' = idx + 1
               ELSE at' = "verify" /\ idx' = 0
       ELSE at' = "propose" /\ UNCHANGED <<idx, round>>
    /\ UNCHANGED <<vars, plan, batch, base, acked, waiting, offered, resetting,
                   asking, confirmed, verdict, rounds>>

-----------------------------------------------------------------------------
(* Verification and head resets *)

\* GET /verify-tx of one node, skipped if it is not healthy; no answer in half a
\* second counts as a no.
Ask(answered) ==
    /\ at = "verify" /\ asking <= Cardinality(Node)
    /\ LET n == NodeOrder[asking] IN
       confirmed' = IF /\ n \in Healthy /\ answered
                       /\ local_stage[n][Current] = "COMMITTED"
                    THEN confirmed \cup {n} ELSE confirmed
    /\ asking' = asking + 1
    /\ UNCHANGED <<vars, at, loop, idx, acked, waiting, offered, resetting,
                   verdict, rounds>>

\* Faulty variants: any committed node will do, and no node at all.
EnoughIfAny(nodes) == nodes # {}
EnoughAlways(nodes) == TRUE

Enough(nodes) == Cardinality(nodes) >= OkNodes

\* The verdict on a record, after the last node.
Judge ==
    /\ at = "verify" /\ asking > Cardinality(Node)
    /\ verdict' = [verdict EXCEPT ![Current] = IF Enough(confirmed) THEN "OK" ELSE "FAIL"]
    /\ asking' = 1 /\ confirmed' = {}
    /\ IF idx + 1 < Size THEN idx' = idx + 1 /\ UNCHANGED at
       ELSE idx' = 0 /\ at' = "judged"
    /\ UNCHANGED <<vars, loop, acked, waiting, offered, resetting, rounds>>

StalledAny == \E i \in 0..(Size - 1) : verdict[base + i] = "FAIL"

\* Faulty variant: the heads set to the first slot of the next batch.
RecoveryTargetNext == base + Size

RecoveryTarget == base + Size - 1

\* After a stalled batch every node, faulty or not, is told to skip the batch.
Recover ==
    /\ at = "judged" /\ StalledAny /\ at' = "reset"
    /\ resetting' = resetting \cup {[to |-> n, head |-> RecoveryTarget] : n \in Node}
    /\ waiting' = Node
    /\ UNCHANGED <<vars, loop, idx, acked, offered, asking, confirmed, verdict, rounds>>

\* A node handles a head reset, in time or not.
HandleReset(r) ==
    /\ r \in resetting /\ ResetHead(r.to, r.head)
    /\ resetting' = resetting \ {r}
    /\ waiting' = IF at = "reset" /\ r.head = RecoveryTarget
                  THEN waiting \ {r.to} ELSE waiting
    /\ UNCHANGED <<at, loop, idx, acked, offered, asking, confirmed, verdict, rounds>>

EndBatch ==
    /\ \/ at = "judged" /\ ~StalledAny
       \/ at = "reset" /\ waiting = {}
    /\ base' = base + Size /\ batch' = batch + 1
    /\ at' = IF batch = Len(plan) THEN "done" ELSE "propose"
    /\ UNCHANGED <<vars, plan, idx, leader, round, acked, waiting, offered, resetting,
                   asking, confirmed, verdict, rounds>>

-----------------------------------------------------------------------------
\* What the driver does by itself.
DriverStep ==
    \/ Propose \/ EndRound \/ Judge \/ Recover \/ EndBatch
    \/ \E n \in Node : TimeOut(n)
    \/ \E answered \in BOOLEAN : Ask(answered)

\* What the nodes do with its requests, and by themselves.  A vote with a wrong
\* signature would be dropped without a trace.
NodeStep ==
    \/ \E p \in offered : Handle(p)
    \/ \E r \in resetting : HandleReset(r)
    \/ /\ \/ \E m \in Message : \/ ReceivePrepare(m, Payload(m))
                                \/ ReceiveCommit(m, Payload(m))
          \/ Tasks
          \/ \E n \in Node : Restart(n)
       /\ UNCHANGED driver

DriverNext == DriverStep \/ NodeStep

DriverSpec == Init /\ DriverInit /\ [][DriverNext]_<<vars, driver>>

\* asyncio.gather returns when every post has been answered or has timed out,
\* and the loops go on: the driver never depends on a node to make progress.
DriverFairSpec == /\ DriverSpec
                  /\ Fairness
                  /\ WF_<<vars, driver>>(DriverStep)

-----------------------------------------------------------------------------
(* Properties *)

\* What is left to do: batches, stages of the batch, records, rounds of the record,
\* the answers to a round, answers to wait for and nodes to ask, the first counting
\* most.
StagesLeft == CASE at \in {"propose", "await"} -> 3
                [] at = "verify" -> 2
                [] at = "judged" -> 1
                [] OTHER -> 0
Left == <<Len(plan) + 1 - batch,
          StagesLeft,
          IF at = "done" THEN 0 ELSE Size - idx,
          Cardinality(Node) - round,
          IF at = "await" THEN 1 ELSE 0,
          Cardinality(waiting),
          Cardinality(Node) + 1 - asking>>

Lower(a, b) == \E i \in DOMAIN b : /\ a[i] < b[i]
                                  /\ \A j \in 1..(i - 1) : a[j] = b[j]

DriverTypeOK ==
    /\ at \in {"propose", "await", "verify", "judged", "reset", "done"}
    /\ plan \in BatchPlans /\ batch \in 1..(Len(plan) + 1)
    /\ base \in Nat /\ idx \in Nat /\ round \in 0..Cardinality(Node)
    /\ leader \in 1..Cardinality(Node) /\ asking \in 1..(Cardinality(Node) + 1)
    /\ acked \in BOOLEAN
    /\ waiting \subseteq Node /\ confirmed \subseteq Healthy
    /\ offered \subseteq [to : Node, env : Envelope]
    /\ resetting \subseteq [to : Node, head : Nat]
    /\ verdict \in [Slot -> {"PENDING", "OK", "FAIL"}]
    /\ rounds \in [Slot -> 0..Cardinality(Node)]

\* With no fault or with nodes offline, a record is never OK unless it was posted at
\* least twice (but for three nodes): in a run where every leader is answered at
\* once all records FAIL, as they do in benchmarks/results.csv.  The order of the
\* background tasks of pre_prepare makes the driver's retry after a time-out a
\* condition of success.
OkNeedsSecondRound ==
    \A s \in Slot : verdict[s] = "OK" /\ rounds[s] <= 1 => Cardinality(Node) = 3

\* An OK record was signed by more nodes than a quorum of COMMITs, however the
\* votes, evictions and late posts fall between one question and the next: the
\* nodes that said yes each count a quorum of others.
OkOutvotesQuorum ==
    \A s \in Slot :
        /\ verdict[s] = "OK"
        /\ OkNodes + Quorum > Cardinality(Node)
        => Cardinality(Signers("COMMIT", s)) > Quorum

\* Whatever the order of fast-forwards, commits, evictions, restarts and of head
\* resets that arrive batches late, no head is beyond the slots that have been
\* posted: the next slot is never taken for an old one.
HeadNotAhead ==
    \A n \in Node :
        local_head[n] = 0 \/ \E s \in Slot : rounds[s] > 0 /\ local_head[n] <= s

\* The driver cannot go round in circles: each of its steps, a leader replaced and a
\* record posted again included, leaves less to do, whatever the nodes did in between,
\* and no late answer gives it back what it had done with.  What is left never goes
\* below zero, so the driver takes finitely many steps (the loops of profiler.py
\* 146-176 and 198-213).
DriverAdvances ==
    [][/\ Left' \in [1..7 -> Nat]
       /\ DriverStep => Lower(Left', Left)
       /\ ~DriverStep => Left' = Left \/ Lower(Left', Left)]_<<vars, driver>>

\* The batches end, whatever the nodes do: with every node silent the driver
\* gives up every post, takes every leader once and judges every record.
BatchRunEnds == <>(at = "done")
=============================================================================
