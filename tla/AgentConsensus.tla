--------------------------- MODULE AgentConsensus ---------------------------
(***************************************************************************)
(* The cluster of AgentConsensus nodes: the /pre-prepare, /prepare,        *)
(* /commit and /reset-head handlers of node_app/routers/consensus.py, the  *)
(* background tasks they schedule, the ConsensusTracker they share, the    *)
(* HTTP posts between the nodes and the restart of a node.                 *)
(*                                                                         *)
(* Every handler body runs between two awaits of one event loop (the       *)
(* tracker's lock is never contended), so each is one action.  What is     *)
(* concurrent is everything around them: posts are delayed, reordered or   *)
(* lost, votes come with signatures that are not on them, the client posts *)
(* pre-prepares when it likes and the watchdogs of different nodes and of  *)
(* successive posts run at any time.                                       *)
(*                                                                         *)
(* The append of /commit succeeds here, and the ledger holds its entries   *)
(* only: an append that fails and the other writer of the file,            *)
(* POST /transaction, are the subject of Submission.                       *)
(***************************************************************************)
EXTENDS Naturals, FiniteSets, Sequences, Quorums

CONSTANTS
    Node,          \* the nodes of topology.json
    Slot,          \* the sequence numbers in use
    TxId,          \* the transaction ids that votes can name
    Envelope,      \* the ids of the signed envelopes a client can post
    SeqOf,         \* the sequence number of each transaction id
    NoEnvelope,    \* pre_prepares.get(seq) is None
    ResetTargets,  \* the values a client passes to /reset-head
    Strays,        \* bound: the votes posted with a wrong signature
    MaxPosts,      \* bound: accepted pre-prepares per node and slot
    MaxRestarts    \* bound: restarts per node

ASSUME NodeAssumption == IsFiniteSet(Node) /\ Node # {}
ASSUME SlotAssumption == Slot \subseteq Nat /\ ResetTargets \subseteq Nat
ASSUME TxAssumption == /\ Envelope \subseteq TxId
                       /\ NoEnvelope \notin TxId
                       /\ SeqOf \in [TxId -> Slot]
ASSUME BoundAssumption == MaxPosts \in Nat /\ MaxRestarts \in Nat

\* Faulty variant for the sensitivity of the runs: PEERS without its filter.
PeersWithSelf(n) == Node

\* PEERS of main.py: the names of the topology but NODE_ID.
Peers(n) == Node \ {n}
Quorum == QuorumThreshold(Cardinality(Node))

Stage == {"NONE", "PRE_PREPARED", "PREPARED", "COMMITTED", "EVICTED"}
Phase == {"PREPARE", "COMMIT"}
Message == [phase : Phase, from : Node, to : Node, tx : TxId]
Vote == [phase : Phase, from : Node, tx : TxId]

ASSUME StrayAssumption == Strays \subseteq Message

\* A signature is what was signed, and by whom; one that is nobody's on anything
\* (or that cannot even be decoded) is NoSignature.
NoSignature == [phase |-> "NONE"]

\* What the signature of vote m should be on, and by whose key.
Payload(m) == [phase |-> m.phase, from |-> m.from, tx |-> m.tx]

(***************************************************************************)
(* A task is a request whose response has been sent and whose background   *)
(* list is being run, in order, by Starlette: `at' is the entry that is    *)
(* next.  A /pre-prepare runs early_commits (if there was an early         *)
(* quorum), then watchdog, then prepares; a /prepare runs commits or       *)
(* nothing.                                                                *)
(***************************************************************************)
Task == [at : {"early_commits", "watchdog", "prepares", "commits"}, tx : TxId]

VARIABLES
    local_head,     \* tracker.local_head of each node
    pre_prepares,   \* tracker.pre_prepares: the record held for each slot
    prepare_votes,  \* tracker.prepare_votes: absent and empty are alike
    commit_votes,   \* tracker.commit_votes
    local_stage,    \* tracker.local_stage: "NONE" is an absent key
    ledger,         \* what /commit appended to ledger.json, in order
    jobs,           \* the number of requests of each node at each Task
    net,            \* copies of each message that can still be delivered
    signed,         \* history: the votes each node has ever signed
    posts,          \* history: accepted pre-prepares per node and slot
    restarts        \* history: restarts of each node

tracker == <<local_head, pre_prepares, prepare_votes, commit_votes, local_stage>>
history == <<posts, restarts>>
vars == <<local_head, pre_prepares, prepare_votes, commit_votes, local_stage,
          ledger, jobs, net, signed, posts, restarts>>

OpenStages == {"PRE_PREPARED", "PREPARED"}
Open(n, s) == local_stage[n][s] \in OpenStages

NoTasks == [k \in Task |-> 0]

TypeOK ==
    /\ local_head \in [Node -> Nat]
    /\ pre_prepares \in [Node -> [Slot -> Envelope \cup {NoEnvelope}]]
    /\ prepare_votes \in [Node -> [Slot -> SUBSET Node]]
    /\ commit_votes \in [Node -> [Slot -> SUBSET Node]]
    /\ local_stage \in [Node -> [Slot -> Stage]]
    /\ ledger \in [Node -> Seq(Envelope)]
    /\ jobs \in [Node -> [Task -> Nat]]
    /\ net \in [Message -> Nat]
    /\ signed \in SUBSET Vote
    /\ posts \in [Node -> [Slot -> Nat]]
    /\ restarts \in [Node -> Nat]

Init ==
    /\ local_head = [n \in Node |-> 0]
    /\ pre_prepares = [n \in Node |-> [s \in Slot |-> NoEnvelope]]
    /\ prepare_votes = [n \in Node |-> [s \in Slot |-> {}]]
    /\ commit_votes = [n \in Node |-> [s \in Slot |-> {}]]
    /\ local_stage = [n \in Node |-> [s \in Slot |-> "NONE"]]
    /\ ledger = [n \in Node |-> <<>>]
    /\ jobs = [n \in Node |-> NoTasks]
    /\ net = [m \in Message |-> 0]
    /\ signed = {}
    /\ posts = [n \in Node |-> [s \in Slot |-> 0]]
    /\ restarts = [n \in Node |-> 0]

-----------------------------------------------------------------------------
(* POST /pre-prepare *)

\* The slots whose record and votes a pre-prepare for seq discards: if seq is
\* beyond the next expected slot, all earlier slots that have a stage.
Superseded(n, seq) ==
    {s \in Slot : /\ seq > local_head[n] + 1
                  /\ s < seq
                  /\ local_stage[n][s] # "NONE"}

\* The record is stored (over an earlier one) after the fast-forward.  The
\* stage entries of the discarded slots stay as they are.
StoreRecord(n, e) ==
    LET seq == SeqOf[e]
        gone == Superseded(n, seq)
    IN  /\ posts[n][seq] < MaxPosts
        /\ posts' = [posts EXCEPT ![n][seq] = @ + 1]
        /\ pre_prepares' = [pre_prepares EXCEPT ![n] =
               [s \in Slot |-> IF s = seq THEN e
                               ELSE IF s \in gone THEN NoEnvelope ELSE @[s]]]
        /\ prepare_votes' = [prepare_votes EXCEPT ![n] =
               [s \in Slot |-> IF s \in gone THEN {} ELSE @[s]]]
        /\ commit_votes' = [commit_votes EXCEPT ![n] =
               [s \in Slot |-> IF s \in gone THEN {} ELSE @[s]]]
        /\ local_head' = [local_head EXCEPT ![n] =
               IF seq > @ + 1 THEN seq - 1 ELSE @]

\* Faulty variants: a quorum exceeded instead of reached, and no quorum asked.
EarlyQuorumStrict(n, seq) == Cardinality(prepare_votes[n][seq]) > Quorum
EarlyQuorumAssumed(n, seq) == TRUE

\* Whether the PREPAREs that arrived before the pre-prepare are a quorum.
EarlyQuorum(n, seq) == Cardinality(prepare_votes[n][seq]) >= Quorum

\* Faulty variant: a list without the watchdog.
FirstTaskUnguarded(n, seq) ==
    IF EarlyQuorum(n, seq) THEN "early_commits" ELSE "prepares"

\* The first entry of the background list of a /pre-prepare.
FirstTask(n, seq) == IF EarlyQuorum(n, seq) THEN "early_commits" ELSE "watchdog"

\* Node n accepts the pre-prepare of envelope e: whatever the stage of the slot
\* was, it is now PRE_PREPARED, or PREPARED if a quorum is already there.
PrePrepare(n, e) ==
    LET seq == SeqOf[e] IN
    /\ StoreRecord(n, e)
    /\ local_stage' = [local_stage EXCEPT ![n][seq] =
           IF EarlyQuorum(n, seq) THEN "PREPARED" ELSE "PRE_PREPARED"]
    /\ jobs' = [jobs EXCEPT ![n][[at |-> FirstTask(n, seq), tx |-> e]] = @ + 1]
    /\ UNCHANGED <<ledger, net, signed, restarts>>

-----------------------------------------------------------------------------
(* POST /prepare and POST /commit *)

Deliver(m) == /\ net[m] > 0
              /\ net' = [net EXCEPT ![m] = @ - 1]

\* A vote is one of the posts of its sender's broadcast, each of which arrives once at
\* most.  With any signature but the right one it is a post of somebody else, which
\* may come at any time.
Arrives(m, sig) == IF sig = Payload(m) THEN Deliver(m) ELSE UNCHANGED net

\* The signatures with which vote m can arrive.
Signatures(m) ==
    {Payload(m)} \cup (IF m \in Strays THEN signed \cup {NoSignature} ELSE {})

\* Faulty variant: the phase is not part of what is signed.
VerifiesAnyPhase(m, sig) ==
    sig # NoSignature /\ sig.from = m.from /\ sig.tx = m.tx

\* verify_signature: by the sender's key, on transaction, slot and phase.
Verifies(m, sig) == sig = Payload(m)

\* A vote counts if the slot holds no record or holds the record it names.
Counts(n, tx) == pre_prepares[n][SeqOf[tx]] \in {NoEnvelope, tx}

\* The voters of the slot of m, once m has been counted or dropped.
Tally(votes, m) ==
    votes[m.to][SeqOf[m.tx]] \cup (IF Counts(m.to, m.tx) THEN {m.from} ELSE {})

\* Faulty variant: a late quorum promotes a slot in any stage.
PromotesAlways(n, s, voters) == Cardinality(voters) >= Quorum

\* Whether the slot is promoted by the voters counted so far.
Promotes(n, s, voters) == /\ Cardinality(voters) >= Quorum
                          /\ local_stage[n][s] = "PRE_PREPARED"

\* A PREPARE is counted at m.to.
CountPrepare(m) ==
    LET n == m.to
        seq == SeqOf[m.tx]
        voters == Tally(prepare_votes, m)
        prepared == Promotes(n, seq, voters)
    IN  /\ prepare_votes' = [prepare_votes EXCEPT ![n][seq] = voters]
        /\ local_stage' = IF prepared
                          THEN [local_stage EXCEPT ![n][seq] = "PREPARED"]
                          ELSE local_stage
        /\ jobs' = IF prepared
                   THEN [jobs EXCEPT ![n][[at |-> "commits", tx |-> m.tx]] = @ + 1]
                   ELSE jobs
        /\ UNCHANGED <<local_head, pre_prepares, commit_votes>>

\* A PREPARE arrives at m.to.  If its signature does not verify the vote is dropped,
\* with the same answer as any other.
ReceivePrepare(m, sig) ==
    /\ m.phase = "PREPARE"
    /\ Arrives(m, sig)
    /\ IF Verifies(m, sig) THEN CountPrepare(m) ELSE UNCHANGED <<tracker, jobs>>
    /\ UNCHANGED <<ledger, signed, history>>

\* Faulty variants: no test of the missing record, and no entry for a slot that
\* is not beyond the head.
AppendedUnchecked(n, s) == <<pre_prepares[n][s]>>
AppendedBeyondHead(n, s) ==
    IF pre_prepares[n][s] = NoEnvelope \/ s <= local_head[n]
    THEN <<>> ELSE <<pre_prepares[n][s]>>

\* What committing slot s appends to the ledger of node n: the record held, and
\* nothing when a fast-forward has discarded it.
Appended(n, s) ==
    IF pre_prepares[n][s] = NoEnvelope THEN <<>> ELSE <<pre_prepares[n][s]>>

\* Whether the slot is committed by the voters counted so far.
Decides(n, s, voters) == /\ Cardinality(voters) >= Quorum
                         /\ local_stage[n][s] = "PREPARED"

\* A COMMIT is counted at m.to.
CountCommit(m) ==
    LET n == m.to
        seq == SeqOf[m.tx]
        voters == Tally(commit_votes, m)
        committed == Decides(n, seq, voters)
    IN  /\ commit_votes' = [commit_votes EXCEPT ![n][seq] = voters]
        /\ local_stage' = IF committed
                          THEN [local_stage EXCEPT ![n][seq] = "COMMITTED"]
                          ELSE local_stage
        /\ local_head' = IF committed THEN [local_head EXCEPT ![n] = seq]
                         ELSE local_head
        /\ ledger' = IF committed
                     THEN [ledger EXCEPT ![n] = @ \o Appended(n, seq)]
                     ELSE ledger
        /\ UNCHANGED <<pre_prepares, prepare_votes>>

\* A COMMIT arrives at m.to, to be dropped if its signature does not verify.
ReceiveCommit(m, sig) ==
    /\ m.phase = "COMMIT"
    /\ Arrives(m, sig)
    /\ IF Verifies(m, sig) THEN CountCommit(m) ELSE UNCHANGED <<tracker, ledger>>
    /\ UNCHANGED <<jobs, signed, history>>

-----------------------------------------------------------------------------
(* Background tasks *)

\* One request of node n moves from entry `at' of its background list to `next'.
Advance(n, at, next, tx) ==
    /\ jobs[n][[at |-> at, tx |-> tx]] > 0
    /\ jobs' = [jobs EXCEPT ![n][[at |-> at, tx |-> tx]] = @ - 1,
                            ![n][[at |-> next, tx |-> tx]] = @ + 1]

\* The last entry of the list: the request is over.
Finish(n, at, tx) ==
    /\ jobs[n][[at |-> at, tx |-> tx]] > 0
    /\ jobs' = [jobs EXCEPT ![n][[at |-> at, tx |-> tx]] = @ - 1]

\* The vote is signed once and posted to each peer, never to the node itself.
\* Each post has its own delay, up to never arriving, so all are put at once.
Broadcast(phase, n, tx) ==
    /\ signed' = signed \cup {[phase |-> phase, from |-> n, tx |-> tx]}
    /\ net' = [m \in Message |->
                  IF /\ m.phase = phase /\ m.from = n
                     /\ m.tx = tx /\ m.to \in Peers(n)
                  THEN net[m] + 1 ELSE net[m]]

\* _broadcast_commits, scheduled by the /pre-prepare that found an early quorum.
BroadcastEarlyCommits(n, e) ==
    /\ Advance(n, "early_commits", "watchdog", e)
    /\ Broadcast("COMMIT", n, e)
    /\ UNCHANGED <<tracker, ledger, history>>

\* _broadcast_commits, scheduled by the /prepare that completed the quorum.
BroadcastCommits(n, tx) ==
    /\ Finish(n, "commits", tx)
    /\ Broadcast("COMMIT", n, tx)
    /\ UNCHANGED <<tracker, ledger, history>>

\* _broadcast_prepares: it stands after the watchdog in the list, so it runs
\* once the watchdog of the same request has returned.
BroadcastPrepares(n, e) ==
    /\ Finish(n, "prepares", e)
    /\ Broadcast("PREPARE", n, e)
    /\ UNCHANGED <<tracker, ledger, history>>

\* Faulty variant: a decided slot is no exception.
StalledAlways(stage) == stage # "EVICTED"

\* Whether the watchdog (and the check force_garbage_collection repeats under
\* the lock) goes on to evict the slot.
Stalled(stage) == stage \notin {"COMMITTED", "EVICTED"}

\* The two seconds of a watchdog are over.  It evicts a slot that has not been
\* decided, whichever pre-prepare opened it.
Watchdog(n, e) ==
    LET seq == SeqOf[e] IN
    /\ Advance(n, "watchdog", "prepares", e)
    /\ IF Stalled(local_stage[n][seq])
       THEN /\ pre_prepares' = [pre_prepares EXCEPT ![n][seq] = NoEnvelope]
            /\ prepare_votes' = [prepare_votes EXCEPT ![n][seq] = {}]
            /\ commit_votes' = [commit_votes EXCEPT ![n][seq] = {}]
            /\ local_head' = [local_head EXCEPT ![n] = seq]
            /\ local_stage' = [local_stage EXCEPT ![n][seq] = "EVICTED"]
       ELSE UNCHANGED tracker
    /\ UNCHANGED <<ledger, net, signed, history>>

-----------------------------------------------------------------------------
(* POST /reset-head, and a node that stops and starts again *)

ResetHead(n, h) ==
    /\ local_head' = [local_head EXCEPT ![n] = h]
    /\ UNCHANGED <<pre_prepares, prepare_votes, commit_votes, local_stage,
                   ledger, jobs, net, signed, history>>

\* The tracker and the background tasks are gone, ledger.json is kept and the
\* posts the node had already made may still arrive.
Restart(n) ==
    /\ restarts[n] < MaxRestarts
    /\ restarts' = [restarts EXCEPT ![n] = @ + 1]
    /\ local_head' = [local_head EXCEPT ![n] = 0]
    /\ pre_prepares' = [pre_prepares EXCEPT ![n] = [s \in Slot |-> NoEnvelope]]
    /\ prepare_votes' = [prepare_votes EXCEPT ![n] = [s \in Slot |-> {}]]
    /\ commit_votes' = [commit_votes EXCEPT ![n] = [s \in Slot |-> {}]]
    /\ local_stage' = [local_stage EXCEPT ![n] = [s \in Slot |-> "NONE"]]
    /\ jobs' = [jobs EXCEPT ![n] = NoTasks]
    /\ UNCHANGED <<ledger, net, signed, posts>>

-----------------------------------------------------------------------------
Handlers == \/ \E n \in Node, e \in Envelope : PrePrepare(n, e)
            \/ \E m \in Message : \E sig \in Signatures(m) :
                  ReceivePrepare(m, sig) \/ ReceiveCommit(m, sig)
            \/ \E n \in Node, h \in ResetTargets : ResetHead(n, h)

Tasks == \/ \E n \in Node, e \in Envelope : \/ BroadcastEarlyCommits(n, e)
                                            \/ Watchdog(n, e)
                                            \/ BroadcastPrepares(n, e)
         \/ \E n \in Node, tx \in TxId : BroadcastCommits(n, tx)

Next == Handlers \/ Tasks \/ \E n \in Node : Restart(n)

\* The event loop runs every background task to its end: a watchdog sleeps two
\* seconds and each post of a broadcast gives up after two.  Nothing makes a
\* post arrive or a client call.
Fairness ==
    /\ \A n \in Node, e \in Envelope : /\ WF_vars(BroadcastEarlyCommits(n, e))
                                       /\ WF_vars(Watchdog(n, e))
                                       /\ WF_vars(BroadcastPrepares(n, e))
    /\ \A n \in Node, tx \in TxId : WF_vars(BroadcastCommits(n, tx))

Spec == Init /\ [][Next]_vars

FairSpec == Spec /\ Fairness

-----------------------------------------------------------------------------
(* Properties *)

\* The nodes that ever signed a vote of the phase for slot s.
Signers(phase, s) ==
    {n \in Node : \E tx \in TxId : /\ SeqOf[tx] = s
                                   /\ [phase |-> phase, from |-> n, tx |-> tx] \in signed}

\* A slot that is open on a node still has a watchdog ahead of it on that node:
\* no order of re-posts, early quorums, fast-forwards and older watchdogs leaves
\* an undecided slot that nothing will ever evict (pre_prepare schedules the
\* watchdog of every record it stores).
StallGuarded ==
    \A n \in Node, s \in Slot :
        Open(n, s) => \E e \in Envelope :
            /\ SeqOf[e] = s
            /\ \/ jobs[n][[at |-> "early_commits", tx |-> e]] > 0
               \/ jobs[n][[at |-> "watchdog", tx |-> e]] > 0

\* A slot never waits in PRE_PREPARED with a quorum of PREPAREs counted: the
\* promotion is tried both when a vote arrives and when the record does, so
\* their order does not matter (the early-quorum check of pre_prepare).
NoIdleQuorum ==
    \A n \in Node, s \in Slot :
        local_stage[n][s] = "PRE_PREPARED"
            => Cardinality(prepare_votes[n][s]) < Quorum

\* Every vote counted for a slot was signed, for that slot and that phase, by a
\* node other than the one that counts it: a signature of its own on something else
\* does not make a vote count, not even one on the other phase of the same
\* transaction (the signature checks of prepare and commit, and PEERS).
VotesAuthentic ==
    \A n \in Node, s \in Slot :
        /\ prepare_votes[n][s] \subseteq Signers("PREPARE", s) \ {n}
        /\ commit_votes[n][s] \subseteq Signers("COMMIT", s) \ {n}

\* Node n has decided slot s: its stage says so or its ledger has an entry.
Decided(n, s) == \/ local_stage[n][s] = "COMMITTED"
                 \/ \E i \in 1..Len(ledger[n]) : SeqOf[ledger[n][i]] = s

\* A slot is decided only after a quorum of other nodes signed a COMMIT for it
\* and a quorum of nodes signed a PREPARE for it, through every eviction,
\* fast-forward, re-post and restart in between (the two phases of the routers).
DecisionCertified ==
    \A n \in Node, s \in Slot :
        Decided(n, s) => /\ Cardinality(Signers("COMMIT", s) \ {n}) >= Quorum
                         /\ Cardinality(Signers("PREPARE", s)) >= Quorum

EntriesOf(n, s) == {i \in 1..Len(ledger[n]) : SeqOf[ledger[n][i]] = s}

\* Each accepted pre-prepare yields at most one entry of /commit: late votes for a
\* slot already committed append nothing more, and of its handlers only a new
\* pre-prepare can lead to another.
OneEntryPerPost ==
    \A n \in Node, s \in Slot :
        Cardinality(EntriesOf(n, s)) + (IF Open(n, s) THEN 1 ELSE 0) <= posts[n][s]

\* One slot of one node, as an instance of the abstract life of a slot.
Life(n, s) == INSTANCE SlotLife WITH stage <- local_stage[n][s],
                                     posts <- posts[n][s],
                                     copies <- Cardinality(EntriesOf(n, s))

\* Every slot of every node lives the life SlotLife allows, whatever is done to
\* the other slots and whichever attempt a vote or watchdog belongs to: PREPARED
\* before COMMITTED, at most one entry, written by the step that decides, and no
\* eviction but of an open slot (the handlers and tasks of routers/consensus.py).
LifePerSlot ==
    /\ \A n \in Node, s \in Slot : Life(n, s)!LifeInit
    /\ [][\A n \in Node, s \in Slot :
              Life(n, s)!LifeNext \/ UNCHANGED Life(n, s)!slot]_vars

\* A committed slot whose record has not been discarded has that record on the
\* ledger: /verify-tx, the record and ledger.json agree, as long as no append fails.
CommittedRecordOnLedger ==
    \A n \in Node, s \in Slot :
        /\ local_stage[n][s] = "COMMITTED"
        /\ pre_prepares[n][s] # NoEnvelope
        => \E i \in 1..Len(ledger[n]) : ledger[n][i] = pre_prepares[n][s]

\* When every node is given a slot once at most, no node ever commits it, unless
\* the cluster has exactly three nodes.  A node posts its PREPAREs after its own
\* watchdog, so a first quorum of PREPAREs costs a quorum of nodes that have
\* evicted the slot and cannot sign a COMMIT for it (the order of the background
\* tasks of pre_prepare): a commit takes two disjoint quorums and a node besides.
CommitNeedsRepost ==
    \A s \in Slot :
        /\ \E n \in Node : Decided(n, s)
        /\ \A n \in Node : posts[n][s] <= 1
        => Cardinality(Node) = 3

\* A slot is decided only if more nodes than a quorum have accepted a pre-prepare
\* for it, since a node never counts itself: of 3f + 1 nodes at most f - 1 may be
\* absent, and of four none (quorum_threshold against the votes of PEERS).
DecisionNeedsAudience ==
    \A s \in Slot :
        (\E n \in Node : Decided(n, s))
            => Cardinality({n \in Node : posts[n][s] >= 1}) > Quorum

\* A committed slot is reopened only by a pre-prepare or forgotten by a restart:
\* no watchdog evicts it, not even one whose sleep began before an earlier
\* attempt was evicted and the slot posted again.
CommittedNotEvicted ==
    [][\A n \in Node, s \in Slot :
          /\ local_stage[n][s] = "COMMITTED"
          /\ local_stage'[n][s] # "COMMITTED"
          => \/ posts'[n][s] > posts[n][s]
             \/ restarts'[n] > restarts[n]]_vars

\* Every open slot is eventually committed, evicted or forgotten: losing any
\* number of posts cannot leave it open (consensus_watchdog).
OpenSlotsClose ==
    \A n \in Node, s \in Slot : Open(n, s) ~> ~Open(n, s)

\* A slot is PREPARED only on a quorum of PREPAREs for the record it holds.
PreparedForItsRecord ==
    \A n \in Node, s \in Slot :
        /\ local_stage[n][s] = "PREPARED"
        /\ pre_prepares[n][s] # NoEnvelope
        => Cardinality({m \in Node : [phase |-> "PREPARE", from |-> m,
                                      tx |-> pre_prepares[n][s]] \in signed}) >= Quorum

\* A slot that /verify-tx reports as committed is on the ledger of that node.
CommittedIsOnLedger ==
    \A n \in Node, s \in Slot :
        local_stage[n][s] = "COMMITTED" => EntriesOf(n, s) # {}
==============================================================================
