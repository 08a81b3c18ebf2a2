------------------------ MODULE AgentConsensusProofs ------------------------
(***************************************************************************)
(* Proofs about AgentConsensus, for every finite set of nodes, every set   *)
(* of slots and envelopes and every bound.  In order: types, guarded       *)
(* stalls, quorums that are never idle, the certificates behind a decision *)
(* (CertInv) and the cost of a first quorum of PREPAREs (RepostInv).       *)
(***************************************************************************)
EXTENDS AgentConsensus, FiniteSetTheorems, TLAPS

-----------------------------------------------------------------------------
(* Steps: a vote with a wrong signature changes nothing, so a step that changes *)
(* anything counts a vote with its own signature or is none of a vote.          *)

\* A PREPARE, or a COMMIT, arrives as its sender posted it and is counted.
GenuinePrepare(m) ==
    /\ m.phase = "PREPARE"
    /\ Deliver(m)
    /\ CountPrepare(m)
    /\ UNCHANGED <<ledger, signed, history>>

GenuineCommit(m) ==
    /\ m.phase = "COMMIT"
    /\ Deliver(m)
    /\ CountCommit(m)
    /\ UNCHANGED <<jobs, signed, history>>

EffectiveNext ==
    \/ \E n \in Node, e \in Envelope : PrePrepare(n, e)
    \/ \E m \in Message : GenuinePrepare(m) \/ GenuineCommit(m)
    \/ \E n \in Node, h \in ResetTargets : ResetHead(n, h)
    \/ Tasks
    \/ \E n \in Node : Restart(n)

\* With the signature of its sender on it, a vote is counted, in a step of the cluster.
LEMMA OwnSignature ==
    ASSUME NEW m \in Message
    PROVE  /\ ReceivePrepare(m, Payload(m)) <=> GenuinePrepare(m)
           /\ ReceiveCommit(m, Payload(m)) <=> GenuineCommit(m)
           /\ ReceivePrepare(m, Payload(m)) \/ ReceiveCommit(m, Payload(m)) => Next
  <1>1. /\ ReceivePrepare(m, Payload(m)) <=> GenuinePrepare(m)
        /\ ReceiveCommit(m, Payload(m)) <=> GenuineCommit(m)
    BY DEF ReceivePrepare, ReceiveCommit, GenuinePrepare, GenuineCommit, Arrives,
           Verifies
  <1>2. Payload(m) \in Signatures(m)
    BY DEF Signatures
  <1> QED
    BY <1>1, <1>2 DEF Next, Handlers

\* With any other it changes nothing.
LEMMA WrongSignature ==
    ASSUME NEW m \in Message, NEW sig, sig # Payload(m),
           ReceivePrepare(m, sig) \/ ReceiveCommit(m, sig)
    PROVE  UNCHANGED vars
  BY DEF ReceivePrepare, ReceiveCommit, Arrives, Verifies, vars, tracker, history

\* Whatever the signatures of the votes that arrive, a step is one of EffectiveNext.
LEMMA EffectiveStep == [Next]_vars => [EffectiveNext]_vars
  <1>1. ASSUME NEW m \in Message, NEW sig \in Signatures(m),
               ReceivePrepare(m, sig) \/ ReceiveCommit(m, sig)
        PROVE  [EffectiveNext]_vars
    <2>1. CASE sig = Payload(m)
      BY <1>1, <2>1, OwnSignature DEF EffectiveNext
    <2>2. CASE sig # Payload(m)
      BY <1>1, <2>2, WrongSignature
    <2> QED
      BY <2>1, <2>2
  <1> QED
    BY <1>1 DEF Next, Handlers, EffectiveNext

-----------------------------------------------------------------------------
(* Types *)

Jobs == [Node -> [Task -> Nat]]

\* An entry of a background list with its transaction is a task.
LEMMA TaskTyped ==
    ASSUME NEW a \in {"early_commits", "watchdog", "prepares", "commits"},
           NEW t \in TxId
    PROVE  [at |-> a, tx |-> t] \in Task
  BY DEF Task

\* A request more at a task.
LEMMA JobAdded ==
    ASSUME NEW J \in Jobs, NEW n \in Node, NEW k \in Task
    PROVE  [J EXCEPT ![n][k] = @ + 1] \in Jobs
  BY DEF Jobs

\* A request that runs its last task.
LEMMA JobEnded ==
    ASSUME NEW J \in Jobs, NEW n \in Node, NEW k \in Task, J[n][k] > 0
    PROVE  [J EXCEPT ![n][k] = @ - 1] \in Jobs
  BY DEF Jobs

\* A request that goes on to the next entry of its list.
LEMMA JobMoved ==
    ASSUME NEW J \in Jobs, NEW n \in Node, NEW k \in Task, NEW l \in Task,
           J[n][k] > 0
    PROVE  [J EXCEPT ![n][k] = @ - 1, ![n][l] = @ + 1] \in Jobs
  BY DEF Jobs

\* The initial state has the declared types.
LEMMA InitTyped == Init => TypeOK
  BY NodeAssumption, SlotAssumption, TxAssumption
  DEF Init, TypeOK, Stage, NoTasks

\* Storing a record, fast-forward included, keeps the types.
LEMMA PrePrepareTyped ==
    ASSUME TypeOK, NEW n \in Node, NEW e \in Envelope, PrePrepare(n, e)
    PROVE  TypeOK'
  <1> DEFINE seq == SeqOf[e]
             gone == Superseded(n, seq)
  <1>1. /\ e \in TxId /\ seq \in Slot /\ seq \in Nat
        /\ gone \subseteq Slot
    BY TxAssumption, SlotAssumption DEF Superseded
  <1>2. local_head' \in [Node -> Nat]
    BY <1>1 DEF PrePrepare, StoreRecord, TypeOK
  <1>3. pre_prepares' \in [Node -> [Slot -> Envelope \cup {NoEnvelope}]]
    BY <1>1 DEF PrePrepare, StoreRecord, TypeOK
  <1>4. /\ prepare_votes' \in [Node -> [Slot -> SUBSET Node]]
        /\ commit_votes' \in [Node -> [Slot -> SUBSET Node]]
    BY <1>1 DEF PrePrepare, StoreRecord, TypeOK
  <1>5. local_stage' \in [Node -> [Slot -> Stage]]
    BY <1>1 DEF PrePrepare, TypeOK, Stage
  <1>6. jobs' \in Jobs
    <2>1. [at |-> FirstTask(n, seq), tx |-> e] \in Task
      BY <1>1, TaskTyped DEF FirstTask
    <2> QED
      BY <2>1, JobAdded DEF PrePrepare, TypeOK, Jobs
  <1>7. posts' \in [Node -> [Slot -> Nat]]
    BY <1>1 DEF PrePrepare, StoreRecord, TypeOK
  <1> QED
    BY <1>2, <1>3, <1>4, <1>5, <1>6, <1>7 DEF PrePrepare, TypeOK, Jobs

\* The state each vote handler leaves is typed, whatever the vote.
LEMMA TallyTyped ==
    ASSUME TypeOK, NEW m \in Message,
           NEW votes \in [Node -> [Slot -> SUBSET Node]]
    PROVE  /\ m.to \in Node /\ m.from \in Node /\ m.tx \in TxId
           /\ SeqOf[m.tx] \in Slot /\ SeqOf[m.tx] \in Nat
           /\ Tally(votes, m) \in SUBSET Node
  <1>1. m.to \in Node /\ m.from \in Node /\ m.tx \in TxId
    BY DEF Message
  <1>2. SeqOf[m.tx] \in Slot /\ SeqOf[m.tx] \in Nat
    BY <1>1, TxAssumption, SlotAssumption
  <1>3. votes[m.to][SeqOf[m.tx]] \in SUBSET Node
    BY <1>1, <1>2
  <1> QED
    BY <1>1, <1>2, <1>3 DEF Tally

\* Taking a copy of a message off the network leaves a count.
LEMMA DeliverTyped ==
    ASSUME TypeOK, NEW m \in Message, Deliver(m)
    PROVE  net' \in [Message -> Nat]
  BY DEF TypeOK, Deliver

\* A PREPARE keeps the types, whether counted, dropped or decisive.
LEMMA GenuinePrepareTyped ==
    ASSUME TypeOK, NEW m \in Message, GenuinePrepare(m)
    PROVE  TypeOK'
  <1> DEFINE n == m.to
             seq == SeqOf[m.tx]
             voters == Tally(prepare_votes, m)
  <1>1. /\ n \in Node /\ m.tx \in TxId /\ seq \in Slot
        /\ voters \in SUBSET Node
    BY TallyTyped DEF TypeOK
  <1>2. prepare_votes' \in [Node -> [Slot -> SUBSET Node]]
    BY <1>1 DEF GenuinePrepare, CountPrepare, TypeOK
  <1>3. local_stage' \in [Node -> [Slot -> Stage]]
    BY <1>1 DEF GenuinePrepare, CountPrepare, TypeOK, Stage
  <1>4. jobs' \in Jobs
    BY <1>1, TaskTyped, JobAdded DEF GenuinePrepare, CountPrepare, TypeOK, Jobs
  <1>5. net' \in [Message -> Nat]
    BY DeliverTyped DEF GenuinePrepare, CountPrepare
  <1> QED
    BY <1>2, <1>3, <1>4, <1>5 DEF GenuinePrepare, CountPrepare, TypeOK, Jobs, history

\* A COMMIT keeps the types: the ledger gains an envelope or nothing.
LEMMA GenuineCommitTyped ==
    ASSUME TypeOK, NEW m \in Message, GenuineCommit(m)
    PROVE  TypeOK'
  <1> DEFINE n == m.to
             seq == SeqOf[m.tx]
             voters == Tally(commit_votes, m)
  <1>1. /\ n \in Node /\ m.tx \in TxId /\ seq \in Slot /\ seq \in Nat
        /\ voters \in SUBSET Node
    BY TallyTyped DEF TypeOK
  <1>2. commit_votes' \in [Node -> [Slot -> SUBSET Node]]
    BY <1>1 DEF GenuineCommit, CountCommit, TypeOK
  <1>3. local_stage' \in [Node -> [Slot -> Stage]]
    BY <1>1 DEF GenuineCommit, CountCommit, TypeOK, Stage
  <1>4. local_head' \in [Node -> Nat]
    BY <1>1 DEF GenuineCommit, CountCommit, TypeOK
  <1>5. ledger' \in [Node -> Seq(Envelope)]
    <2>1. Appended(n, seq) \in Seq(Envelope)
      BY <1>1 DEF Appended, TypeOK
    <2>2. ledger[n] \o Appended(n, seq) \in Seq(Envelope)
      BY <1>1, <2>1 DEF TypeOK
    <2> QED
      BY <1>1, <2>2 DEF GenuineCommit, CountCommit, TypeOK
  <1>6. net' \in [Message -> Nat]
    BY DeliverTyped DEF GenuineCommit, CountCommit
  <1> QED
    BY <1>2, <1>3, <1>4, <1>5, <1>6 DEF GenuineCommit, CountCommit, TypeOK, history

\* A broadcast signs a vote and adds copies to the network.
LEMMA BroadcastTyped ==
    ASSUME TypeOK, NEW ph \in Phase, NEW n \in Node, NEW tx \in TxId,
           Broadcast(ph, n, tx)
    PROVE  signed' \in SUBSET Vote /\ net' \in [Message -> Nat]
  BY DEF TypeOK, Broadcast, Vote

\* Moving a request along its list keeps the counts.
LEMMA AdvanceTyped ==
    ASSUME TypeOK, NEW n \in Node, NEW tx \in TxId,
           NEW at \in {"early_commits", "watchdog", "prepares", "commits"},
           NEW next \in {"early_commits", "watchdog", "prepares", "commits"},
           Advance(n, at, next, tx) \/ Finish(n, at, tx)
    PROVE  jobs' \in Jobs
  <1> DEFINE k == [at |-> at, tx |-> tx]
             l == [at |-> next, tx |-> tx]
  <1>1. k \in Task /\ l \in Task /\ jobs \in Jobs
    BY TaskTyped DEF TypeOK, Jobs
  <1>2. CASE Advance(n, at, next, tx)
    <2>1. jobs[n][k] > 0 /\ jobs' = [jobs EXCEPT ![n][k] = @ - 1, ![n][l] = @ + 1]
      BY <1>2 DEF Advance
    <2> QED
      BY <1>1, <2>1, JobMoved
  <1>3. CASE Finish(n, at, tx)
    <2>1. jobs[n][k] > 0 /\ jobs' = [jobs EXCEPT ![n][k] = @ - 1]
      BY <1>3 DEF Finish
    <2> QED
      BY <1>1, <2>1, JobEnded
  <1> QED
    BY <1>2, <1>3

\* Every action keeps the types.
LEMMA NextTyped == TypeOK /\ [Next]_vars => TypeOK'
  <1> SUFFICES ASSUME TypeOK, [Next]_vars
               PROVE  TypeOK'
    OBVIOUS
  <1> USE DEF history
  <1>1. ASSUME NEW n \in Node, NEW e \in Envelope, PrePrepare(n, e)
        PROVE  TypeOK'
    BY <1>1, PrePrepareTyped
  <1>2. ASSUME NEW m \in Message, GenuinePrepare(m)
        PROVE  TypeOK'
    BY <1>2, GenuinePrepareTyped
  <1>3. ASSUME NEW m \in Message, GenuineCommit(m)
        PROVE  TypeOK'
    BY <1>3, GenuineCommitTyped
  <1>4. ASSUME NEW n \in Node, NEW h \in ResetTargets, ResetHead(n, h)
        PROVE  TypeOK'
    BY <1>4, SlotAssumption DEF ResetHead, TypeOK
  <1>5. ASSUME NEW n \in Node, NEW tx \in TxId,
               \/ BroadcastEarlyCommits(n, tx)
               \/ BroadcastCommits(n, tx)
               \/ BroadcastPrepares(n, tx)
        PROVE  TypeOK'
    <2>1. jobs' \in Jobs
      BY <1>5, AdvanceTyped
      DEF BroadcastEarlyCommits, BroadcastCommits, BroadcastPrepares
    <2>2. signed' \in SUBSET Vote /\ net' \in [Message -> Nat]
      BY <1>5, BroadcastTyped
      DEF Phase, BroadcastEarlyCommits, BroadcastCommits, BroadcastPrepares
    <2> QED
      BY <1>5, <2>1, <2>2
      DEF TypeOK, Jobs, tracker,
          BroadcastEarlyCommits, BroadcastCommits, BroadcastPrepares
  <1>6. ASSUME NEW n \in Node, NEW e \in Envelope, Watchdog(n, e)
        PROVE  TypeOK'
    <2>1. e \in TxId /\ SeqOf[e] \in Slot /\ SeqOf[e] \in Nat
      BY TxAssumption, SlotAssumption
    <2>2. jobs' \in Jobs
      BY <1>6, <2>1, AdvanceTyped DEF Watchdog
    <2>3. CASE Stalled(local_stage[n][SeqOf[e]])
      <3>1. /\ pre_prepares' = [pre_prepares EXCEPT ![n][SeqOf[e]] = NoEnvelope]
            /\ prepare_votes' = [prepare_votes EXCEPT ![n][SeqOf[e]] = {}]
            /\ commit_votes' = [commit_votes EXCEPT ![n][SeqOf[e]] = {}]
            /\ local_head' = [local_head EXCEPT ![n] = SeqOf[e]]
            /\ local_stage' = [local_stage EXCEPT ![n][SeqOf[e]] = "EVICTED"]
            /\ UNCHANGED <<ledger, net, signed, posts, restarts>>
        BY <1>6, <2>3 DEF Watchdog
      <3> QED
        BY <2>1, <2>2, <3>1 DEF TypeOK, Jobs, Stage
    <2>4. CASE ~Stalled(local_stage[n][SeqOf[e]])
      BY <1>6, <2>2, <2>4 DEF Watchdog, TypeOK, Jobs, tracker
    <2> QED
      BY <2>3, <2>4
  <1>7. ASSUME NEW n \in Node, Restart(n)
        PROVE  TypeOK'
    BY <1>7 DEF Restart, TypeOK, Stage, NoTasks
  <1>8. CASE UNCHANGED vars
    BY <1>8 DEF TypeOK, vars
  <1> QED
    BY <1>1, <1>2, <1>3, <1>4, <1>5, <1>6, <1>7, <1>8, TxAssumption, EffectiveStep
    DEF EffectiveNext, Tasks

\* Every reachable state has the declared types, for any cluster, any set of
\* slots and any bounds: votes are nodes, ledgers are sequences of envelopes (the
\* missing-record test of /commit), and no task or message count goes below zero.
THEOREM TypeCorrect == Spec => []TypeOK
  <1>1. Init => TypeOK
    BY InitTyped
  <1>2. TypeOK /\ [Next]_vars => TypeOK'
    BY NextTyped
  <1> QED
    BY <1>1, <1>2, PTL DEF Spec

-----------------------------------------------------------------------------
(* Every open slot has a watchdog ahead of it *)

Waiting(n, k) == jobs[n][k] > 0

Guards(n, e) == \/ Waiting(n, [at |-> "early_commits", tx |-> e])
                \/ Waiting(n, [at |-> "watchdog", tx |-> e])

\* A step that takes no task of node n away keeps what guards its slots.
LEMMA GuardKept ==
    ASSUME TypeOK, StallGuarded, NEW n \in Node, NEW s \in Slot, Open(n, s),
           \A k \in Task : Waiting(n, k) => Waiting(n, k)'
    PROVE  \E e \in Envelope : SeqOf[e] = s /\ Guards(n, e)'
  <1>0. PICK e \in Envelope :
            /\ SeqOf[e] = s
            /\ \/ jobs[n][[at |-> "early_commits", tx |-> e]] > 0
               \/ jobs[n][[at |-> "watchdog", tx |-> e]] > 0
    BY DEF StallGuarded
  <1>1. SeqOf[e] = s /\ Guards(n, e)
    BY <1>0 DEF Guards, Waiting
  <1>2. /\ [at |-> "early_commits", tx |-> e] \in Task
        /\ [at |-> "watchdog", tx |-> e] \in Task
    BY TaskTyped, TxAssumption
  <1> QED
    BY <1>1, <1>2 DEF Guards

\* Every action keeps the open slots guarded.
LEMMA StallGuardedStep == TypeOK /\ StallGuarded /\ [Next]_vars => StallGuarded'
  <1> SUFFICES ASSUME TypeOK, StallGuarded, [Next]_vars,
                      NEW n \in Node, NEW s \in Slot, Open(n, s)'
               PROVE  \E e \in Envelope : SeqOf[e] = s /\ Guards(n, e)'
    BY DEF StallGuarded, Guards, Waiting
  <1> USE TxAssumption DEF history
  <1>1. ASSUME NEW p \in Node, NEW e \in Envelope, PrePrepare(p, e)
        PROVE  \E g \in Envelope : SeqOf[g] = s /\ Guards(n, g)'
    <2>0. PICK at \in {"early_commits", "watchdog"} : at = FirstTask(p, SeqOf[e])
      BY DEF FirstTask
    <2> DEFINE first == [at |-> at, tx |-> e]
    <2>1. first \in Task /\ SeqOf[e] \in Slot
      BY TaskTyped
    <2>2. jobs' = [jobs EXCEPT ![p][first] = @ + 1]
      BY <1>1, <2>0 DEF PrePrepare
    <2>3. CASE n = p /\ s = SeqOf[e]
      <3>1. Waiting(n, first)'
        BY <2>1, <2>2, <2>3 DEF Waiting, TypeOK
      <3> QED
        BY <2>3, <3>1 DEF Guards
    <2>4. CASE ~(n = p /\ s = SeqOf[e])
      <3>1. Open(n, s)
        BY <1>1, <2>1, <2>4 DEF PrePrepare, Open, TypeOK
      <3>2. \A k \in Task : Waiting(n, k) => Waiting(n, k)'
        BY <2>1, <2>2 DEF Waiting, TypeOK
      <3> QED
        BY <3>1, <3>2, GuardKept
    <2> QED
      BY <2>3, <2>4
  <1>2. ASSUME NEW m \in Message, GenuinePrepare(m)
        PROVE  \E g \in Envelope : SeqOf[g] = s /\ Guards(n, g)'
    <2>1. m.to \in Node /\ SeqOf[m.tx] \in Slot /\ m.tx \in TxId
      BY DEF Message
    <2>2. Open(n, s)
      BY <1>2, <2>1 DEF GenuinePrepare, CountPrepare, Promotes, Open, OpenStages, TypeOK
    <2>3. [at |-> "commits", tx |-> m.tx] \in Task
      BY <2>1, TaskTyped
    <2>4. \A k \in Task : Waiting(n, k) => Waiting(n, k)'
      BY <1>2, <2>1, <2>3 DEF GenuinePrepare, CountPrepare, Waiting, TypeOK
    <2> QED
      BY <2>2, <2>4, GuardKept
  <1>3. ASSUME NEW m \in Message, GenuineCommit(m)
        PROVE  \E g \in Envelope : SeqOf[g] = s /\ Guards(n, g)'
    <2>1. m.to \in Node /\ SeqOf[m.tx] \in Slot
      BY DEF Message
    <2>2. Open(n, s)
      BY <1>3, <2>1 DEF GenuineCommit, CountCommit, Open, OpenStages, TypeOK
    <2>3. \A k \in Task : Waiting(n, k) => Waiting(n, k)'
      BY <1>3 DEF GenuineCommit, CountCommit, Waiting
    <2> QED
      BY <2>2, <2>3, GuardKept
  <1>4. ASSUME NEW p \in Node, NEW e \in Envelope, BroadcastEarlyCommits(p, e)
        PROVE  \E g \in Envelope : SeqOf[g] = s /\ Guards(n, g)'
    <2> DEFINE from == [at |-> "early_commits", tx |-> e]
               to == [at |-> "watchdog", tx |-> e]
    <2>1. from \in Task /\ to \in Task /\ from # to
      BY TaskTyped
    <2>2. jobs' = [jobs EXCEPT ![p][from] = @ - 1, ![p][to] = @ + 1]
      BY <1>4 DEF BroadcastEarlyCommits, Advance
    <2>3. PICK g \in Envelope : SeqOf[g] = s /\ Guards(n, g)
      BY <1>4 DEF BroadcastEarlyCommits, tracker, Open, StallGuarded, Guards, Waiting
    <2>4. CASE n = p /\ g = e
      <3>1. Waiting(n, to)'
        BY <2>1, <2>2, <2>4 DEF Waiting, TypeOK
      <3> QED
        BY <2>3, <2>4, <3>1 DEF Guards
    <2>5. CASE ~(n = p /\ g = e)
      <3>1. /\ [at |-> "early_commits", tx |-> g] \in Task
            /\ [at |-> "watchdog", tx |-> g] \in Task
        BY TaskTyped
      <3>2. Guards(n, g)'
        BY <2>1, <2>2, <2>3, <2>5, <3>1 DEF Guards, Waiting, TypeOK
      <3> QED
        BY <2>3, <3>2
    <2> QED
      BY <2>4, <2>5
  <1>5. ASSUME NEW p \in Node, NEW tx \in TxId,
               BroadcastCommits(p, tx) \/ BroadcastPrepares(p, tx)
        PROVE  \E g \in Envelope : SeqOf[g] = s /\ Guards(n, g)'
    <2>1. PICK at \in {"commits", "prepares"} :
              jobs' = [jobs EXCEPT ![p][[at |-> at, tx |-> tx]] = @ - 1]
      BY <1>5 DEF BroadcastCommits, BroadcastPrepares, Finish
    <2>2. PICK g \in Envelope : SeqOf[g] = s /\ Guards(n, g)
      BY <1>5 DEF BroadcastCommits, BroadcastPrepares, tracker, Open,
                  StallGuarded, Guards, Waiting
    <2>3. /\ [at |-> "early_commits", tx |-> g] \in Task
          /\ [at |-> "watchdog", tx |-> g] \in Task
          /\ [at |-> at, tx |-> tx] \in Task
      BY TaskTyped
    <2>4. Guards(n, g)'
      BY <2>1, <2>2, <2>3 DEF Guards, Waiting, TypeOK
    <2> QED
      BY <2>2, <2>4
  <1>6. ASSUME NEW p \in Node, NEW e \in Envelope, Watchdog(p, e)
        PROVE  \E g \in Envelope : SeqOf[g] = s /\ Guards(n, g)'
    <2> DEFINE from == [at |-> "watchdog", tx |-> e]
               to == [at |-> "prepares", tx |-> e]
    <2>1. from \in Task /\ to \in Task /\ from # to /\ SeqOf[e] \in Slot
      BY TaskTyped
    <2>2. jobs' = [jobs EXCEPT ![p][from] = @ - 1, ![p][to] = @ + 1]
      BY <1>6 DEF Watchdog, Advance
    <2>3. ~(n = p /\ s = SeqOf[e])
      BY <1>6, <2>1 DEF Watchdog, Stalled, Open, OpenStages, TypeOK, tracker
    <2>4. Open(n, s)
      BY <1>6, <2>1, <2>3 DEF Watchdog, Open, TypeOK, tracker
    <2>5. PICK g \in Envelope : SeqOf[g] = s /\ Guards(n, g)
      BY <2>4 DEF StallGuarded, Guards, Waiting
    <2>6. /\ [at |-> "early_commits", tx |-> g] \in Task
          /\ [at |-> "watchdog", tx |-> g] \in Task
      BY TaskTyped
    <2>7. Guards(n, g)'
      BY <2>1, <2>2, <2>3, <2>5, <2>6 DEF Guards, Waiting, TypeOK
    <2> QED
      BY <2>5, <2>7
  <1>7. ASSUME NEW p \in Node, Restart(p)
        PROVE  \E g \in Envelope : SeqOf[g] = s /\ Guards(n, g)'
    <2>1. n # p /\ Open(n, s)
      BY <1>7 DEF Restart, Open, OpenStages, TypeOK
    <2>2. \A k \in Task : Waiting(n, k) => Waiting(n, k)'
      BY <1>7, <2>1 DEF Restart, Waiting, TypeOK
    <2> QED
      BY <2>1, <2>2, GuardKept
  <1>8. ASSUME \/ \E p \in Node, h \in ResetTargets : ResetHead(p, h)
               \/ UNCHANGED vars
        PROVE  \E g \in Envelope : SeqOf[g] = s /\ Guards(n, g)'
    <2>1. Open(n, s) /\ jobs' = jobs
      BY <1>8 DEF ResetHead, vars, Open
    <2> QED
      BY <2>1, GuardKept DEF Waiting
  <1> QED
    BY <1>1, <1>2, <1>3, <1>4, <1>5, <1>6, <1>7, <1>8, EffectiveStep
    DEF EffectiveNext, Tasks

\* On any cluster, any number of re-posts and restarts and any order of the
\* background tasks, a slot that is open on a node has a watchdog of that node
\* still to come: the stall that force_garbage_collection cleans up cannot be
\* missed by the routers.
THEOREM StallsAreGuarded == Spec => []StallGuarded
  <1>1. Init => StallGuarded
    BY DEF Init, StallGuarded, Open, OpenStages
  <1>2. TypeOK /\ StallGuarded /\ [Next]_vars => StallGuarded'
    BY StallGuardedStep
  <1> QED
    BY <1>1, <1>2, TypeCorrect, PTL DEF Spec

-----------------------------------------------------------------------------
(* Quorums of the cluster *)

\* The cluster has a size, and it is not zero.
LEMMA ClusterSize == Cardinality(Node) \in Nat \ {0}
  BY NodeAssumption, FS_CardinalityType, FS_EmptySet

\* A quorum has at least one vote.
LEMMA QuorumPositive == Quorum \in Nat \ {0}
  <1> DEFINE f == MaxFaulty(Cardinality(Node))
  <1>1. f \in Nat
    BY ClusterSize DEF MaxFaulty
  <1> QED
    BY <1>1 DEF Quorum, QuorumThreshold

\* A cluster holds two disjoint quorums and one more node only if it has three
\* nodes.
LEMMA TwoQuorumsAndOne ==
    Cardinality(Node) >= 2 * Quorum + 1 => Cardinality(Node) = 3
  <1> DEFINE N == Cardinality(Node)
             f == MaxFaulty(N)
  <1>1. N \in Nat /\ N >= 1
    BY ClusterSize
  <1>2. f \in Nat /\ 3 * f <= N - 1 /\ N - 1 < 3 * f + 3
    <2> HIDE DEF N
    <2> QED
      BY <1>1 DEF MaxFaulty
  <1>3. Quorum = 2 * f + 1
    BY DEF Quorum, QuorumThreshold
  <1>4. ASSUME N >= 2 * Quorum + 1
        PROVE  N = 3
    <2> HIDE DEF f, N
    <2>1. N >= 4 * f + 3
      BY <1>2, <1>3, <1>4
    <2> QED
      BY <1>1, <1>2, <2>1
  <1> QED
    BY <1>4

\* A set of voters has a size.
LEMMA VotersFinite ==
    ASSUME NEW S \in SUBSET Node
    PROVE  IsFiniteSet(S) /\ Cardinality(S) \in Nat
  BY NodeAssumption, FS_Subset, FS_CardinalityType

\* A larger set of voters is at least as large a quorum.
LEMMA VotersGrow ==
    ASSUME NEW S \in SUBSET Node, NEW T \in SUBSET Node, S \subseteq T
    PROVE  Cardinality(S) <= Cardinality(T)
  BY VotersFinite, FS_Subset

-----------------------------------------------------------------------------
(* No slot waits with a quorum *)

\* Every action keeps a quorum from waiting in PRE_PREPARED.
LEMMA NoIdleQuorumStep == TypeOK /\ NoIdleQuorum /\ [Next]_vars => NoIdleQuorum'
  <1> SUFFICES ASSUME TypeOK, NoIdleQuorum, [Next]_vars,
                      NEW n \in Node, NEW s \in Slot,
                      local_stage'[n][s] = "PRE_PREPARED"
               PROVE  Cardinality(prepare_votes'[n][s]) < Quorum
    BY DEF NoIdleQuorum, Quorum
  <1> USE TxAssumption, SlotAssumption DEF history
  <1>0. Quorum \in Nat /\ Quorum > 0
    BY QuorumPositive
  <1>1. ASSUME NEW p \in Node, NEW e \in Envelope, PrePrepare(p, e)
        PROVE  Cardinality(prepare_votes'[n][s]) < Quorum
    <2> DEFINE seq == SeqOf[e]
               gone == Superseded(p, seq)
    <2>1. seq \in Slot /\ seq \notin gone
      <3>1. seq \in Slot /\ seq \in Nat
        OBVIOUS
      <3>2. ~(seq < seq)
        BY <3>1
      <3> QED
        BY <3>1, <3>2 DEF Superseded
    <2>2. prepare_votes' = [prepare_votes EXCEPT ![p] =
               [x \in Slot |-> IF x \in gone THEN {} ELSE @[x]]]
      BY <1>1 DEF PrePrepare, StoreRecord
    <2>3. CASE n = p /\ s = seq
      <3>1. ~EarlyQuorum(p, seq)
        BY <1>1, <2>1, <2>3 DEF PrePrepare, TypeOK
      <3>2. prepare_votes'[n][s] = prepare_votes[n][s]
        BY <2>1, <2>2, <2>3 DEF TypeOK
      <3>3. Cardinality(prepare_votes[n][s]) \in Nat
        BY VotersFinite DEF TypeOK
      <3> QED
        BY <1>0, <2>3, <3>1, <3>2, <3>3 DEF EarlyQuorum
    <2>4. CASE ~(n = p /\ s = seq)
      <3>1. local_stage[n][s] = "PRE_PREPARED"
        BY <1>1, <2>1, <2>4 DEF PrePrepare, TypeOK
      <3>2. CASE n = p /\ s \in gone
        <4>1. prepare_votes'[n][s] = {}
          BY <2>2, <3>2 DEF TypeOK
        <4> QED
          BY <1>0, <4>1, FS_EmptySet
      <3>3. CASE ~(n = p /\ s \in gone)
        <4>1. prepare_votes'[n][s] = prepare_votes[n][s]
          BY <2>2, <3>3 DEF TypeOK
        <4> QED
          BY <3>1, <4>1 DEF NoIdleQuorum
      <3> QED
        BY <3>2, <3>3
    <2> QED
      BY <2>3, <2>4
  <1>2. ASSUME NEW m \in Message, GenuinePrepare(m)
        PROVE  Cardinality(prepare_votes'[n][s]) < Quorum
    <2> DEFINE seq == SeqOf[m.tx]
               voters == Tally(prepare_votes, m)
    <2>1. m.to \in Node /\ seq \in Slot /\ voters \in SUBSET Node
      BY TallyTyped DEF TypeOK
    <2>2. CASE n = m.to /\ s = seq
      <3>1. prepare_votes'[n][s] = voters
        BY <1>2, <2>1, <2>2 DEF GenuinePrepare, CountPrepare, TypeOK
      <3>2. ~Promotes(n, s, voters)
        BY <1>2, <2>1, <2>2 DEF GenuinePrepare, CountPrepare, TypeOK
      <3>3. local_stage[n][s] = "PRE_PREPARED"
        BY <1>2, <2>1, <2>2, <3>2 DEF GenuinePrepare, CountPrepare
      <3>4. Cardinality(voters) \in Nat
        BY <2>1, VotersFinite
      <3> HIDE DEF voters
      <3> QED
        BY <1>0, <3>1, <3>2, <3>3, <3>4 DEF Promotes
    <2>3. CASE ~(n = m.to /\ s = seq)
      <3>1. /\ local_stage'[n][s] = local_stage[n][s]
            /\ prepare_votes'[n][s] = prepare_votes[n][s]
        BY <1>2, <2>1, <2>3 DEF GenuinePrepare, CountPrepare, TypeOK
      <3> QED
        BY <3>1 DEF NoIdleQuorum
    <2> QED
      BY <2>2, <2>3
  <1>3. ASSUME NEW m \in Message, GenuineCommit(m)
        PROVE  Cardinality(prepare_votes'[n][s]) < Quorum
    <2>1. m.to \in Node /\ SeqOf[m.tx] \in Slot
      BY DEF Message
    <2>2. local_stage[n][s] = "PRE_PREPARED" /\ prepare_votes' = prepare_votes
      BY <1>3, <2>1 DEF GenuineCommit, CountCommit, TypeOK
    <2> QED
      BY <2>2 DEF NoIdleQuorum
  <1>4. ASSUME NEW p \in Node, NEW e \in Envelope, Watchdog(p, e)
        PROVE  Cardinality(prepare_votes'[n][s]) < Quorum
    <2>1. SeqOf[e] \in Slot
      OBVIOUS
    <2>2. CASE Stalled(local_stage[p][SeqOf[e]])
      <3>1. /\ prepare_votes' = [prepare_votes EXCEPT ![p][SeqOf[e]] = {}]
            /\ local_stage' = [local_stage EXCEPT ![p][SeqOf[e]] = "EVICTED"]
        BY <1>4, <2>2 DEF Watchdog
      <3>2. /\ local_stage[n][s] = "PRE_PREPARED"
            /\ prepare_votes'[n][s] = prepare_votes[n][s]
        BY <2>1, <3>1 DEF TypeOK
      <3> QED
        BY <3>2 DEF NoIdleQuorum
    <2>3. CASE ~Stalled(local_stage[p][SeqOf[e]])
      BY <1>4, <2>3 DEF Watchdog, tracker, NoIdleQuorum
    <2> QED
      BY <2>2, <2>3
  <1>5. ASSUME NEW p \in Node, Restart(p)
        PROVE  Cardinality(prepare_votes'[n][s]) < Quorum
    <2>1. n # p /\ local_stage[n][s] = "PRE_PREPARED"
      BY <1>5 DEF Restart, TypeOK
    <2>2. prepare_votes'[n][s] = prepare_votes[n][s]
      BY <1>5, <2>1 DEF Restart, TypeOK
    <2> QED
      BY <2>1, <2>2 DEF NoIdleQuorum
  <1>6. ASSUME UNCHANGED <<local_stage, prepare_votes>>
        PROVE  Cardinality(prepare_votes'[n][s]) < Quorum
    BY <1>6 DEF NoIdleQuorum
  <1> QED
    BY <1>1, <1>2, <1>3, <1>4, <1>5, <1>6, EffectiveStep
    DEF EffectiveNext, Tasks, vars, tracker, ResetHead,
        BroadcastEarlyCommits, BroadcastCommits, BroadcastPrepares

\* On any cluster, a slot never waits in PRE_PREPARED with a quorum counted,
\* whether the votes or the record come first and whatever a fast-forward or an
\* eviction discards in between.
THEOREM QuorumsAreNotIdle == Spec => []NoIdleQuorum
  <1>1. Init => NoIdleQuorum
    BY DEF Init, NoIdleQuorum
  <1>2. TypeOK /\ NoIdleQuorum /\ [Next]_vars => NoIdleQuorum'
    BY NoIdleQuorumStep
  <1> QED
    BY <1>1, <1>2, TypeCorrect, PTL DEF Spec

-----------------------------------------------------------------------------
(* Counted votes were signed *)

\* A message in flight carries a vote its sender has signed, to another node.
NetSigned ==
    \A m \in Message :
        net[m] > 0 => /\ m.to # m.from
                      /\ [phase |-> m.phase, from |-> m.from, tx |-> m.tx] \in signed

\* A vote once signed stays signed.
LEMMA SignedGrows == [Next]_vars => signed \subseteq signed'
  BY EffectiveStep
  DEF EffectiveNext, Tasks, vars, tracker, history, PrePrepare, GenuinePrepare,
      CountPrepare, GenuineCommit, CountCommit, ResetHead, BroadcastEarlyCommits,
      BroadcastCommits, BroadcastPrepares, Broadcast, Watchdog, Restart

\* So the signers of a slot only grow.
LEMMA SignersGrow ==
    ASSUME signed \subseteq signed', NEW ph \in Phase, NEW s \in Slot
    PROVE  Signers(ph, s) \subseteq Signers(ph, s)'
  BY DEF Signers

\* Every action keeps the messages in flight signed.
LEMMA NetSignedStep == TypeOK /\ NetSigned /\ [Next]_vars => NetSigned'
  <1> SUFFICES ASSUME TypeOK, NetSigned, [Next]_vars,
                      NEW m \in Message, net'[m] > 0
               PROVE  /\ m.to # m.from
                      /\ [phase |-> m.phase, from |-> m.from, tx |-> m.tx] \in signed'
    BY DEF NetSigned
  <1> USE DEF history, tracker
  <1>0. signed \subseteq signed'
    BY SignedGrows
  <1>1. ASSUME NEW d \in Message, Deliver(d)
        PROVE  net[m] > 0
    BY <1>1 DEF Deliver, TypeOK
  <1>2. CASE net[m] > 0
    BY <1>0, <1>2 DEF NetSigned
  <1>3. ASSUME NEW ph \in Phase, NEW n \in Node, NEW tx \in TxId,
               Broadcast(ph, n, tx), ~(net[m] > 0)
        PROVE  /\ m.to # m.from
               /\ [phase |-> m.phase, from |-> m.from, tx |-> m.tx] \in signed'
    <2>1. net'[m] # net[m]
      BY <1>3
    <2>2. m.phase = ph /\ m.from = n /\ m.tx = tx /\ m.to \in Peers(n)
      BY <1>3, <2>1 DEF Broadcast
    <2> QED
      BY <1>3, <2>2 DEF Broadcast, Peers
  <1>4. ASSUME net' = net
        PROVE  net[m] > 0
    BY <1>4
  <1> QED
    BY <1>1, <1>2, <1>3, <1>4, TxAssumption, EffectiveStep
    DEF EffectiveNext, Tasks, vars, Phase, PrePrepare, GenuinePrepare, CountPrepare,
        GenuineCommit, CountCommit, ResetHead, BroadcastEarlyCommits, BroadcastCommits,
        BroadcastPrepares, Watchdog, Restart

\* Every action keeps the counted votes signed by other nodes.
LEMMA VotesAuthenticStep ==
    TypeOK /\ NetSigned /\ VotesAuthentic /\ [Next]_vars => VotesAuthentic'
  <1> SUFFICES ASSUME TypeOK, NetSigned, VotesAuthentic, [Next]_vars,
                      NEW n \in Node, NEW s \in Slot
               PROVE  /\ prepare_votes'[n][s] \subseteq Signers("PREPARE", s)' \ {n}
                      /\ commit_votes'[n][s] \subseteq Signers("COMMIT", s)' \ {n}
    BY DEF VotesAuthentic
  <1> USE TxAssumption, SlotAssumption DEF history, tracker
  <1> DEFINE Goal == /\ prepare_votes'[n][s] \subseteq Signers("PREPARE", s)' \ {n}
                     /\ commit_votes'[n][s] \subseteq Signers("COMMIT", s)' \ {n}
  <1>0. /\ Signers("PREPARE", s) \subseteq Signers("PREPARE", s)'
        /\ Signers("COMMIT", s) \subseteq Signers("COMMIT", s)'
    BY SignedGrows, SignersGrow DEF Phase
  \* What a message in flight names is a signer of the slot.
  <1>1. ASSUME NEW m \in Message, net[m] > 0
        PROVE  m.from \in Signers(m.phase, SeqOf[m.tx]) \ {m.to}
    <2>1. m.from \in Node /\ m.tx \in TxId
      BY DEF Message
    <2> QED
      BY <1>1, <2>1 DEF NetSigned, Signers
  <1>2. ASSUME prepare_votes'[n][s] \subseteq prepare_votes[n][s],
               commit_votes'[n][s] \subseteq commit_votes[n][s]
        PROVE  Goal
    BY <1>0, <1>2 DEF VotesAuthentic
  <1>3. ASSUME NEW m \in Message, GenuinePrepare(m)
        PROVE  Goal
    <2>1. m.to \in Node /\ SeqOf[m.tx] \in Slot
      BY TallyTyped DEF TypeOK
    <2>2. commit_votes' = commit_votes
      BY <1>3 DEF GenuinePrepare, CountPrepare
    <2>3. prepare_votes' =
              [prepare_votes EXCEPT ![m.to][SeqOf[m.tx]] = Tally(prepare_votes, m)]
      BY <1>3 DEF GenuinePrepare, CountPrepare
    <2>4. CASE n = m.to /\ s = SeqOf[m.tx]
      <3>1. prepare_votes'[n][s] \subseteq prepare_votes[n][s] \cup {m.from}
        BY <2>1, <2>3, <2>4 DEF Tally, TypeOK
      <3>2. m.from \in Signers("PREPARE", s) \ {n}
        BY <1>1, <1>3, <2>4 DEF GenuinePrepare, CountPrepare, Deliver
      <3> QED
        BY <1>0, <2>2, <3>1, <3>2 DEF VotesAuthentic
    <2>5. CASE ~(n = m.to /\ s = SeqOf[m.tx])
      <3>1. prepare_votes'[n][s] = prepare_votes[n][s]
        BY <2>1, <2>3, <2>5 DEF TypeOK
      <3> QED
        BY <1>2, <2>2, <3>1
    <2> QED
      BY <2>4, <2>5
  <1>4. ASSUME NEW m \in Message, GenuineCommit(m)
        PROVE  Goal
    <2>1. m.to \in Node /\ SeqOf[m.tx] \in Slot
      BY TallyTyped DEF TypeOK
    <2>2. prepare_votes' = prepare_votes
      BY <1>4 DEF GenuineCommit, CountCommit
    <2>3. commit_votes' =
              [commit_votes EXCEPT ![m.to][SeqOf[m.tx]] = Tally(commit_votes, m)]
      BY <1>4 DEF GenuineCommit, CountCommit
    <2>4. CASE n = m.to /\ s = SeqOf[m.tx]
      <3>1. commit_votes'[n][s] \subseteq commit_votes[n][s] \cup {m.from}
        BY <2>1, <2>3, <2>4 DEF Tally, TypeOK
      <3>2. m.from \in Signers("COMMIT", s) \ {n}
        BY <1>1, <1>4, <2>4 DEF GenuineCommit, CountCommit, Deliver
      <3> QED
        BY <1>0, <2>2, <3>1, <3>2 DEF VotesAuthentic
    <2>5. CASE ~(n = m.to /\ s = SeqOf[m.tx])
      <3>1. commit_votes'[n][s] = commit_votes[n][s]
        BY <2>1, <2>3, <2>5 DEF TypeOK
      <3> QED
        BY <1>2, <2>2, <3>1
    <2> QED
      BY <2>4, <2>5
  <1>5. ASSUME NEW p \in Node, NEW e \in Envelope, PrePrepare(p, e)
        PROVE  Goal
    <2>1. /\ prepare_votes'[n][s] \in {prepare_votes[n][s], {}}
          /\ commit_votes'[n][s] \in {commit_votes[n][s], {}}
      BY <1>5 DEF PrePrepare, StoreRecord, TypeOK
    <2> QED
      BY <1>2, <2>1
  <1>6. ASSUME NEW p \in Node, NEW e \in Envelope, Watchdog(p, e)
        PROVE  Goal
    <2>1. CASE Stalled(local_stage[p][SeqOf[e]])
      <3>1. /\ prepare_votes' = [prepare_votes EXCEPT ![p][SeqOf[e]] = {}]
            /\ commit_votes' = [commit_votes EXCEPT ![p][SeqOf[e]] = {}]
        BY <1>6, <2>1 DEF Watchdog
      <3>2. /\ prepare_votes'[n][s] \in {prepare_votes[n][s], {}}
            /\ commit_votes'[n][s] \in {commit_votes[n][s], {}}
        BY <3>1 DEF TypeOK
      <3> QED
        BY <1>2, <3>2
    <2>2. CASE ~Stalled(local_stage[p][SeqOf[e]])
      BY <1>2, <1>6, <2>2 DEF Watchdog
    <2> QED
      BY <2>1, <2>2
  <1>7. ASSUME NEW p \in Node, Restart(p)
        PROVE  Goal
    <2>1. /\ prepare_votes'[n][s] \in {prepare_votes[n][s], {}}
          /\ commit_votes'[n][s] \in {commit_votes[n][s], {}}
      BY <1>7 DEF Restart, TypeOK
    <2> QED
      BY <1>2, <2>1
  <1>8. ASSUME UNCHANGED <<prepare_votes, commit_votes>>
        PROVE  Goal
    BY <1>2, <1>8
  <1> QED
    BY <1>3, <1>4, <1>5, <1>6, <1>7, <1>8, EffectiveStep
    DEF EffectiveNext, Tasks, vars, ResetHead,
        BroadcastEarlyCommits, BroadcastCommits, BroadcastPrepares

\* On any cluster, every vote a node counts was signed by another node for the same
\* phase and slot, whatever votes come with a signature that is on something else:
\* the checks of /prepare and /commit leave them out, and no order of evictions and
\* restarts brings them in.
THEOREM CountedVotesAreSigned == Spec => []VotesAuthentic
  <1>1. Init => NetSigned /\ VotesAuthentic
    BY DEF Init, NetSigned, VotesAuthentic
  <1>2. /\ TypeOK /\ NetSigned /\ VotesAuthentic /\ [Next]_vars
        => NetSigned' /\ VotesAuthentic'
    BY NetSignedStep, VotesAuthenticStep
  <1> QED
    BY <1>1, <1>2, TypeCorrect, PTL DEF Spec

-----------------------------------------------------------------------------
(* Decisions are certified *)

\* The record held for a slot is an envelope of that slot.
RecordInSlot ==
    \A n \in Node, s \in Slot :
        pre_prepares[n][s] # NoEnvelope => SeqOf[pre_prepares[n][s]] = s

\* A slot that is PREPARED somewhere has a quorum of PREPARE signers.
PreparedCertified ==
    \A n \in Node, s \in Slot :
        local_stage[n][s] = "PREPARED" => Cardinality(Signers("PREPARE", s)) >= Quorum

\* Every action stores a record under its own sequence number.
LEMMA RecordInSlotStep == TypeOK /\ RecordInSlot /\ [Next]_vars => RecordInSlot'
  <1> SUFFICES ASSUME TypeOK, RecordInSlot, [Next]_vars,
                      NEW n \in Node, NEW s \in Slot,
                      pre_prepares'[n][s] # NoEnvelope
               PROVE  SeqOf[pre_prepares'[n][s]] = s
    BY DEF RecordInSlot
  <1> USE TxAssumption DEF history, tracker
  <1>1. ASSUME NEW p \in Node, NEW e \in Envelope, PrePrepare(p, e)
        PROVE  \/ pre_prepares'[n][s] = pre_prepares[n][s]
               \/ pre_prepares'[n][s] = e /\ SeqOf[e] = s
    BY <1>1 DEF PrePrepare, StoreRecord, TypeOK
  <1>2. ASSUME NEW p \in Node, NEW e \in Envelope, Watchdog(p, e)
        PROVE  pre_prepares'[n][s] = pre_prepares[n][s]
    <2>1. CASE Stalled(local_stage[p][SeqOf[e]])
      <3>1. pre_prepares' = [pre_prepares EXCEPT ![p][SeqOf[e]] = NoEnvelope]
        BY <1>2, <2>1 DEF Watchdog
      <3> QED
        BY <3>1 DEF TypeOK
    <2>2. CASE ~Stalled(local_stage[p][SeqOf[e]])
      BY <1>2, <2>2 DEF Watchdog
    <2> QED
      BY <2>1, <2>2
  <1>3. ASSUME NEW p \in Node, Restart(p)
        PROVE  pre_prepares'[n][s] = pre_prepares[n][s]
    BY <1>3 DEF Restart, TypeOK
  <1>4. CASE pre_prepares'[n][s] = pre_prepares[n][s]
    BY <1>4 DEF RecordInSlot
  <1> QED
    BY <1>1, <1>2, <1>3, <1>4, EffectiveStep
    DEF EffectiveNext, Tasks, vars, GenuinePrepare, CountPrepare, GenuineCommit,
        CountCommit, ResetHead, BroadcastEarlyCommits, BroadcastCommits,
        BroadcastPrepares

\* The signers of a slot are nodes.
LEMMA SignersAreNodes ==
    ASSUME NEW ph \in Phase, NEW s \in Slot
    PROVE  Signers(ph, s) \in SUBSET Node /\ Signers(ph, s)' \in SUBSET Node
  BY DEF Signers

\* Every action that prepares a slot finds a quorum of signed PREPAREs.
LEMMA PreparedCertifiedStep ==
    /\ TypeOK /\ VotesAuthentic /\ VotesAuthentic' /\ PreparedCertified /\ [Next]_vars
    => PreparedCertified'
  <1> SUFFICES ASSUME TypeOK, VotesAuthentic, VotesAuthentic', PreparedCertified,
                      [Next]_vars, NEW n \in Node, NEW s \in Slot,
                      local_stage'[n][s] = "PREPARED"
               PROVE  Cardinality(Signers("PREPARE", s)') >= Quorum
    BY DEF PreparedCertified, Quorum
  <1> USE TxAssumption DEF history, tracker
  <1>0. /\ Quorum \in Nat
        /\ Signers("PREPARE", s) \subseteq Signers("PREPARE", s)'
        /\ Signers("PREPARE", s) \in SUBSET Node
        /\ Signers("PREPARE", s)' \in SUBSET Node
    BY QuorumPositive, SignedGrows, SignersGrow, SignersAreNodes DEF Phase
  <1>1. ASSUME NEW S \in SUBSET Node, Cardinality(S) >= Quorum,
               S \subseteq Signers("PREPARE", s)'
        PROVE  Cardinality(Signers("PREPARE", s)') >= Quorum
    BY <1>0, <1>1, VotersGrow, VotersFinite
  <1>2. CASE local_stage[n][s] = "PREPARED"
    BY <1>0, <1>1, <1>2 DEF PreparedCertified
  <1>3. ASSUME NEW p \in Node, NEW e \in Envelope, PrePrepare(p, e),
               local_stage[n][s] # "PREPARED"
        PROVE  Cardinality(Signers("PREPARE", s)') >= Quorum
    <2>1. SeqOf[e] = s /\ p = n /\ EarlyQuorum(n, s)
      BY <1>3 DEF PrePrepare, TypeOK
    <2>2. /\ prepare_votes[n][s] \in SUBSET Node
          /\ prepare_votes[n][s] \subseteq Signers("PREPARE", s)'
      BY <1>0 DEF VotesAuthentic, TypeOK
    <2> QED
      BY <1>1, <2>1, <2>2 DEF EarlyQuorum
  <1>4. ASSUME NEW m \in Message, GenuinePrepare(m),
               local_stage[n][s] # "PREPARED"
        PROVE  Cardinality(Signers("PREPARE", s)') >= Quorum
    <2> DEFINE voters == Tally(prepare_votes, m)
    <2>1. /\ m.to \in Node /\ SeqOf[m.tx] \in Slot /\ voters \in SUBSET Node
      BY TallyTyped DEF TypeOK
    <2>2. m.to = n /\ SeqOf[m.tx] = s /\ Promotes(n, s, voters)
      BY <1>4, <2>1 DEF GenuinePrepare, CountPrepare, TypeOK
    <2>3. prepare_votes'[n][s] = voters
      BY <1>4, <2>1, <2>2 DEF GenuinePrepare, CountPrepare, TypeOK
    <2>4. voters \subseteq Signers("PREPARE", s)'
      BY <2>3 DEF VotesAuthentic
    <2>5. Cardinality(voters) >= Quorum
      BY <2>2 DEF Promotes
    <2> HIDE DEF voters
    <2> QED
      BY <1>1, <2>1, <2>4, <2>5
  <1>5. ASSUME NEW m \in Message, GenuineCommit(m)
        PROVE  local_stage[n][s] = "PREPARED"
    BY <1>5, TallyTyped DEF GenuineCommit, CountCommit, TypeOK
  <1>6. ASSUME NEW p \in Node, NEW e \in Envelope, Watchdog(p, e)
        PROVE  local_stage[n][s] = "PREPARED"
    <2>1. CASE Stalled(local_stage[p][SeqOf[e]])
      <3>1. local_stage' = [local_stage EXCEPT ![p][SeqOf[e]] = "EVICTED"]
        BY <1>6, <2>1 DEF Watchdog
      <3> QED
        BY <3>1 DEF TypeOK
    <2>2. CASE ~Stalled(local_stage[p][SeqOf[e]])
      BY <1>6, <2>2 DEF Watchdog
    <2> QED
      BY <2>1, <2>2
  <1>7. ASSUME NEW p \in Node, Restart(p)
        PROVE  local_stage[n][s] = "PREPARED"
    BY <1>7 DEF Restart, TypeOK
  <1>8. ASSUME local_stage' = local_stage
        PROVE  local_stage[n][s] = "PREPARED"
    BY <1>8
  <1> QED
    BY <1>2, <1>3, <1>4, <1>5, <1>6, <1>7, <1>8, EffectiveStep
    DEF EffectiveNext, Tasks, vars, ResetHead,
        BroadcastEarlyCommits, BroadcastCommits, BroadcastPrepares

\* Only a COMMIT that completes the quorum of a PREPARED slot decides it.
LEMMA NewlyDecided ==
    ASSUME TypeOK, RecordInSlot, [Next]_vars, NEW n \in Node, NEW s \in Slot,
           Decided(n, s)', ~Decided(n, s)
    PROVE  \E m \in Message : /\ GenuineCommit(m)
                              /\ m.to = n /\ SeqOf[m.tx] = s
                              /\ Decides(n, s, commit_votes'[n][s])
  <1> USE TxAssumption DEF history, tracker
  <1>1. ASSUME ledger'[n] = ledger[n], local_stage'[n][s] # "COMMITTED"
        PROVE  FALSE
    BY <1>1 DEF Decided
  <1>2. ASSUME ledger'[n] = ledger[n], local_stage'[n][s] = local_stage[n][s]
        PROVE  FALSE
    BY <1>2 DEF Decided
  <1>3. ASSUME NEW p \in Node, NEW e \in Envelope, PrePrepare(p, e)
        PROVE  FALSE
    BY <1>1, <1>2, <1>3 DEF PrePrepare, TypeOK
  <1>4. ASSUME NEW m \in Message, GenuinePrepare(m)
        PROVE  FALSE
    BY <1>1, <1>2, <1>4, TallyTyped DEF GenuinePrepare, CountPrepare, TypeOK
  <1>5. ASSUME NEW p \in Node, NEW e \in Envelope, Watchdog(p, e)
        PROVE  FALSE
    <2>1. CASE Stalled(local_stage[p][SeqOf[e]])
      <3>1. /\ local_stage' = [local_stage EXCEPT ![p][SeqOf[e]] = "EVICTED"]
            /\ ledger' = ledger
        BY <1>5, <2>1 DEF Watchdog
      <3> QED
        BY <1>1, <1>2, <3>1 DEF TypeOK
    <2>2. CASE ~Stalled(local_stage[p][SeqOf[e]])
      BY <1>2, <1>5, <2>2 DEF Watchdog
    <2> QED
      BY <2>1, <2>2
  <1>6. ASSUME NEW p \in Node, Restart(p)
        PROVE  FALSE
    BY <1>1, <1>2, <1>6 DEF Restart, TypeOK
  <1>7. ASSUME UNCHANGED <<ledger, local_stage>>
        PROVE  FALSE
    BY <1>2, <1>7
  <1>8. PICK m \in Message : GenuineCommit(m)
    BY <1>3, <1>4, <1>5, <1>6, <1>7, EffectiveStep
    DEF EffectiveNext, Tasks, vars, ResetHead,
        BroadcastEarlyCommits, BroadcastCommits, BroadcastPrepares
  <1> DEFINE seq == SeqOf[m.tx]
             voters == Tally(commit_votes, m)
  <1>9. m.to \in Node /\ seq \in Slot
    BY TallyTyped DEF TypeOK
  <1>10. Decides(m.to, seq, voters)
    BY <1>2, <1>8 DEF GenuineCommit, CountCommit
  <1>11. /\ ledger' = [ledger EXCEPT ![m.to] = @ \o Appended(m.to, seq)]
         /\ local_stage' = [local_stage EXCEPT ![m.to][seq] = "COMMITTED"]
         /\ commit_votes' = [commit_votes EXCEPT ![m.to][seq] = voters]
    BY <1>8, <1>10 DEF GenuineCommit, CountCommit
  <1>12. n = m.to
    BY <1>2, <1>9, <1>11 DEF TypeOK
  <1>13. s = seq
    <2> SUFFICES ASSUME s # seq
                 PROVE  FALSE
      OBVIOUS
    <2>1. local_stage'[n][s] = local_stage[n][s]
      BY <1>9, <1>11, <1>12 DEF TypeOK
    <2>2. ledger'[n] = ledger[n] \o Appended(n, seq)
      BY <1>11, <1>12 DEF TypeOK
    <2>3. CASE pre_prepares[n][seq] = NoEnvelope
      <3>1. ledger'[n] = ledger[n]
        BY <2>2, <2>3 DEF Appended, TypeOK
      <3> QED
        BY <1>2, <2>1, <3>1
    <2>4. CASE pre_prepares[n][seq] # NoEnvelope
      <3> DEFINE r == pre_prepares[n][seq]
      <3>1. r \in Envelope /\ SeqOf[r] = seq
        BY <1>9, <2>4 DEF TypeOK, RecordInSlot
      <3>2. ledger'[n] = Append(ledger[n], r) /\ ledger[n] \in Seq(Envelope)
        BY <2>2, <2>4, <3>1 DEF Appended, TypeOK
      <3>3. PICK i \in 1..Len(ledger'[n]) : SeqOf[ledger'[n][i]] = s
        BY <2>1 DEF Decided
      <3>4. i \in 1..Len(ledger[n]) /\ ledger'[n][i] = ledger[n][i]
        BY <3>1, <3>2, <3>3
      <3> QED
        BY <3>3, <3>4 DEF Decided
    <2> QED
      BY <2>3, <2>4
  <1>14. commit_votes'[n][s] = voters
    BY <1>9, <1>11, <1>12, <1>13 DEF TypeOK
  <1> QED
    BY <1>8, <1>10, <1>12, <1>13, <1>14

\* Every action that decides a slot finds both quorums signed.
LEMMA DecisionCertifiedStep ==
    /\ TypeOK /\ TypeOK' /\ RecordInSlot /\ VotesAuthentic' /\ PreparedCertified
    /\ DecisionCertified /\ [Next]_vars
    => DecisionCertified'
  <1> SUFFICES ASSUME TypeOK, TypeOK', RecordInSlot, VotesAuthentic',
                      PreparedCertified, DecisionCertified, [Next]_vars,
                      NEW n \in Node, NEW s \in Slot, Decided(n, s)'
               PROVE  /\ Cardinality(Signers("COMMIT", s)' \ {n}) >= Quorum
                      /\ Cardinality(Signers("PREPARE", s)') >= Quorum
    BY DEF DecisionCertified, Quorum
  <1>0. Quorum \in Nat
    BY QuorumPositive
  <1>1. ASSUME NEW S \in SUBSET Node, NEW T \in SUBSET Node, S \subseteq T,
               Cardinality(S) >= Quorum
        PROVE  Cardinality(T) >= Quorum
    BY <1>0, <1>1, VotersGrow, VotersFinite
  <1>2. ASSUME NEW ph \in Phase
        PROVE  /\ Signers(ph, s) \in SUBSET Node /\ Signers(ph, s)' \in SUBSET Node
               /\ Signers(ph, s) \subseteq Signers(ph, s)'
    BY SignersAreNodes, SignedGrows, SignersGrow
  <1>3. "PREPARE" \in Phase /\ "COMMIT" \in Phase
    BY DEF Phase
  <1>4. CASE Decided(n, s)
    <2>1. /\ Cardinality(Signers("COMMIT", s) \ {n}) >= Quorum
          /\ Cardinality(Signers("PREPARE", s)) >= Quorum
      BY <1>4 DEF DecisionCertified
    <2>2. /\ Signers("COMMIT", s) \ {n} \in SUBSET Node
          /\ Signers("COMMIT", s)' \ {n} \in SUBSET Node
          /\ Signers("COMMIT", s) \ {n} \subseteq Signers("COMMIT", s)' \ {n}
      BY <1>2, <1>3
    <2> QED
      BY <1>1, <1>2, <1>3, <2>1, <2>2
  <1>5. CASE ~Decided(n, s)
    <2>1. PICK m \in Message : /\ GenuineCommit(m)
                               /\ m.to = n /\ SeqOf[m.tx] = s
                               /\ Decides(n, s, commit_votes'[n][s])
      BY <1>5, NewlyDecided
    <2>2. /\ Cardinality(commit_votes'[n][s]) >= Quorum
          /\ local_stage[n][s] = "PREPARED"
      BY <2>1 DEF Decides
    <2>3. /\ commit_votes'[n][s] \in SUBSET Node
          /\ commit_votes'[n][s] \subseteq Signers("COMMIT", s)' \ {n}
      BY DEF VotesAuthentic, TypeOK
    <2>4. Signers("COMMIT", s)' \ {n} \in SUBSET Node
      BY <1>2, <1>3
    <2>5. Cardinality(Signers("COMMIT", s)' \ {n}) >= Quorum
      BY <1>1, <2>2, <2>3, <2>4
    <2>6. Cardinality(Signers("PREPARE", s)) >= Quorum
      BY <2>2 DEF PreparedCertified
    <2> QED
      BY <1>1, <1>2, <1>3, <2>5, <2>6
  <1> QED
    BY <1>4, <1>5

\* What makes DecisionCertified inductive.
CertInv == /\ TypeOK /\ NetSigned /\ VotesAuthentic /\ RecordInSlot
           /\ PreparedCertified /\ DecisionCertified

\* CertInv is inductive.
LEMMA CertInvStep == CertInv /\ [Next]_vars => CertInv'
  <1> SUFFICES ASSUME CertInv, [Next]_vars
               PROVE  CertInv'
    OBVIOUS
  <1>1. TypeOK'
    BY NextTyped DEF CertInv
  <1>2. NetSigned' /\ VotesAuthentic'
    BY NetSignedStep, VotesAuthenticStep DEF CertInv
  <1>3. RecordInSlot'
    BY RecordInSlotStep DEF CertInv
  <1>4. PreparedCertified'
    BY <1>2, PreparedCertifiedStep DEF CertInv
  <1>5. DecisionCertified'
    BY <1>1, <1>2, DecisionCertifiedStep DEF CertInv
  <1> QED
    BY <1>1, <1>2, <1>3, <1>4, <1>5 DEF CertInv

\* CertInv holds initially.
LEMMA InitCertInv == Init => CertInv
  <1> SUFFICES ASSUME Init
               PROVE  CertInv
    OBVIOUS
  <1>1. TypeOK
    BY InitTyped
  <1>2. NetSigned /\ VotesAuthentic /\ RecordInSlot /\ PreparedCertified
    BY DEF Init, NetSigned, VotesAuthentic, RecordInSlot, PreparedCertified
  <1>3. DecisionCertified
    BY DEF Init, DecisionCertified, Decided
  <1> QED
    BY <1>1, <1>2, <1>3 DEF CertInv

\* CertInv holds in every reachable state.
LEMMA CertInvHolds == Spec => []CertInv
  BY InitCertInv, CertInvStep, PTL DEF Spec

\* On any cluster, a node decides a slot only after a quorum of other nodes have
\* signed a COMMIT for it and a quorum have signed a PREPARE, whatever was lost,
\* discarded, posted again or restarted on the way.
THEOREM DecisionsAreCertified == Spec => []DecisionCertified
  <1>1. CertInv => DecisionCertified
    BY DEF CertInv
  <1> QED
    BY <1>1, CertInvHolds, PTL

-----------------------------------------------------------------------------
(* A commit on first attempts takes three nodes exactly *)

Has(n, at, s) == \E tx \in TxId : SeqOf[tx] = s /\ Waiting(n, [at |-> at, tx |-> tx])

\* Node n has been promoted for slot s and has not lost it to a restart since.
Promoted(n, s) == \/ local_stage[n][s] = "PREPARED"
                  \/ Decided(n, s)
                  \/ n \in Signers("COMMIT", s)
                  \/ Has(n, "early_commits", s)
                  \/ Has(n, "commits", s)

\* Node n has had its pre-prepare for slot s and can no longer be promoted by it.
Out(n, s) == /\ posts[n][s] >= 1
             /\ local_stage[n][s] # "PRE_PREPARED"
             /\ ~Promoted(n, s)

\* The watchdog of node n has run for slot s: its PREPARE is out or due.
Late(n, s) == n \in Signers("PREPARE", s) \/ Has(n, "prepares", s)

Single(s) == \A n \in Node : posts[n][s] <= 1

\* The tasks of a pre-prepare belong to one that was accepted.
TasksPosted ==
    \A n \in Node, s \in Slot :
        \A at \in {"early_commits", "watchdog", "prepares"} :
            Has(n, at, s) => posts[n][s] >= 1

\* A PREPARE of one of the nodes in H is never out while its only attempt at the
\* slot still waits for one.
LateClosed(H) ==
    \A n \in H, s \in Slot :
        Late(n, s) /\ posts[n][s] <= 1
            => posts[n][s] >= 1 /\ local_stage[n][s] # "PRE_PREPARED"

\* Once one of the nodes in H is promoted, those of a quorum that are in H are out.
QuorumOut(H) ==
    \A s \in Slot :
        Single(s) /\ (\E n \in H : Promoted(n, s))
            => \E E \in SUBSET Node : /\ Cardinality(E) >= Quorum
                                      /\ \A m \in E \cap H : Out(m, s)

\* The number of accepted pre-prepares of a slot never goes down.
LEMMA PostsGrow ==
    ASSUME TypeOK, [Next]_vars, NEW n \in Node, NEW s \in Slot
    PROVE  posts'[n][s] \in Nat /\ posts'[n][s] >= posts[n][s]
  <1> USE TxAssumption DEF history, tracker
  <1>1. ASSUME NEW p \in Node, NEW e \in Envelope, PrePrepare(p, e)
        PROVE  posts'[n][s] \in Nat /\ posts'[n][s] >= posts[n][s]
    BY <1>1 DEF PrePrepare, StoreRecord, TypeOK
  <1>2. ASSUME posts' = posts
        PROVE  posts'[n][s] \in Nat /\ posts'[n][s] >= posts[n][s]
    BY <1>2 DEF TypeOK
  <1> QED
    BY <1>1, <1>2, EffectiveStep
    DEF EffectiveNext, Tasks, vars, GenuinePrepare, CountPrepare, GenuineCommit,
        CountCommit, ResetHead, BroadcastEarlyCommits, BroadcastCommits,
        BroadcastPrepares, Watchdog, Restart

\* A task of node n for slot s comes from the action that schedules it.
LEMMA NewTask ==
    ASSUME TypeOK, [Next]_vars, NEW n \in Node, NEW s \in Slot,
           NEW at \in {"early_commits", "watchdog", "prepares", "commits"},
           Has(n, at, s)', ~Has(n, at, s)
    PROVE  \/ \E e \in Envelope : /\ PrePrepare(n, e) /\ SeqOf[e] = s
                                  /\ at = FirstTask(n, s)
           \/ \E e \in Envelope : /\ BroadcastEarlyCommits(n, e) /\ SeqOf[e] = s
                                  /\ at = "watchdog" /\ Has(n, "early_commits", s)
           \/ \E e \in Envelope : /\ Watchdog(n, e) /\ SeqOf[e] = s
                                  /\ at = "prepares" /\ Has(n, "watchdog", s)
           \/ \E d \in Message : /\ GenuinePrepare(d) /\ d.to = n /\ SeqOf[d.tx] = s
                                 /\ Promotes(n, s, Tally(prepare_votes, d))
                                 /\ at = "commits"
  <1> USE TxAssumption DEF history, tracker
  <1>0. PICK tx \in TxId : SeqOf[tx] = s /\ Waiting(n, [at |-> at, tx |-> tx])'
    BY DEF Has
  <1> DEFINE k == [at |-> at, tx |-> tx]
  <1>a. k \in Task /\ ~Waiting(n, k) /\ Waiting(n, k)'
    BY <1>0, TaskTyped DEF Has
  <1>1. ASSUME NEW p \in Node, NEW e \in Envelope, PrePrepare(p, e)
        PROVE  p = n /\ SeqOf[e] = s /\ at = FirstTask(n, s)
    <2>1. PICK a \in {"early_commits", "watchdog"} : a = FirstTask(p, SeqOf[e])
      BY DEF FirstTask
    <2> DEFINE l == [at |-> a, tx |-> e]
    <2>2. l \in Task
      BY TaskTyped
    <2>3. jobs' = [jobs EXCEPT ![p][l] = @ + 1]
      BY <1>1, <2>1 DEF PrePrepare
    <2>4. p = n /\ k = l
      BY <1>a, <2>2, <2>3 DEF Waiting, TypeOK
    <2> QED
      BY <1>0, <2>1, <2>4
  <1>2. ASSUME NEW p \in Node, NEW from \in Task, NEW to \in Task,
               jobs' = [jobs EXCEPT ![p][from] = @ - 1, ![p][to] = @ + 1]
        PROVE  p = n /\ k = to
    <2>1. jobs[n][k] \in Nat /\ ~(jobs[n][k] > 0) /\ jobs'[n][k] > 0
      BY <1>a DEF Waiting, TypeOK
    <2>2. CASE p # n
      BY <1>2, <2>1, <2>2 DEF TypeOK
    <2>3. CASE p = n /\ k # to
      <3>1. jobs'[n][k] \in {jobs[n][k], jobs[n][k] - 1}
        BY <1>2, <1>a, <2>3 DEF TypeOK
      <3> HIDE DEF k
      <3> QED
        BY <2>1, <3>1
    <2> QED
      BY <2>2, <2>3
  <1>3. ASSUME NEW p \in Node, NEW from \in Task,
               jobs' = [jobs EXCEPT ![p][from] = @ - 1]
        PROVE  FALSE
    BY <1>3, <1>a DEF Waiting, TypeOK
  <1>4. ASSUME NEW p \in Node, NEW e \in Envelope, BroadcastEarlyCommits(p, e)
        PROVE  p = n /\ SeqOf[e] = s /\ at = "watchdog" /\ Has(n, "early_commits", s)
    <2> DEFINE from == [at |-> "early_commits", tx |-> e]
               to == [at |-> "watchdog", tx |-> e]
    <2>1. from \in Task /\ to \in Task
      BY TaskTyped
    <2>2. jobs' = [jobs EXCEPT ![p][from] = @ - 1, ![p][to] = @ + 1] /\ Waiting(p, from)
      BY <1>4 DEF BroadcastEarlyCommits, Advance, Waiting
    <2>3. p = n /\ k = to
      BY <1>2, <2>1, <2>2
    <2> QED
      BY <1>0, <2>2, <2>3 DEF Has
  <1>5. ASSUME NEW p \in Node, NEW e \in Envelope, Watchdog(p, e)
        PROVE  p = n /\ SeqOf[e] = s /\ at = "prepares" /\ Has(n, "watchdog", s)
    <2> DEFINE from == [at |-> "watchdog", tx |-> e]
               to == [at |-> "prepares", tx |-> e]
    <2>1. from \in Task /\ to \in Task
      BY TaskTyped
    <2>2. jobs' = [jobs EXCEPT ![p][from] = @ - 1, ![p][to] = @ + 1] /\ Waiting(p, from)
      BY <1>5 DEF Watchdog, Advance, Waiting
    <2>3. p = n /\ k = to
      BY <1>2, <2>1, <2>2
    <2> QED
      BY <1>0, <2>2, <2>3 DEF Has
  <1>6. ASSUME NEW p \in Node, NEW t \in TxId,
               BroadcastCommits(p, t) \/ BroadcastPrepares(p, t)
        PROVE  FALSE
    <2>1. PICK a \in {"commits", "prepares"} :
              jobs' = [jobs EXCEPT ![p][[at |-> a, tx |-> t]] = @ - 1]
      BY <1>6 DEF BroadcastCommits, BroadcastPrepares, Finish
    <2>2. [at |-> a, tx |-> t] \in Task
      BY TaskTyped
    <2> QED
      BY <1>3, <2>1, <2>2
  <1>7. ASSUME NEW d \in Message, GenuinePrepare(d)
        PROVE  /\ d.to = n /\ SeqOf[d.tx] = s /\ at = "commits"
               /\ Promotes(n, s, Tally(prepare_votes, d))
    <2> DEFINE l == [at |-> "commits", tx |-> d.tx]
    <2>1. d.to \in Node /\ d.tx \in TxId /\ l \in Task
      BY TaskTyped DEF Message
    <2>2. /\ Promotes(d.to, SeqOf[d.tx], Tally(prepare_votes, d))
          /\ jobs' = [jobs EXCEPT ![d.to][l] = @ + 1]
      BY <1>7, <1>a DEF GenuinePrepare, CountPrepare, Waiting
    <2>3. d.to = n /\ k = l
      BY <1>a, <2>1, <2>2 DEF Waiting, TypeOK
    <2> QED
      BY <1>0, <2>2, <2>3
  <1>8. ASSUME NEW p \in Node, Restart(p)
        PROVE  FALSE
    BY <1>8, <1>a DEF Restart, Waiting, NoTasks, TypeOK
  <1>9. ASSUME jobs' = jobs
        PROVE  FALSE
    BY <1>9, <1>a DEF Waiting
  <1> QED
    BY <1>1, <1>4, <1>5, <1>6, <1>7, <1>8, <1>9, EffectiveStep
    DEF EffectiveNext, Tasks, vars, GenuineCommit, CountCommit, ResetHead

\* Only the two handlers that find a quorum of PREPAREs promote a node.
LEMMA NewlyPromoted ==
    ASSUME TypeOK, RecordInSlot, [Next]_vars, NEW n \in Node, NEW s \in Slot,
           Promoted(n, s)', ~Promoted(n, s)
    PROVE  \/ \E e \in Envelope : /\ PrePrepare(n, e) /\ SeqOf[e] = s
                                  /\ EarlyQuorum(n, s)
           \/ \E d \in Message : /\ GenuinePrepare(d) /\ d.to = n /\ SeqOf[d.tx] = s
                                 /\ Promotes(n, s, Tally(prepare_votes, d))
  <1> USE TxAssumption DEF history, tracker
  <1> DEFINE Early == \E e \in Envelope : /\ PrePrepare(n, e) /\ SeqOf[e] = s
                                          /\ EarlyQuorum(n, s)
             Voted == \E d \in Message : /\ GenuinePrepare(d) /\ d.to = n
                                         /\ SeqOf[d.tx] = s
                                         /\ Promotes(n, s, Tally(prepare_votes, d))
  <1>1. CASE Has(n, "early_commits", s)' \/ Has(n, "commits", s)'
    <2>1. PICK at \in {"early_commits", "commits"} :
              Has(n, at, s)' /\ ~Has(n, at, s)
      BY <1>1 DEF Promoted
    <2> QED
      BY <2>1, NewTask DEF FirstTask
  <1>2. CASE Decided(n, s)'
    <2>1. \E m \in Message : Decides(n, s, commit_votes'[n][s])
      BY <1>2, NewlyDecided DEF Promoted
    <2> QED
      BY <2>1 DEF Decides, Promoted
  <1>3. CASE n \in Signers("COMMIT", s)'
    <2>1. PICK tx \in TxId :
              /\ SeqOf[tx] = s
              /\ [phase |-> "COMMIT", from |-> n, tx |-> tx] \in signed' \ signed
      BY <1>3 DEF Promoted, Signers
    <2>2. ASSUME NEW p \in Node, NEW t \in TxId,
                 BroadcastEarlyCommits(p, t) \/ BroadcastCommits(p, t)
          PROVE  FALSE
      <3>1. p = n /\ t = tx
        BY <2>1, <2>2 DEF BroadcastEarlyCommits, BroadcastCommits, Broadcast
      <3>2. Has(n, "early_commits", s) \/ Has(n, "commits", s)
        BY <2>1, <2>2, <3>1
        DEF BroadcastEarlyCommits, BroadcastCommits, Advance, Finish, Has, Waiting
      <3> QED
        BY <3>2 DEF Promoted
    <2>3. ASSUME NEW p \in Node, NEW t \in TxId, BroadcastPrepares(p, t)
          PROVE  FALSE
      BY <2>1, <2>3 DEF BroadcastPrepares, Broadcast
    <2>4. signed' # signed
      BY <2>1
    <2> QED
      BY <2>2, <2>3, <2>4, EffectiveStep
      DEF EffectiveNext, Tasks, vars, PrePrepare, GenuinePrepare, CountPrepare,
          GenuineCommit, CountCommit, ResetHead, Watchdog, Restart
  <1>4. CASE local_stage'[n][s] = "PREPARED"
    <2>0. local_stage[n][s] # "PREPARED"
      BY DEF Promoted
    <2>1. ASSUME NEW p \in Node, NEW e \in Envelope, PrePrepare(p, e)
          PROVE  Early
      <3>1. SeqOf[e] = s /\ p = n /\ EarlyQuorum(n, s)
        BY <1>4, <2>0, <2>1 DEF PrePrepare, TypeOK
      <3> QED
        BY <2>1, <3>1
    <2>2. ASSUME NEW m \in Message, GenuinePrepare(m)
          PROVE  Voted
      <3>1. m.to \in Node /\ SeqOf[m.tx] \in Slot
        BY TallyTyped DEF TypeOK
      <3>2. m.to = n /\ SeqOf[m.tx] = s /\ Promotes(n, s, Tally(prepare_votes, m))
        BY <1>4, <2>0, <2>2, <3>1 DEF GenuinePrepare, CountPrepare, TypeOK
      <3> QED
        BY <2>2, <3>2
    <2>3. ASSUME NEW m \in Message, GenuineCommit(m)
          PROVE  FALSE
      BY <1>4, <2>0, <2>3, TallyTyped DEF GenuineCommit, CountCommit, TypeOK
    <2>4. ASSUME NEW p \in Node, NEW e \in Envelope, Watchdog(p, e)
          PROVE  FALSE
      <3>1. CASE Stalled(local_stage[p][SeqOf[e]])
        <4>1. local_stage' = [local_stage EXCEPT ![p][SeqOf[e]] = "EVICTED"]
          BY <2>4, <3>1 DEF Watchdog
        <4> QED
          BY <1>4, <2>0, <4>1 DEF TypeOK
      <3>2. CASE ~Stalled(local_stage[p][SeqOf[e]])
        BY <1>4, <2>0, <2>4, <3>2 DEF Watchdog
      <3> QED
        BY <3>1, <3>2
    <2>5. ASSUME NEW p \in Node, Restart(p)
          PROVE  FALSE
      BY <1>4, <2>0, <2>5 DEF Restart, TypeOK
    <2>6. local_stage' # local_stage
      BY <1>4, <2>0
    <2> QED
      BY <2>1, <2>2, <2>3, <2>4, <2>5, <2>6, EffectiveStep
      DEF EffectiveNext, Tasks, vars, ResetHead,
          BroadcastEarlyCommits, BroadcastCommits, BroadcastPrepares
  <1> QED
    BY <1>1, <1>2, <1>3, <1>4 DEF Promoted

\* A slot becomes PRE_PREPARED only by a pre-prepare.
LEMMA NewlyOpen ==
    ASSUME TypeOK, [Next]_vars, NEW n \in Node, NEW s \in Slot,
           local_stage'[n][s] = "PRE_PREPARED", local_stage[n][s] # "PRE_PREPARED"
    PROVE  \E e \in Envelope : PrePrepare(n, e) /\ SeqOf[e] = s
  <1> USE TxAssumption DEF history, tracker
  <1>1. ASSUME NEW p \in Node, NEW e \in Envelope, PrePrepare(p, e)
        PROVE  p = n /\ SeqOf[e] = s
    BY <1>1 DEF PrePrepare, TypeOK
  <1>2. ASSUME NEW m \in Message, GenuinePrepare(m) \/ GenuineCommit(m)
        PROVE  FALSE
    <2>1. m.to \in Node /\ SeqOf[m.tx] \in Slot
      BY TallyTyped DEF TypeOK
    <2>2. PICK st \in {"PREPARED", "COMMITTED"} :
              local_stage' \in {local_stage,
                                [local_stage EXCEPT ![m.to][SeqOf[m.tx]] = st]}
      BY <1>2 DEF GenuinePrepare, CountPrepare, GenuineCommit, CountCommit
    <2>3. CASE local_stage' = local_stage
      BY <2>3
    <2>4. CASE local_stage' = [local_stage EXCEPT ![m.to][SeqOf[m.tx]] = st]
      <3>1. local_stage'[n][s] \in {local_stage[n][s], st}
        BY <2>1, <2>4 DEF TypeOK
      <3> QED
        BY <3>1
    <2> QED
      BY <2>2, <2>3, <2>4
  <1>3. ASSUME NEW p \in Node, NEW e \in Envelope, Watchdog(p, e)
        PROVE  FALSE
    <2>1. CASE Stalled(local_stage[p][SeqOf[e]])
      <3>1. local_stage' = [local_stage EXCEPT ![p][SeqOf[e]] = "EVICTED"]
        BY <1>3, <2>1 DEF Watchdog
      <3> QED
        BY <3>1 DEF TypeOK
    <2>2. CASE ~Stalled(local_stage[p][SeqOf[e]])
      BY <1>3, <2>2 DEF Watchdog
    <2> QED
      BY <2>1, <2>2
  <1>4. ASSUME NEW p \in Node, Restart(p)
        PROVE  FALSE
    BY <1>4 DEF Restart, TypeOK
  <1> QED
    BY <1>1, <1>2, <1>3, <1>4, EffectiveStep
    DEF EffectiveNext, Tasks, vars, ResetHead,
        BroadcastEarlyCommits, BroadcastCommits, BroadcastPrepares

\* A pre-prepare accepted for a slot counts as one more post.
LEMMA PostCounted ==
    ASSUME TypeOK, NEW n \in Node, NEW e \in Envelope, PrePrepare(n, e)
    PROVE  posts'[n][SeqOf[e]] = posts[n][SeqOf[e]] + 1
  BY TxAssumption DEF PrePrepare, StoreRecord, TypeOK

\* Nothing but another post brings a node back that is out.
LEMMA OutKept ==
    ASSUME TypeOK, RecordInSlot, [Next]_vars, NEW n \in Node, NEW s \in Slot,
           Out(n, s), posts'[n][s] <= 1
    PROVE  Out(n, s)'
  <1>0. posts[n][s] \in Nat /\ posts[n][s] >= 1
    BY DEF Out, TypeOK
  <1>1. ASSUME NEW e \in Envelope, PrePrepare(n, e), SeqOf[e] = s
        PROVE  FALSE
    BY <1>0, <1>1, PostCounted
  <1>2. posts'[n][s] >= 1
    BY <1>0, PostsGrow
  <1>3. local_stage'[n][s] # "PRE_PREPARED"
    BY <1>1, NewlyOpen DEF Out
  <1>4. ~Promoted(n, s)'
    <2> SUFFICES ASSUME Promoted(n, s)'
                 PROVE  FALSE
      OBVIOUS
    <2>1. ~Promoted(n, s) /\ local_stage[n][s] # "PRE_PREPARED"
      BY DEF Out
    <2> QED
      BY <1>1, <2>1, NewlyPromoted DEF Promotes
  <1> QED
    BY <1>2, <1>3, <1>4 DEF Out

\* Every action keeps the tasks of a slot behind a post of it.
LEMMA TasksPostedStep ==
    TypeOK /\ TasksPosted /\ [Next]_vars => TasksPosted'
  <1> SUFFICES ASSUME TypeOK, TasksPosted, [Next]_vars,
                      NEW n \in Node, NEW s \in Slot,
                      NEW at \in {"early_commits", "watchdog", "prepares"},
                      Has(n, at, s)'
               PROVE  posts'[n][s] >= 1
    BY DEF TasksPosted
  <1>1. posts[n][s] \in Nat /\ posts'[n][s] \in Nat /\ posts'[n][s] >= posts[n][s]
    BY PostsGrow DEF TypeOK
  <1>2. ASSUME NEW a \in {"early_commits", "watchdog", "prepares"}, Has(n, a, s)
        PROVE  posts'[n][s] >= 1
    BY <1>1, <1>2 DEF TasksPosted
  <1>3. ASSUME NEW e \in Envelope, PrePrepare(n, e), SeqOf[e] = s
        PROVE  posts'[n][s] >= 1
    BY <1>1, <1>3, PostCounted
  <1> QED
    BY <1>2, <1>3, NewTask

\* Every action keeps a node that posted PREPAREs out of PRE_PREPARED.
LEMMA LateClosedStep ==
    ASSUME NEW H \in SUBSET Node, TypeOK, TasksPosted, LateClosed(H), [Next]_vars
    PROVE  LateClosed(H)'
  <1> SUFFICES ASSUME NEW n \in H, NEW s \in Slot,
                      Late(n, s)', posts'[n][s] <= 1
               PROVE  posts'[n][s] >= 1 /\ local_stage'[n][s] # "PRE_PREPARED"
    BY DEF LateClosed
  <1> USE TxAssumption DEF history, tracker
  <1>1. posts[n][s] \in Nat /\ posts'[n][s] \in Nat /\ posts'[n][s] >= posts[n][s]
    BY PostsGrow DEF TypeOK
  <1>2. ASSUME NEW e \in Envelope, PrePrepare(n, e), SeqOf[e] = s, posts[n][s] >= 1
        PROVE  FALSE
    BY <1>1, <1>2, PostCounted
  <1>3. CASE Late(n, s)
    <2>1. posts[n][s] >= 1 /\ local_stage[n][s] # "PRE_PREPARED"
      BY <1>1, <1>3 DEF LateClosed
    <2> QED
      BY <1>1, <1>2, <2>1, NewlyOpen
  <1>4. CASE Has(n, "prepares", s)' /\ ~Has(n, "prepares", s)
    <2>1. PICK e \in Envelope : /\ Watchdog(n, e) /\ SeqOf[e] = s
                                /\ Has(n, "watchdog", s)
      BY <1>4, NewTask DEF FirstTask
    <2>2. posts[n][s] >= 1
      BY <2>1 DEF TasksPosted
    <2>3. CASE Stalled(local_stage[n][s])
      BY <1>1, <2>1, <2>2, <2>3 DEF Watchdog, TypeOK
    <2>4. CASE ~Stalled(local_stage[n][s])
      BY <1>1, <2>1, <2>2, <2>4 DEF Watchdog, Stalled
    <2> QED
      BY <2>3, <2>4
  <1>5. CASE n \in Signers("PREPARE", s)' /\ n \notin Signers("PREPARE", s)
    <2>1. PICK tx \in TxId :
              /\ SeqOf[tx] = s
              /\ [phase |-> "PREPARE", from |-> n, tx |-> tx] \in signed' \ signed
      BY <1>5 DEF Signers
    <2>2. ASSUME NEW p \in Node, NEW t \in TxId,
                 BroadcastEarlyCommits(p, t) \/ BroadcastCommits(p, t)
          PROVE  FALSE
      BY <2>1, <2>2 DEF BroadcastEarlyCommits, BroadcastCommits, Broadcast
    <2>3. ASSUME NEW p \in Node, NEW t \in TxId, BroadcastPrepares(p, t)
          PROVE  Late(n, s)
      <3>1. p = n /\ t = tx
        BY <2>1, <2>3 DEF BroadcastPrepares, Broadcast
      <3> QED
        BY <2>1, <2>3, <3>1 DEF BroadcastPrepares, Finish, Late, Has, Waiting
    <2>4. signed' # signed
      BY <2>1
    <2> QED
      BY <1>3, <2>2, <2>3, <2>4, EffectiveStep
      DEF EffectiveNext, Tasks, vars, PrePrepare, GenuinePrepare, CountPrepare,
          GenuineCommit, CountCommit, ResetHead, Watchdog, Restart
  <1> QED
    BY <1>3, <1>4, <1>5 DEF Late

\* Every first promotion leaves a quorum of nodes out of the slot.
LEMMA QuorumOutStep ==
    ASSUME NEW H \in SUBSET Node, TypeOK, RecordInSlot, VotesAuthentic, VotesAuthentic',
           LateClosed(H), QuorumOut(H), [Next]_vars
    PROVE  QuorumOut(H)'
  <1> SUFFICES ASSUME NEW s \in Slot, Single(s)', NEW n \in H, Promoted(n, s)'
               PROVE  \E E \in SUBSET Node : /\ Cardinality(E) >= Quorum
                                             /\ \A m \in E \cap H : Out(m, s)'
    BY DEF QuorumOut, Quorum
  <1>1. \A m \in Node : posts'[m][s] <= 1
    BY DEF Single
  <1>2. Single(s)
    <2> SUFFICES ASSUME NEW m \in Node
                 PROVE  posts[m][s] <= 1
      BY DEF Single
    <2>1. /\ posts[m][s] \in Nat /\ posts'[m][s] \in Nat
          /\ posts'[m][s] >= posts[m][s] /\ posts'[m][s] <= 1
      BY <1>1, PostsGrow DEF TypeOK
    <2> QED
      BY <2>1
  <1>3. ASSUME NEW E \in SUBSET Node, Cardinality(E) >= Quorum,
               \A m \in E \cap H : Out(m, s)
        PROVE  \A m \in E \cap H : Out(m, s)'
    BY <1>1, <1>3, OutKept
  <1>4. CASE \E p \in H : Promoted(p, s)
    <2>1. PICK E \in SUBSET Node : /\ Cardinality(E) >= Quorum
                                   /\ \A m \in E \cap H : Out(m, s)
      BY <1>2, <1>4 DEF QuorumOut
    <2> QED
      BY <1>3, <2>1
  <1>5. CASE ~\E p \in H : Promoted(p, s)
    <2>1. ASSUME NEW E \in SUBSET Node, Cardinality(E) >= Quorum,
                 E \subseteq Signers("PREPARE", s)
          PROVE  \A m \in E \cap H : Out(m, s)
      <3> SUFFICES ASSUME NEW m \in E \cap H
                   PROVE  Out(m, s)
        OBVIOUS
      <3>1. m \in Node /\ Late(m, s) /\ posts[m][s] <= 1 /\ ~Promoted(m, s)
        BY <1>2, <1>5, <2>1 DEF Late, Single
      <3> QED
        BY <3>1 DEF LateClosed, Out
    <2>2. CASE \E e \in Envelope : /\ PrePrepare(n, e) /\ SeqOf[e] = s
                                   /\ EarlyQuorum(n, s)
      <3> DEFINE E == prepare_votes[n][s]
      <3>1. /\ E \in SUBSET Node /\ Cardinality(E) >= Quorum
            /\ E \subseteq Signers("PREPARE", s)
        BY <2>2 DEF EarlyQuorum, VotesAuthentic, TypeOK
      <3>2. \A m \in E \cap H : Out(m, s)'
        BY <1>3, <2>1, <3>1
      <3> QED
        BY <3>1, <3>2
    <2>3. CASE \E d \in Message : /\ GenuinePrepare(d) /\ d.to = n
                                  /\ SeqOf[d.tx] = s
                                  /\ Promotes(n, s, Tally(prepare_votes, d))
      <3>1. PICK d \in Message : /\ GenuinePrepare(d) /\ d.to = n
                                 /\ SeqOf[d.tx] = s
                                 /\ Promotes(n, s, Tally(prepare_votes, d))
        BY <2>3
      <3>2. Tally(prepare_votes, d) \in SUBSET Node
        BY TallyTyped DEF TypeOK
      <3>3. PICK E \in SUBSET Node : E = Tally(prepare_votes, d)
        BY <3>2
      <3>4. prepare_votes'[n][s] = E /\ signed' = signed
        BY <3>1, <3>3 DEF GenuinePrepare, CountPrepare, TypeOK
      <3>5. E \subseteq Signers("PREPARE", s)
        BY <3>4 DEF VotesAuthentic, Signers
      <3>6. Cardinality(E) >= Quorum
        BY <3>1, <3>3 DEF Promotes
      <3>7. \A m \in E \cap H : Out(m, s)'
        BY <1>3, <2>1, <3>5, <3>6
      <3> QED
        BY <3>6, <3>7
    <2> QED
      BY <1>5, <2>2, <2>3, NewlyPromoted
  <1> QED
    BY <1>4, <1>5

\* The two quorums behind a decision of a node in H share no node in H.
LEMMA DecisionCost ==
    ASSUME NEW H \in SUBSET Node, DecisionCertified, QuorumOut(H),
           NEW n \in H, NEW s \in Slot, Decided(n, s), Single(s)
    PROVE  Cardinality(Node \ H) + Cardinality(Node) >= 2 * Quorum + 1
  <1> DEFINE C == Signers("COMMIT", s) \ {n}
  <1>1. PICK E \in SUBSET Node : /\ Cardinality(E) >= Quorum
                                 /\ \A m \in E \cap H : Out(m, s)
    BY DEF QuorumOut, Promoted
  <1>2. C \in SUBSET Node /\ Cardinality(C) >= Quorum
    BY DEF DecisionCertified, Signers
  <1>3. E \cap C \subseteq Node \ H /\ n \notin E \cup C
    BY <1>1 DEF Out, Promoted
  <1> HIDE DEF C
  <1> DEFINE U == E \cup C
  <1>4. /\ U \in SUBSET Node /\ n \in Node
        /\ E \cap C \in SUBSET Node /\ Node \ H \in SUBSET Node
    BY <1>1, <1>2
  <1>5. /\ Cardinality(U) = Cardinality(E) + Cardinality(C) - Cardinality(E \cap C)
        /\ Cardinality(E) \in Nat /\ Cardinality(C) \in Nat
    <2>1. IsFiniteSet(E) /\ IsFiniteSet(C)
      BY <1>2, VotersFinite
    <2> QED
      BY <2>1, FS_Union, FS_CardinalityType
  <1>6. Cardinality(E \cap C) <= Cardinality(Node \ H)
    BY <1>3, <1>4, VotersGrow
  <1>7. Cardinality(U \cup {n}) = Cardinality(U) + 1
    BY <1>3, <1>4, VotersFinite, FS_AddElement
  <1>8. Cardinality(U \cup {n}) <= Cardinality(Node)
    BY <1>4, VotersGrow
  <1>9. /\ Cardinality(U) \in Nat /\ Cardinality(E \cap C) \in Nat
        /\ Cardinality(Node \ H) \in Nat
    BY <1>4, VotersFinite
  <1> HIDE DEF U
  <1> QED
    BY <1>1, <1>2, <1>5, <1>6, <1>7, <1>8, <1>9, QuorumPositive, ClusterSize

\* Two quorums and the node that decided are disjoint.
LEMMA DecisionNeedsThree ==
    ASSUME DecisionCertified, QuorumOut(Node), NEW n \in Node, NEW s \in Slot,
           Decided(n, s), Single(s)
    PROVE  Cardinality(Node) = 3
  <1>1. Cardinality(Node \ Node) + Cardinality(Node) >= 2 * Quorum + 1
    BY DecisionCost
  <1>2. Cardinality(Node \ Node) = 0
    BY FS_EmptySet
  <1> QED
    BY <1>1, <1>2, ClusterSize, QuorumPositive, TwoQuorumsAndOne

\* What makes CommitNeedsRepost inductive.
RepostInv == CertInv /\ TasksPosted /\ LateClosed(Node) /\ QuorumOut(Node)

\* RepostInv is inductive.
LEMMA RepostInvStep == RepostInv /\ [Next]_vars => RepostInv'
  <1> SUFFICES ASSUME RepostInv, [Next]_vars
               PROVE  RepostInv'
    OBVIOUS
  <1>1. CertInv'
    BY CertInvStep DEF RepostInv
  <1>2. TasksPosted'
    BY TasksPostedStep DEF RepostInv, CertInv
  <1>3. LateClosed(Node)'
    BY LateClosedStep DEF RepostInv, CertInv
  <1>4. QuorumOut(Node)'
    BY <1>1, QuorumOutStep DEF RepostInv, CertInv
  <1> QED
    BY <1>1, <1>2, <1>3, <1>4 DEF RepostInv

\* RepostInv holds initially.
LEMMA InitRepostInv == Init => RepostInv
  <1> SUFFICES ASSUME Init
               PROVE  RepostInv
    OBVIOUS
  <1>1. CertInv
    BY InitCertInv
  <1>2. \A n \in Node, s \in Slot :
            \A at \in {"early_commits", "watchdog", "prepares", "commits"} :
                ~Has(n, at, s)
    <2>1. \A n \in Node, k \in Task : jobs[n][k] = 0
      BY DEF Init, NoTasks
    <2>2. \A n \in Node, k \in Task : ~Waiting(n, k)
      BY <2>1 DEF Waiting
    <2> QED
      BY <2>2, TaskTyped DEF Has
  <1>3. ASSUME NEW n \in Node, NEW s \in Slot
        PROVE  ~Promoted(n, s) /\ ~Late(n, s)
    <2>1. Signers("COMMIT", s) = {} /\ Signers("PREPARE", s) = {}
      BY DEF Init, Signers
    <2>2. ~Decided(n, s) /\ local_stage[n][s] # "PREPARED"
      BY DEF Init, Decided
    <2> QED
      BY <1>2, <2>1, <2>2 DEF Promoted, Late
  <1> QED
    BY <1>1, <1>2, <1>3 DEF RepostInv, TasksPosted, LateClosed, QuorumOut

\* On a cluster of any size but three, a slot that every node is given at most
\* once is never committed by anyone, whatever is delivered and when.  The first
\* quorum of PREPAREs comes from nodes whose own watchdogs have evicted the slot;
\* they cannot sign COMMITs, and the rest of the cluster is not a quorum of other
\* nodes for anyone in it.
THEOREM FirstAttemptsNeverCommit == Spec => []CommitNeedsRepost
  <1>1. Spec => []RepostInv
    BY InitRepostInv, RepostInvStep, PTL DEF Spec
  <1>2. RepostInv => CommitNeedsRepost
    BY DecisionNeedsThree DEF RepostInv, CertInv, CommitNeedsRepost, Single
  <1> QED
    BY <1>1, <1>2, PTL

==============================================================================
