-------------------------- MODULE ChaosClusterProofs --------------------------
(***************************************************************************)
(* The certificates behind a decision survive forged votes: every step of  *)
(* a cluster under chaos is a step of AgentConsensus or signs and posts a  *)
(* vote of a Byzantine node, which counts for no more than an honest one.  *)
(***************************************************************************)
EXTENDS ChaosCluster, SlotLifeProofs

-----------------------------------------------------------------------------
(* What a step of the cluster under chaos is *)

\* Forged votes are owed by Byzantine nodes only.
OwedByByzantine == \A v \in Vote : owed[v] > 0 => v.from \in Byzantine

\* An answer schedules a forged vote of a Byzantine node, or none.
LEMMA AnswerOwed ==
    ASSUME ChaosTypeOK, OwedByByzantine, NEW n \in Node, NEW tx \in TxId,
           NEW path \in {"pre-prepare", "prepare"}, Answer(n, path, tx)
    PROVE  ChaosTypeOK' /\ OwedByByzantine'
  <1> DEFINE v == [phase |-> NextPhase(path), from |-> n, tx |-> tx]
  <1>1. v \in Vote
    BY DEF Vote, Phase, NextPhase
  <1>2. CASE n \in Byzantine
    <2>1. owed' = [owed EXCEPT ![v] = @ + 1]
      BY <1>2 DEF Answer
    <2>2. v.from \in Byzantine
      BY <1>2
    <2> HIDE DEF v
    <2> QED
      BY <1>1, <2>1, <2>2 DEF ChaosTypeOK, OwedByByzantine
  <1>3. CASE n \notin Byzantine
    BY <1>3 DEF Answer, ChaosTypeOK, OwedByByzantine
  <1> QED
    BY <1>2, <1>3

\* A step of the cluster under chaos is a step of the cluster or a forged vote.
LEMMA ChaosStep ==
    ASSUME [ChaosNext]_<<vars, owed>>, ~[Next]_vars
    PROVE  \E v \in Vote : Forge(v)
  BY DEF ChaosNext, Next, Handlers, Tasks, vars

\* The scheduled votes stay typed and owed by Byzantine nodes.
LEMMA OwedStep ==
    ASSUME ChaosTypeOK, OwedByByzantine, [ChaosNext]_<<vars, owed>>
    PROVE  ChaosTypeOK' /\ OwedByByzantine'
  <1>1. ASSUME NEW n \in Node, NEW e \in Envelope, Answer(n, "pre-prepare", e)
        PROVE  ChaosTypeOK' /\ OwedByByzantine'
    BY <1>1, AnswerOwed, TxAssumption
  <1>2. ASSUME NEW m \in Message, Answer(m.to, "prepare", m.tx)
        PROVE  ChaosTypeOK' /\ OwedByByzantine'
    <2>1. m.to \in Node /\ m.tx \in TxId
      BY DEF Message
    <2> QED
      BY <1>2, <2>1, AnswerOwed
  <1>3. ASSUME owed' = owed
        PROVE  ChaosTypeOK' /\ OwedByByzantine'
    BY <1>3 DEF ChaosTypeOK, OwedByByzantine
  <1>4. ASSUME NEW n \in Node,
               owed' = [v \in Vote |-> IF v.from = n THEN 0 ELSE owed[v]]
        PROVE  ChaosTypeOK' /\ OwedByByzantine'
    BY <1>4 DEF ChaosTypeOK, OwedByByzantine
  <1>5. ASSUME NEW v \in Vote, Forge(v)
        PROVE  ChaosTypeOK' /\ OwedByByzantine'
    BY <1>5 DEF Forge, ChaosTypeOK, OwedByByzantine
  <1> QED
    BY <1>1, <1>2, <1>3, <1>4, <1>5 DEF ChaosNext

-----------------------------------------------------------------------------
(* Certificates *)

\* What a forged vote does to the cluster: one more signed vote of its sender.
LEMMA ForgeSigns ==
    ASSUME TypeOK, ChaosTypeOK, OwedByByzantine, NEW v \in Vote, Forge(v)
    PROVE  /\ v.phase \in Phase /\ v.from \in Byzantine /\ v.from \in Node
           /\ Poison[v.tx] \in TxId
           /\ Broadcast(v.phase, v.from, Poison[v.tx])
           /\ signed \subseteq signed'
           /\ UNCHANGED <<local_head, pre_prepares, prepare_votes, commit_votes,
                          local_stage, ledger, jobs, posts, restarts>>
  <1>1. /\ v.phase \in Phase /\ v.from \in Node /\ v.tx \in TxId
    BY DEF Vote
  <1>2. v.from \in Byzantine
    BY DEF Forge, OwedByByzantine
  <1>3. Poison[v.tx] \in TxId
    BY <1>1, PoisonAssumption
  <1>4. Broadcast(v.phase, v.from, Poison[v.tx])
    BY DEF Forge
  <1>5. signed \subseteq signed'
    BY <1>4 DEF Broadcast
  <1>6. UNCHANGED <<local_head, pre_prepares, prepare_votes, commit_votes,
                    local_stage, ledger, jobs, posts, restarts>>
    BY DEF Forge, tracker, history
  <1> QED
    BY <1>1, <1>2, <1>3, <1>4, <1>5, <1>6

\* A forged vote keeps the messages in flight signed.
LEMMA ForgeNetSigned ==
    ASSUME TypeOK, ChaosTypeOK, OwedByByzantine, NetSigned, NEW v \in Vote, Forge(v)
    PROVE  NetSigned'
  <1> SUFFICES ASSUME NEW m \in Message, net'[m] > 0
               PROVE  /\ m.to # m.from
                      /\ [phase |-> m.phase, from |-> m.from, tx |-> m.tx] \in signed'
    BY DEF NetSigned
  <1>1. Broadcast(v.phase, v.from, Poison[v.tx]) /\ signed \subseteq signed'
    BY ForgeSigns
  <1>2. CASE /\ m.phase = v.phase /\ m.from = v.from
             /\ m.tx = Poison[v.tx] /\ m.to \in Peers(v.from)
    BY <1>1, <1>2 DEF Broadcast, Peers
  <1>3. CASE ~(/\ m.phase = v.phase /\ m.from = v.from
               /\ m.tx = Poison[v.tx] /\ m.to \in Peers(v.from))
    <2>1. net'[m] = net[m]
      BY <1>1, <1>3 DEF Broadcast
    <2> QED
      BY <1>1, <2>1 DEF NetSigned
  <1> QED
    BY <1>2, <1>3

\* A forged vote takes nothing from the certificates of the decisions.
LEMMA ForgeCertInv ==
    ASSUME CertInv, ChaosTypeOK, OwedByByzantine, NEW v \in Vote, Forge(v)
    PROVE  CertInv'
  <1>0. TypeOK /\ NetSigned
    BY DEF CertInv
  <1>1. /\ v.phase \in Phase /\ v.from \in Node /\ Poison[v.tx] \in TxId
        /\ Broadcast(v.phase, v.from, Poison[v.tx])
        /\ signed \subseteq signed'
        /\ UNCHANGED <<local_head, pre_prepares, prepare_votes, commit_votes,
                       local_stage, ledger, jobs, posts, restarts>>
    BY <1>0, ForgeSigns
  <1>2. TypeOK'
    <2>1. signed' \in SUBSET Vote /\ net' \in [Message -> Nat]
      BY <1>0, <1>1, BroadcastTyped
    <2> QED
      BY <1>0, <1>1, <2>1 DEF TypeOK
  <1>3. NetSigned'
    BY <1>0, ForgeNetSigned
  <1>4. \A ph \in Phase, s \in Slot : Signers(ph, s) \subseteq Signers(ph, s)'
    BY <1>1, SignersGrow
  <1>5. "PREPARE" \in Phase /\ "COMMIT" \in Phase
    BY DEF Phase
  <1>6. VotesAuthentic'
    BY <1>1, <1>4, <1>5 DEF CertInv, VotesAuthentic
  <1>7. RecordInSlot'
    BY <1>1 DEF CertInv, RecordInSlot
  <1>8. PreparedCertified'
    <2> SUFFICES ASSUME NEW n \in Node, NEW s \in Slot, local_stage'[n][s] = "PREPARED"
                 PROVE  Cardinality(Signers("PREPARE", s)') >= Quorum
      BY DEF PreparedCertified, Quorum
    <2>1. Cardinality(Signers("PREPARE", s)) >= Quorum
      BY <1>1 DEF CertInv, PreparedCertified
    <2>2. Cardinality(Signers("PREPARE", s)) <= Cardinality(Signers("PREPARE", s)')
      BY <1>4, <1>5, SignersAreNodes, VotersGrow
    <2> QED
      BY <1>5, <2>1, <2>2, SignersAreNodes, VotersFinite, QuorumPositive
  <1>9. DecisionCertified'
    <2> SUFFICES ASSUME NEW n \in Node, NEW s \in Slot, Decided(n, s)'
                 PROVE  /\ Cardinality(Signers("COMMIT", s)' \ {n}) >= Quorum
                        /\ Cardinality(Signers("PREPARE", s)') >= Quorum
      BY DEF DecisionCertified, Quorum
    <2>1. Decided(n, s)
      BY <1>1 DEF Decided
    <2>2. /\ Cardinality(Signers("COMMIT", s) \ {n}) >= Quorum
          /\ Cardinality(Signers("PREPARE", s)) >= Quorum
      BY <2>1 DEF CertInv, DecisionCertified
    <2> DEFINE C == Signers("COMMIT", s) \ {n}
               D == Signers("COMMIT", s)' \ {n}
               P == Signers("PREPARE", s)
               R == Signers("PREPARE", s)'
    <2>3. C \in SUBSET Node /\ D \in SUBSET Node /\ C \subseteq D
      BY <1>4, <1>5, SignersAreNodes
    <2>4. P \in SUBSET Node /\ R \in SUBSET Node /\ P \subseteq R
      BY <1>4, <1>5, SignersAreNodes
    <2>5. /\ Cardinality(C) \in Nat /\ Cardinality(D) \in Nat
          /\ Cardinality(P) \in Nat /\ Cardinality(R) \in Nat
          /\ Cardinality(C) <= Cardinality(D) /\ Cardinality(P) <= Cardinality(R)
      BY <2>3, <2>4, VotersFinite, VotersGrow
    <2>6. Cardinality(C) >= Quorum /\ Cardinality(P) >= Quorum
      BY <2>2
    <2> HIDE DEF C, D, P, R
    <2>7. Cardinality(D) >= Quorum /\ Cardinality(R) >= Quorum
      BY <2>5, <2>6, QuorumPositive
    <2> QED
      BY <2>7 DEF D, R
  <1> QED
    BY <1>2, <1>3, <1>6, <1>7, <1>8, <1>9 DEF CertInv

\* The certificates and the scheduled votes are an inductive invariant.
ChaosCertInv == CertInv /\ ChaosTypeOK /\ OwedByByzantine

\* ChaosCertInv is inductive.
LEMMA ChaosCertStep ==
    ChaosCertInv /\ [ChaosNext]_<<vars, owed>> => ChaosCertInv'
  <1> SUFFICES ASSUME ChaosCertInv, [ChaosNext]_<<vars, owed>>
               PROVE  ChaosCertInv'
    OBVIOUS
  <1>1. ChaosTypeOK' /\ OwedByByzantine'
    BY OwedStep DEF ChaosCertInv
  <1>2. CASE [Next]_vars
    BY <1>1, <1>2, CertInvStep DEF ChaosCertInv
  <1>3. CASE ~[Next]_vars
    BY <1>1, <1>3, ChaosStep, ForgeCertInv DEF ChaosCertInv
  <1> QED
    BY <1>2, <1>3

\* ChaosCertInv holds initially.
LEMMA ChaosCertInit == Init /\ ChaosInit => ChaosCertInv
  <1> SUFFICES ASSUME Init, ChaosInit
               PROVE  ChaosCertInv
    OBVIOUS
  <1>1. CertInv
    BY InitCertInv
  <1>2. ChaosTypeOK /\ OwedByByzantine
    BY DEF ChaosInit, ChaosTypeOK, OwedByByzantine
  <1> QED
    BY <1>1, <1>2 DEF ChaosCertInv

\* Under chaos too a slot is decided only after a quorum of other nodes signed a
\* COMMIT and a quorum of nodes a PREPARE for it, forged votes counted.
THEOREM ChaosDecisionsAreCertified == ChaosSpec => []DecisionCertified
  <1>1. ChaosCertInv => DecisionCertified
    BY DEF ChaosCertInv, CertInv
  <1> QED
    BY <1>1, ChaosCertInit, ChaosCertStep, PTL DEF ChaosSpec

-----------------------------------------------------------------------------
(* What Byzantine votes cost *)

\* A forged vote changes nothing about the honest nodes.
LEMMA ForgeSparesHonest ==
    ASSUME TypeOK, ChaosTypeOK, OwedByByzantine, NEW v \in Vote, Forge(v),
           NEW n \in Honest, NEW s \in Slot
    PROVE  /\ Promoted(n, s)' <=> Promoted(n, s)
           /\ Out(n, s)' <=> Out(n, s)
           /\ Late(n, s)' <=> Late(n, s)
  <1>1. /\ v.from \in Byzantine
        /\ Broadcast(v.phase, v.from, Poison[v.tx])
        /\ UNCHANGED <<local_head, pre_prepares, prepare_votes, commit_votes,
                       local_stage, ledger, jobs, posts, restarts>>
    BY ForgeSigns
  <1>2. ASSUME NEW ph \in Phase
        PROVE  n \in Signers(ph, s)' <=> n \in Signers(ph, s)
    <2>1. n # v.from /\ n \in Node
      BY <1>1 DEF Honest
    <2>2. \A tx \in TxId : LET w == [phase |-> ph, from |-> n, tx |-> tx]
                           IN  w \in signed' <=> w \in signed
      BY <1>1, <2>1 DEF Broadcast
    <2> QED
      BY <2>2 DEF Signers
  <1>3. "PREPARE" \in Phase /\ "COMMIT" \in Phase
    BY DEF Phase
  <1>4. \A at \in {"early_commits", "commits", "prepares"} : Has(n, at, s)' <=> Has(n, at, s)
    BY <1>1 DEF Has, Waiting
  <1>5. Decided(n, s)' <=> Decided(n, s)
    BY <1>1 DEF Decided
  <1>6. Promoted(n, s)' <=> Promoted(n, s)
    BY <1>1, <1>2, <1>3, <1>4, <1>5 DEF Promoted
  <1>7. Late(n, s)' <=> Late(n, s)
    BY <1>2, <1>3, <1>4 DEF Late
  <1> QED
    BY <1>1, <1>6, <1>7 DEF Out

\* What makes HonestCommitNeedsRepost inductive.
ChaosRepostInv == /\ ChaosCertInv /\ TasksPosted
                  /\ LateClosed(Honest) /\ QuorumOut(Honest)

\* A forged vote keeps what is known about the honest nodes.
LEMMA ForgeRepostInv ==
    ASSUME ChaosRepostInv, NEW v \in Vote, Forge(v)
    PROVE  TasksPosted' /\ LateClosed(Honest)' /\ QuorumOut(Honest)'
  <1>0. TypeOK /\ ChaosTypeOK /\ OwedByByzantine /\ Honest \subseteq Node
    BY DEF ChaosRepostInv, ChaosCertInv, CertInv, Honest
  <1>1. UNCHANGED <<local_stage, jobs, posts>>
    BY <1>0, ForgeSigns
  <1>2. \A n \in Honest, s \in Slot : /\ Promoted(n, s)' <=> Promoted(n, s)
                                      /\ Out(n, s)' <=> Out(n, s)
                                      /\ Late(n, s)' <=> Late(n, s)
    BY <1>0, ForgeSparesHonest
  <1>3. TasksPosted'
    BY <1>1 DEF ChaosRepostInv, TasksPosted, Has, Waiting
  <1>4. LateClosed(Honest)'
    BY <1>1, <1>2 DEF ChaosRepostInv, LateClosed
  <1>5. QuorumOut(Honest)'
    <2> SUFFICES ASSUME NEW s \in Slot, Single(s)', NEW n \in Honest, Promoted(n, s)'
                 PROVE  \E E \in SUBSET Node : /\ Cardinality(E) >= Quorum
                                               /\ \A m \in E \cap Honest : Out(m, s)'
      BY DEF QuorumOut, Quorum
    <2>1. Single(s) /\ Promoted(n, s)
      BY <1>1, <1>2 DEF Single
    <2>2. PICK E \in SUBSET Node : /\ Cardinality(E) >= Quorum
                                   /\ \A m \in E \cap Honest : Out(m, s)
      BY <2>1 DEF ChaosRepostInv, QuorumOut
    <2> QED
      BY <1>2, <2>2
  <1> QED
    BY <1>3, <1>4, <1>5

\* ChaosRepostInv is inductive.
LEMMA ChaosRepostStep ==
    ChaosRepostInv /\ [ChaosNext]_<<vars, owed>> => ChaosRepostInv'
  <1> SUFFICES ASSUME ChaosRepostInv, [ChaosNext]_<<vars, owed>>
               PROVE  ChaosRepostInv'
    OBVIOUS
  <1>1. ChaosCertInv /\ ChaosCertInv'
    BY ChaosCertStep DEF ChaosRepostInv
  <1>2. CASE [Next]_vars
    <2>1. /\ TypeOK /\ RecordInSlot /\ VotesAuthentic /\ VotesAuthentic'
          /\ Honest \in SUBSET Node
      BY <1>1 DEF ChaosCertInv, CertInv, Honest
    <2>2. TasksPosted'
      BY <1>2, <2>1, TasksPostedStep DEF ChaosRepostInv
    <2>3. LateClosed(Honest)'
      BY <1>2, <2>1, LateClosedStep DEF ChaosRepostInv
    <2>4. QuorumOut(Honest)'
      BY <1>2, <2>1, QuorumOutStep DEF ChaosRepostInv
    <2> QED
      BY <1>1, <2>2, <2>3, <2>4 DEF ChaosRepostInv
  <1>3. CASE ~[Next]_vars
    BY <1>1, <1>3, ChaosStep, ForgeRepostInv DEF ChaosRepostInv
  <1> QED
    BY <1>2, <1>3

\* ChaosRepostInv holds initially.
LEMMA ChaosRepostInit == Init /\ ChaosInit => ChaosRepostInv
  <1> SUFFICES ASSUME Init, ChaosInit
               PROVE  ChaosRepostInv
    OBVIOUS
  <1>1. ChaosCertInv
    BY ChaosCertInit
  <1>2. TasksPosted /\ LateClosed(Node) /\ QuorumOut(Node)
    BY InitRepostInv DEF RepostInv
  <1>3. LateClosed(Honest) /\ QuorumOut(Honest)
    <2>1. Honest \subseteq Node
      BY DEF Honest
    <2>2. LateClosed(Honest)
      BY <1>2, <2>1 DEF LateClosed
    <2>3. QuorumOut(Honest)
      BY <1>2, <2>1 DEF QuorumOut
    <2> QED
      BY <2>2, <2>3
  <1> QED
    BY <1>1, <1>2, <1>3 DEF ChaosRepostInv

\* On a cluster of any size, with any set of Byzantine nodes: while every node is
\* given a slot once at most, an honest node commits it only if the Byzantine
\* nodes and the cluster together outnumber two quorums.
THEOREM HonestCommitsCost == ChaosSpec => []HonestCommitNeedsRepost
  <1>1. ChaosRepostInv => HonestCommitNeedsRepost
    <2> SUFFICES ASSUME ChaosRepostInv, NEW s \in Slot, NEW n \in Honest,
                        Decided(n, s), \A m \in Node : posts[m][s] <= 1
                 PROVE  Cardinality(Byzantine) + Cardinality(Node) > 2 * Quorum
      BY DEF HonestCommitNeedsRepost
    <2>1. Honest \in SUBSET Node /\ Node \ Honest = Byzantine
      BY PoisonAssumption DEF Honest
    <2>2. Cardinality(Node \ Honest) + Cardinality(Node) >= 2 * Quorum + 1
      <3>1. DecisionCertified /\ QuorumOut(Honest) /\ Single(s)
        BY DEF ChaosRepostInv, ChaosCertInv, CertInv, Single
      <3> QED
        BY <2>1, <3>1, DecisionCost
    <2>3. Cardinality(Byzantine) \in Nat
      BY PoisonAssumption, VotersFinite
    <2>4. Cardinality(Byzantine) + Cardinality(Node) >= 2 * Quorum + 1
      BY <2>1, <2>2, Zenon
    <2> QED
      BY <2>3, <2>4, ClusterSize, QuorumPositive
  <1> QED
    BY <1>1, ChaosRepostInit, ChaosRepostStep, PTL DEF ChaosSpec

-----------------------------------------------------------------------------
(* What a node keeps to whoever forges *)

\* Whatever is known of a node's own slots: tasks and stages, watchdogs, quorums,
\* entries and records.
NodeInv == /\ ChaosCertInv /\ TaskStaged
           /\ StallGuarded /\ NoIdleQuorum
           /\ OneEntryPerPost /\ CommittedRecordOnLedger

\* A forged vote changes nothing at any node until it is received.
LEMMA ForgeNodeInv ==
    ASSUME NodeInv, NEW v \in Vote, Forge(v)
    PROVE  /\ TaskStaged' /\ StallGuarded' /\ NoIdleQuorum'
           /\ OneEntryPerPost' /\ CommittedRecordOnLedger'
           /\ \A n \in Node, s \in Slot : UNCHANGED Life(n, s)!slot
  <1>1. UNCHANGED <<local_head, pre_prepares, prepare_votes, commit_votes,
                    local_stage, ledger, jobs, posts, restarts>>
    BY ForgeSigns DEF NodeInv, ChaosCertInv, CertInv
  <1>2. \A n \in Node, s \in Slot : /\ EntriesOf(n, s)' = EntriesOf(n, s)
                                    /\ Open(n, s)' <=> Open(n, s)
    BY <1>1 DEF EntriesOf, Open
  <1>3. \A n \in Node : \A k : Waiting(n, k)' <=> Waiting(n, k)
    BY <1>1 DEF Waiting
  <1>4. TaskStaged'
    BY <1>1, <1>3 DEF NodeInv, TaskStaged, Has
  <1>5. StallGuarded'
    BY <1>1, <1>2 DEF NodeInv, StallGuarded
  <1>6. NoIdleQuorum'
    BY <1>1 DEF NodeInv, NoIdleQuorum, Quorum
  <1>7. OneEntryPerPost'
    BY <1>1, <1>2 DEF NodeInv, OneEntryPerPost
  <1>8. CommittedRecordOnLedger'
    BY <1>1 DEF NodeInv, CommittedRecordOnLedger
  <1>9. \A n \in Node, s \in Slot : UNCHANGED Life(n, s)!slot
    BY <1>1, <1>2 DEF Life!slot
  <1> QED
    BY <1>4, <1>5, <1>6, <1>7, <1>8, <1>9

\* NodeInv is inductive.
LEMMA NodeInvStep == NodeInv /\ [ChaosNext]_<<vars, owed>> => NodeInv'
  <1> SUFFICES ASSUME NodeInv, [ChaosNext]_<<vars, owed>>
               PROVE  NodeInv'
    OBVIOUS
  <1>1. ChaosCertInv'
    BY ChaosCertStep DEF NodeInv
  <1>2. CASE [Next]_vars
    <2>1. TypeOK /\ RecordInSlot
      BY DEF NodeInv, ChaosCertInv, CertInv
    <2>2. TaskStaged' /\ StallGuarded'
      BY <1>2, <2>1, TaskStagedStep, StallGuardedStep DEF NodeInv
    <2>3. NoIdleQuorum' /\ OneEntryPerPost'
      BY <1>2, <2>1, NoIdleQuorumStep, OneEntryStep DEF NodeInv
    <2>4. CommittedRecordOnLedger'
      BY <1>2, <2>1, RecordOnLedgerStep DEF NodeInv
    <2> QED
      BY <1>1, <2>2, <2>3, <2>4 DEF NodeInv
  <1>3. CASE ~[Next]_vars
    BY <1>1, <1>3, ChaosStep, ForgeNodeInv DEF NodeInv
  <1> QED
    BY <1>2, <1>3

\* NodeInv holds initially, when nothing is posted.
LEMMA NodeInvInit == Init /\ ChaosInit => NodeInv
  <1> SUFFICES ASSUME Init, ChaosInit
               PROVE  NodeInv
    OBVIOUS
  <1>1. StallGuarded /\ NoIdleQuorum /\ CommittedRecordOnLedger
    BY DEF Init, StallGuarded, Open, OpenStages, NoIdleQuorum, CommittedRecordOnLedger
  <1> QED
    BY <1>1, ChaosCertInit, InitTaskStaged, InitOneEntry DEF NodeInv

\* NodeInv always holds.
LEMMA NodeInvHolds == ChaosSpec => []NodeInv
  BY NodeInvInit, NodeInvStep, PTL DEF ChaosSpec

\* No number of Byzantine nodes, and nothing they forge, makes a node miss the
\* watchdog of an open slot or leave a counted quorum waiting, write more entries
\* than it was given records, or decide a record it does not write.
THEOREM NodesKeepOrder ==
    ChaosSpec => /\ [](StallGuarded /\ NoIdleQuorum)
                 /\ [](OneEntryPerPost /\ CommittedRecordOnLedger)
  <1>1. NodeInv => /\ StallGuarded /\ NoIdleQuorum
                   /\ OneEntryPerPost /\ CommittedRecordOnLedger
    BY DEF NodeInv
  <1> QED
    BY <1>1, NodeInvHolds, PTL

\* Under chaos too each slot of each node implements SlotLife: a forged vote that is
\* counted moves a slot on only where an honest one would.
THEOREM ChaosSlotsLive == ChaosSpec => LifePerSlot
  <1> DEFINE Begins == \A n \in Node, s \in Slot : Life(n, s)!LifeInit
             Lives == \A n \in Node, s \in Slot :
                          Life(n, s)!LifeNext \/ UNCHANGED Life(n, s)!slot
  <1>1. Init => Begins
    BY InitLives
  <1>2. NodeInv /\ [ChaosNext]_<<vars, owed>> => [Lives]_vars
    <2> SUFFICES ASSUME NodeInv, [ChaosNext]_<<vars, owed>>
                 PROVE  Lives
      OBVIOUS
    <2>1. CASE [Next]_vars
      BY <2>1, LifeStep DEF NodeInv, ChaosCertInv, CertInv
    <2>2. CASE ~[Next]_vars
      BY <2>2, ChaosStep, ForgeNodeInv
    <2> QED
      BY <2>1, <2>2
  <1> HIDE DEF Begins, Lives
  <1>3. ChaosSpec => Begins /\ [][Lives]_vars
    BY <1>1, <1>2, NodeInvHolds, PTL DEF ChaosSpec
  <1> QED
    BY <1>3 DEF LifePerSlot, Begins, Lives

\* No vote, forged or not, and no watchdog takes a committed slot back.
THEOREM ChaosCommittedStay == ChaosSpec => CommittedNotEvicted
  <1> DEFINE Stays == \A n \in Node, s \in Slot :
                          /\ local_stage[n][s] = "COMMITTED"
                          /\ local_stage'[n][s] # "COMMITTED"
                          => \/ posts'[n][s] > posts[n][s]
                             \/ restarts'[n] > restarts[n]
  <1>1. NodeInv /\ [ChaosNext]_<<vars, owed>> => [Stays]_vars
    <2> SUFFICES ASSUME NodeInv, [ChaosNext]_<<vars, owed>>
                 PROVE  Stays
      OBVIOUS
    <2>1. CASE [Next]_vars
      <3>1. TypeOK /\ RecordInSlot /\ TaskStaged
        BY DEF NodeInv, ChaosCertInv, CertInv
      <3> QED
        BY <2>1, <3>1, StaysStep
    <2>2. CASE ~[Next]_vars
      <3>1. TypeOK /\ ChaosTypeOK /\ OwedByByzantine
        BY DEF NodeInv, ChaosCertInv, CertInv
      <3>2. local_stage' = local_stage
        BY <2>2, <3>1, ChaosStep, ForgeSigns
      <3> QED
        BY <3>2
    <2> QED
      BY <2>1, <2>2
  <1> HIDE DEF Stays
  <1>2. ChaosSpec => [][Stays]_vars
    BY <1>1, NodeInvHolds, PTL DEF ChaosSpec
  <1> QED
    BY <1>2 DEF CommittedNotEvicted, Stays

-----------------------------------------------------------------------------
(* Who takes part in a decision among forged votes *)

\* The honest nodes that take part in a slot were given it.
HonestPosted == PartPosted(Honest)

\* A step of the cluster under chaos keeps it so.
LEMMA HonestPostedStep ==
    ChaosCertInv /\ HonestPosted /\ [ChaosNext]_<<vars, owed>> => HonestPosted'
  <1> SUFFICES ASSUME ChaosCertInv, HonestPosted, [ChaosNext]_<<vars, owed>>
               PROVE  HonestPosted'
    OBVIOUS
  <1>1. /\ TypeOK /\ RecordInSlot /\ ChaosTypeOK /\ OwedByByzantine
        /\ Honest \in SUBSET Node
    BY DEF ChaosCertInv, CertInv, Honest
  <1>2. CASE [Next]_vars
    BY <1>1, <1>2, PartPostedStep DEF HonestPosted
  <1>3. ASSUME NEW v \in Vote, Forge(v)
        PROVE  HonestPosted'
    <2>1. \A n \in Honest, s \in Slot : Promoted(n, s)' <=> Promoted(n, s)
      BY <1>1, <1>3, ForgeSparesHonest
    <2>2. UNCHANGED <<local_stage, posts>>
      BY <1>1, <1>3, ForgeSigns
    <2> QED
      BY <2>1, <2>2 DEF HonestPosted, PartPosted
  <1> QED
    BY <1>2, <1>3, ChaosStep

\* The signers of the COMMITs a decision counted, and the decider, are Byzantine or
\* were given the slot.
LEMMA HonestAudienceCounted ==
    ASSUME HonestPosted, DecisionCertified
    PROVE  DecisionNeedsHonestAudience
  <1> SUFFICES ASSUME NEW s \in Slot, NEW n \in Node, Decided(n, s)
               PROVE  Cardinality({p \in Honest : posts[p][s] >= 1}) + Cardinality(Byzantine)
                          > Quorum
    BY DEF DecisionNeedsHonestAudience
  <1> DEFINE T == Signers("COMMIT", s) \ {n}
             P == {p \in Honest : posts[p][s] >= 1}
  <1>1. /\ T \in SUBSET Node /\ P \in SUBSET Node /\ Byzantine \in SUBSET Node
        /\ T \cup {n} \in SUBSET Node /\ P \cup Byzantine \in SUBSET Node
    BY SignersAreNodes, PoisonAssumption DEF Phase, Honest
  <1>2. T \cup {n} \subseteq P \cup Byzantine
    <2>1. \A p \in T \cup {n} : p \in Node /\ Promoted(p, s)
      BY <1>1 DEF Promoted
    <2> QED
      BY <2>1 DEF HonestPosted, PartPosted, Honest
  <1>3. Cardinality(T) >= Quorum
    BY DEF DecisionCertified
  <1>4. IsFiniteSet(T) /\ n \notin T /\ Cardinality(T) \in Nat
    BY <1>1, VotersFinite
  <1>5. Cardinality(T \cup {n}) = Cardinality(T) + 1
    BY <1>4, FS_AddElement
  <1>6. /\ Cardinality(T \cup {n}) <= Cardinality(P \cup Byzantine)
        /\ Cardinality(P \cup Byzantine) \in Nat
    BY <1>1, <1>2, VotersGrow, VotersFinite
  <1>7. /\ Cardinality(P \cup Byzantine) = Cardinality(P) + Cardinality(Byzantine)
        /\ Cardinality(P) \in Nat /\ Cardinality(Byzantine) \in Nat
    <2>1. P \cap Byzantine = {}
      BY DEF Honest
    <2> HIDE DEF P
    <2>2. /\ IsFiniteSet(P) /\ IsFiniteSet(Byzantine)
          /\ Cardinality(P) \in Nat /\ Cardinality(Byzantine) \in Nat
      BY <1>1, VotersFinite
    <2>3. Cardinality(P \cap Byzantine) = 0
      BY <2>1, FS_EmptySet
    <2>4. Cardinality(P \cup Byzantine)
              = Cardinality(P) + Cardinality(Byzantine) - Cardinality(P \cap Byzantine)
      BY <2>2, FS_Union
    <2> QED
      BY <2>2, <2>3, <2>4
  <1> HIDE DEF T, P
  <1>8. Cardinality(P) + Cardinality(Byzantine) > Quorum
    BY <1>3, <1>4, <1>5, <1>6, <1>7, QuorumPositive
  <1> QED
    BY <1>8 DEF P

\* On any cluster, under any number of Byzantine nodes: whoever decides a slot, the
\* honest nodes that were given it and the Byzantine nodes outnumber a quorum.
THEOREM DecisionsHaveHonestAudience == ChaosSpec => []DecisionNeedsHonestAudience
  <1>1. Init => HonestPosted
    BY InitPartPosted DEF HonestPosted, PartPosted, Honest
  <1>2. ChaosCertInv => DecisionCertified
    BY DEF ChaosCertInv, CertInv
  <1> QED
    BY <1>1, <1>2, HonestPostedStep, HonestAudienceCounted, ChaosCertInit,
       ChaosCertStep, PTL
    DEF ChaosSpec
==============================================================================
