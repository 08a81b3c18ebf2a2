--------------------------- MODULE SlotLifeProofs ---------------------------
(***************************************************************************)
(* Every slot of every node implements SlotLife, for every cluster, and    *)
(* what follows from it: one entry per post, records on the ledger,        *)
(* committed slots left only by posts and restarts, and the number of      *)
(* nodes a decision needs.                                                 *)
(***************************************************************************)
EXTENDS AgentConsensusProofs

-----------------------------------------------------------------------------
(* The entries of a slot *)

\* The entries of a slot can be counted.
LEMMA EntriesCounted ==
    ASSUME TypeOK, NEW n \in Node, NEW s \in Slot
    PROVE  /\ IsFiniteSet(EntriesOf(n, s))
           /\ Cardinality(EntriesOf(n, s)) \in Nat
           /\ EntriesOf(n, s) \subseteq 1..Len(ledger[n])
           /\ Len(ledger[n]) \in Nat
  <1>1. Len(ledger[n]) \in Nat
    BY DEF TypeOK
  <1>2. IsFiniteSet(1..Len(ledger[n]))
    BY <1>1, FS_Interval
  <1>3. EntriesOf(n, s) \subseteq 1..Len(ledger[n])
    BY DEF EntriesOf
  <1> QED
    BY <1>1, <1>2, <1>3, FS_Subset, FS_CardinalityType

\* A ledger that stays has the same entries.
LEMMA EntriesKept ==
    ASSUME NEW n \in Node, NEW s \in Slot, ledger'[n] = ledger[n]
    PROVE  EntriesOf(n, s)' = EntriesOf(n, s)
  BY DEF EntriesOf

\* The append of a decision adds at most one entry, to the slot decided.
LEMMA EntriesAppended ==
    ASSUME TypeOK, RecordInSlot, NEW n \in Node, NEW s \in Slot, NEW q \in Slot,
           ledger'[n] = ledger[n] \o Appended(n, q)
    PROVE  /\ s # q => EntriesOf(n, s)' = EntriesOf(n, s)
           /\ Cardinality(EntriesOf(n, s)') \in
                  {Cardinality(EntriesOf(n, s)), Cardinality(EntriesOf(n, s)) + 1}
  <1> DEFINE L == ledger[n]
             r == pre_prepares[n][q]
  <1>1. L \in Seq(Envelope) /\ Len(L) \in Nat
    BY DEF TypeOK
  <1>2. CASE r = NoEnvelope
    <2>1. ledger'[n] = L
      BY <1>1, <1>2 DEF Appended
    <2> QED
      BY <2>1, EntriesKept
  <1>3. CASE r # NoEnvelope
    <2>1. r \in Envelope /\ SeqOf[r] = q
      BY <1>3 DEF TypeOK, RecordInSlot
    <2>2. ledger'[n] = Append(L, r)
      BY <1>1, <1>3, <2>1 DEF Appended
    <2>3. /\ Len(ledger'[n]) = Len(L) + 1
          /\ \A i \in 1..Len(L) : ledger'[n][i] = L[i]
          /\ ledger'[n][Len(L) + 1] = r
      BY <1>1, <2>1, <2>2
    <2>4. 1..(Len(L) + 1) = (1..Len(L)) \cup {Len(L) + 1}
      BY <1>1
    <2>5. EntriesOf(n, s)' = EntriesOf(n, s) \cup (IF s = q THEN {Len(L) + 1} ELSE {})
      BY <2>1, <2>3, <2>4 DEF EntriesOf
    <2>6. Len(L) + 1 \notin EntriesOf(n, s)
      BY <1>1, EntriesCounted
    <2> QED
      BY <2>5, <2>6, EntriesCounted, FS_AddElement
  <1> QED
    BY <1>2, <1>3

-----------------------------------------------------------------------------
(* Stages *)

\* A slot whose watchdog is still to come has a stage.
TaskStaged ==
    \A n \in Node, s \in Slot :
        Has(n, "early_commits", s) \/ Has(n, "watchdog", s) => local_stage[n][s] # "NONE"

\* A stage that is set is the only one that changes.
LEMMA StageSet ==
    ASSUME TypeOK, NEW p \in Node, NEW q \in Slot, NEW g,
           local_stage' = [local_stage EXCEPT ![p][q] = g],
           NEW n \in Node, NEW s \in Slot
    PROVE  local_stage'[n][s] \in {g, local_stage[n][s]}
  BY DEF TypeOK

\* Only a restart of the node takes the stage of a slot away.
LEMMA StageForgotten ==
    ASSUME TypeOK, [Next]_vars, NEW n \in Node, NEW s \in Slot,
           local_stage[n][s] # "NONE", local_stage'[n][s] = "NONE"
    PROVE  Restart(n)
  <1> USE TxAssumption DEF history, tracker
  <1>1. ASSUME NEW p \in Node, NEW e \in Envelope, PrePrepare(p, e)
        PROVE  FALSE
    BY <1>1 DEF PrePrepare, TypeOK
  <1>2. ASSUME NEW m \in Message, GenuinePrepare(m)
        PROVE  FALSE
    <2>1. m.to \in Node /\ SeqOf[m.tx] \in Slot
      BY TallyTyped DEF TypeOK
    <2>2. \/ local_stage' = [local_stage EXCEPT ![m.to][SeqOf[m.tx]] = "PREPARED"]
          \/ local_stage' = local_stage
      BY <1>2 DEF GenuinePrepare, CountPrepare
    <2>3. CASE local_stage' = local_stage
      BY <2>3
    <2>4. CASE local_stage' # local_stage
      <3>1. local_stage'[n][s] \in {"PREPARED", local_stage[n][s]}
        BY <2>1, <2>2, <2>4, StageSet
      <3> QED
        BY <3>1
    <2> QED
      BY <2>3, <2>4
  <1>6. ASSUME NEW m \in Message, GenuineCommit(m)
        PROVE  FALSE
    <2>1. m.to \in Node /\ SeqOf[m.tx] \in Slot
      BY TallyTyped DEF TypeOK
    <2>2. \/ local_stage' = [local_stage EXCEPT ![m.to][SeqOf[m.tx]] = "COMMITTED"]
          \/ local_stage' = local_stage
      BY <1>6 DEF GenuineCommit, CountCommit
    <2>3. CASE local_stage' = local_stage
      BY <2>3
    <2>4. CASE local_stage' # local_stage
      <3>1. local_stage'[n][s] \in {"COMMITTED", local_stage[n][s]}
        BY <2>1, <2>2, <2>4, StageSet
      <3> QED
        BY <3>1
    <2> QED
      BY <2>3, <2>4
  <1>3. ASSUME NEW p \in Node, NEW e \in Envelope, Watchdog(p, e)
        PROVE  FALSE
    <2>1. SeqOf[e] \in Slot
      OBVIOUS
    <2>2. \/ local_stage' = [local_stage EXCEPT ![p][SeqOf[e]] = "EVICTED"]
          \/ local_stage' = local_stage
      <3>1. CASE Stalled(local_stage[p][SeqOf[e]])
        BY <1>3, <3>1 DEF Watchdog
      <3>2. CASE ~Stalled(local_stage[p][SeqOf[e]])
        BY <1>3, <3>2 DEF Watchdog
      <3> QED
        BY <3>1, <3>2
    <2>3. CASE local_stage' = local_stage
      BY <2>3
    <2>4. CASE local_stage' # local_stage
      <3>1. local_stage'[n][s] \in {"EVICTED", local_stage[n][s]}
        BY <2>1, <2>2, <2>4, StageSet
      <3> QED
        BY <3>1
    <2> QED
      BY <2>3, <2>4
  <1>4. ASSUME NEW p \in Node, Restart(p)
        PROVE  p = n
    BY <1>4 DEF Restart, TypeOK
  <1>5. local_stage' # local_stage
    OBVIOUS
  <1> QED
    BY <1>1, <1>2, <1>3, <1>4, <1>5, <1>6, EffectiveStep
    DEF EffectiveNext, Tasks, vars, ResetHead,
        BroadcastEarlyCommits, BroadcastCommits, BroadcastPrepares

\* A restart takes the tasks of a node with its stages.
LEMMA TaskStagedStep == TypeOK /\ TaskStaged /\ [Next]_vars => TaskStaged'
  <1> SUFFICES ASSUME TypeOK, TaskStaged, [Next]_vars,
                      NEW n \in Node, NEW s \in Slot,
                      NEW at \in {"early_commits", "watchdog"},
                      Has(n, at, s)', local_stage'[n][s] = "NONE"
               PROVE  FALSE
    BY DEF TaskStaged
  <1>1. ~Restart(n)
    <2> SUFFICES ASSUME Restart(n) PROVE FALSE
      OBVIOUS
    <2>1. \A k \in Task : jobs'[n][k] = 0
      BY DEF Restart, NoTasks, TypeOK
    <2> QED
      BY <2>1, TaskTyped DEF Has, Waiting
  <1>2. local_stage[n][s] = "NONE"
    BY <1>1, StageForgotten
  <1>3. ~Has(n, "early_commits", s) /\ ~Has(n, "watchdog", s)
    BY <1>2 DEF TaskStaged
  <1>4. PICK e \in Envelope : PrePrepare(n, e) /\ SeqOf[e] = s
    BY <1>3, NewTask
  <1> QED
    BY <1>4 DEF PrePrepare, TypeOK

-----------------------------------------------------------------------------
(* The step simulation *)

\* Every action is, for every slot, a step of its life or none.
LEMMA LifeStep ==
    ASSUME TypeOK, RecordInSlot, TaskStaged, [Next]_vars, NEW n \in Node, NEW s \in Slot
    PROVE  Life(n, s)!LifeNext \/ UNCHANGED Life(n, s)!slot
  <1> USE TxAssumption DEF history, tracker
  <1> DEFINE Same == /\ local_stage'[n][s] = local_stage[n][s]
                     /\ posts'[n][s] = posts[n][s]
  <1>0. ASSUME Same, EntriesOf(n, s)' = EntriesOf(n, s)
        PROVE  UNCHANGED Life(n, s)!slot
    BY <1>0 DEF Life!slot
  <1>1. ASSUME NEW p \in Node, NEW e \in Envelope, PrePrepare(p, e)
        PROVE  Life(n, s)!Post \/ UNCHANGED Life(n, s)!slot
    <2>1. EntriesOf(n, s)' = EntriesOf(n, s)
      BY <1>1, EntriesKept DEF PrePrepare
    <2>2. CASE p = n /\ SeqOf[e] = s
      <3>1. /\ posts'[n][s] = posts[n][s] + 1
            /\ local_stage'[n][s] \in {"PRE_PREPARED", "PREPARED"}
        BY <1>1, <2>2 DEF PrePrepare, StoreRecord, TypeOK
      <3> QED
        BY <2>1, <3>1 DEF Life!Post
    <2>3. CASE ~(p = n /\ SeqOf[e] = s)
      <3>1. Same
        BY <1>1, <2>3 DEF PrePrepare, StoreRecord, TypeOK
      <3> QED
        BY <1>0, <2>1, <3>1
    <2> QED
      BY <2>2, <2>3
  <1>2. ASSUME NEW m \in Message, GenuinePrepare(m)
        PROVE  Life(n, s)!Prepare \/ UNCHANGED Life(n, s)!slot
    <2>1. EntriesOf(n, s)' = EntriesOf(n, s) /\ posts'[n][s] = posts[n][s]
      BY <1>2, EntriesKept DEF GenuinePrepare, CountPrepare
    <2>2. m.to \in Node /\ SeqOf[m.tx] \in Slot
      BY TallyTyped DEF TypeOK
    <2>3. CASE local_stage'[n][s] # local_stage[n][s]
      <3>1. local_stage[n][s] = "PRE_PREPARED" /\ local_stage'[n][s] = "PREPARED"
        BY <1>2, <2>2, <2>3 DEF GenuinePrepare, CountPrepare, Promotes, TypeOK
      <3> QED
        BY <2>1, <3>1 DEF Life!Prepare
    <2> QED
      BY <1>0, <2>1, <2>3
  <1>3. ASSUME NEW m \in Message, GenuineCommit(m)
        PROVE  Life(n, s)!Commit \/ UNCHANGED Life(n, s)!slot
    <2> DEFINE q == SeqOf[m.tx]
               voters == Tally(commit_votes, m)
    <2>1. posts'[n][s] = posts[n][s]
      BY <1>3 DEF GenuineCommit, CountCommit
    <2>2. m.to \in Node /\ q \in Slot
      BY TallyTyped DEF TypeOK
    <2>3. CASE Decides(m.to, q, voters) /\ m.to = n
      <3>1. /\ ledger'[n] = ledger[n] \o Appended(n, q)
            /\ local_stage' = [local_stage EXCEPT ![n][q] = "COMMITTED"]
            /\ local_stage[n][q] = "PREPARED"
        BY <1>3, <2>2, <2>3 DEF GenuineCommit, CountCommit, Decides, TypeOK
      <3>2. CASE s = q
        <4>1. local_stage[n][s] = "PREPARED" /\ local_stage'[n][s] = "COMMITTED"
          BY <2>2, <3>1, <3>2 DEF TypeOK
        <4>2. Cardinality(EntriesOf(n, s)') \in
                  {Cardinality(EntriesOf(n, s)), Cardinality(EntriesOf(n, s)) + 1}
          BY <2>2, <3>1, EntriesAppended
        <4> QED
          BY <2>1, <4>1, <4>2 DEF Life!Commit
      <3>3. CASE s # q
        <4>1. local_stage'[n][s] = local_stage[n][s]
          BY <2>2, <3>1, <3>3 DEF TypeOK
        <4>2. EntriesOf(n, s)' = EntriesOf(n, s)
          BY <2>2, <3>1, <3>3, EntriesAppended
        <4> QED
          BY <1>0, <2>1, <4>1, <4>2
      <3> QED
        BY <3>2, <3>3
    <2>4. CASE ~(Decides(m.to, q, voters) /\ m.to = n)
      <3>1. ledger'[n] = ledger[n] /\ local_stage'[n][s] = local_stage[n][s]
        BY <1>3, <2>2, <2>4 DEF GenuineCommit, CountCommit, TypeOK
      <3> QED
        BY <1>0, <2>1, <3>1, EntriesKept
    <2> QED
      BY <2>3, <2>4
  <1>4. ASSUME NEW p \in Node, NEW e \in Envelope, Watchdog(p, e)
        PROVE  Life(n, s)!Evict \/ UNCHANGED Life(n, s)!slot
    <2>1. EntriesOf(n, s)' = EntriesOf(n, s) /\ posts'[n][s] = posts[n][s]
      BY <1>4, EntriesKept DEF Watchdog
    <2>2. CASE local_stage'[n][s] # local_stage[n][s]
      <3>1. /\ Stalled(local_stage[p][SeqOf[e]])
            /\ local_stage' = [local_stage EXCEPT ![p][SeqOf[e]] = "EVICTED"]
        BY <1>4, <2>2 DEF Watchdog
      <3>2. p = n /\ SeqOf[e] = s /\ local_stage'[n][s] = "EVICTED"
        BY <2>2, <3>1 DEF TypeOK
      <3>3. Has(n, "watchdog", s)
        BY <1>4, <3>2 DEF Watchdog, Advance, Has, Waiting
      <3>4. local_stage[n][s] \in {"PRE_PREPARED", "PREPARED"}
        BY <3>1, <3>2, <3>3 DEF Stalled, TaskStaged, TypeOK, Stage
      <3> QED
        BY <2>1, <3>2, <3>4 DEF Life!Evict, Life!IsOpen
    <2> QED
      BY <1>0, <2>1, <2>2
  <1>5. ASSUME NEW p \in Node, Restart(p)
        PROVE  Life(n, s)!Forget \/ UNCHANGED Life(n, s)!slot
    <2>1. EntriesOf(n, s)' = EntriesOf(n, s) /\ posts'[n][s] = posts[n][s]
      BY <1>5, EntriesKept DEF Restart
    <2>2. CASE p = n
      <3>1. local_stage'[n][s] = "NONE"
        BY <1>5, <2>2 DEF Restart, TypeOK
      <3> QED
        BY <2>1, <3>1 DEF Life!Forget
    <2>3. CASE p # n
      <3>1. local_stage'[n][s] = local_stage[n][s]
        BY <1>5, <2>3 DEF Restart, TypeOK
      <3> QED
        BY <1>0, <2>1, <3>1
    <2> QED
      BY <2>2, <2>3
  <1>6. ASSUME UNCHANGED <<local_stage, ledger, posts>>
        PROVE  UNCHANGED Life(n, s)!slot
    BY <1>0, <1>6, EntriesKept
  <1> QED
    BY <1>1, <1>2, <1>3, <1>4, <1>5, <1>6, EffectiveStep
    DEF EffectiveNext, Tasks, vars, ResetHead, Life!LifeNext,
        BroadcastEarlyCommits, BroadcastCommits, BroadcastPrepares

\* Every slot begins its life in the initial state.
LEMMA InitLives ==
    Init => \A n \in Node, s \in Slot : Life(n, s)!LifeInit
  <1> SUFFICES ASSUME Init, NEW n \in Node, NEW s \in Slot
               PROVE  Life(n, s)!LifeInit
    OBVIOUS
  <1>1. EntriesOf(n, s) = {}
    BY DEF Init, EntriesOf
  <1>2. local_stage[n][s] = "NONE" /\ posts[n][s] = 0
    BY DEF Init
  <1> QED
    BY <1>1, <1>2, FS_EmptySet DEF Life!LifeInit

\* What the life of a slot rests on.
LifeInv == RepostInv /\ TaskStaged

\* LifeInv is inductive.
LEMMA LifeInvStep == LifeInv /\ [Next]_vars => LifeInv'
  BY RepostInvStep, TaskStagedStep DEF LifeInv, RepostInv, CertInv

\* Initially there are no tasks.
LEMMA InitTaskStaged == Init => TaskStaged
  <1> SUFFICES ASSUME Init
               PROVE  TaskStaged
    OBVIOUS
  <1>1. \A n \in Node, k \in Task : jobs[n][k] = 0
    BY DEF Init, NoTasks
  <1>2. \A n \in Node, k \in Task : ~Waiting(n, k)
    BY <1>1 DEF Waiting
  <1> QED
    BY <1>2, TaskTyped DEF TaskStaged, Has

\* LifeInv holds initially.
LEMMA InitLifeInv == Init => LifeInv
  BY InitRepostInv, InitTaskStaged DEF LifeInv

\* LifeInv holds in every reachable state.
LEMMA LifeInvHolds == Spec => []LifeInv
  BY InitLifeInv, LifeInvStep, PTL DEF Spec

\* On any cluster, with any other slots and any stale votes and watchdogs, each
\* slot of each node implements SlotLife.
THEOREM SlotsLive == Spec => LifePerSlot
  <1> DEFINE Begins == \A n \in Node, s \in Slot : Life(n, s)!LifeInit
             Lives == \A n \in Node, s \in Slot :
                          Life(n, s)!LifeNext \/ UNCHANGED Life(n, s)!slot
  <1>1. Init => Begins
    BY InitLives
  <1>2. LifeInv /\ [Next]_vars => Lives
    BY LifeStep DEF LifeInv, RepostInv, CertInv
  <1> HIDE DEF Begins, Lives
  <1>3. Spec => Begins /\ [][Lives]_vars
    BY <1>1, <1>2, LifeInvHolds, PTL DEF Spec
  <1> QED
    BY <1>3 DEF LifePerSlot, Begins, Lives

-----------------------------------------------------------------------------
(* What the life of a slot gives *)

\* Every action keeps the entries of a slot within its posts.
LEMMA OneEntryStep ==
    TypeOK /\ RecordInSlot /\ TaskStaged /\ OneEntryPerPost /\ [Next]_vars
        => OneEntryPerPost'
  <1> SUFFICES ASSUME TypeOK, RecordInSlot, TaskStaged, OneEntryPerPost, [Next]_vars,
                      NEW n \in Node, NEW s \in Slot
               PROVE  Cardinality(EntriesOf(n, s)') + (IF Open(n, s)' THEN 1 ELSE 0)
                          <= posts'[n][s]
    BY DEF OneEntryPerPost
  <1> DEFINE c == Cardinality(EntriesOf(n, s))
             p == posts[n][s]
  <1>1. c \in Nat /\ p \in Nat
    BY EntriesCounted DEF TypeOK
  <1>2. c + (IF Open(n, s) THEN 1 ELSE 0) <= p
    BY DEF OneEntryPerPost
  <1>3. Life(n, s)!LifeNext \/ UNCHANGED Life(n, s)!slot
    BY LifeStep
  <1>4. \/ c' = c /\ p' = p + 1
        \/ c' = c /\ p' = p /\ (Open(n, s)' => Open(n, s))
        \/ c' \in {c, c + 1} /\ p' = p /\ Open(n, s) /\ ~Open(n, s)'
    BY <1>3 DEF Life!LifeNext, Life!Post, Life!Prepare, Life!Commit, Life!Evict,
                Life!Forget, Life!slot, Life!IsOpen, Open, OpenStages
  <1> HIDE DEF c, p
  <1>5. c' + (IF Open(n, s)' THEN 1 ELSE 0) <= p'
    BY <1>1, <1>2, <1>4
  <1> QED
    BY <1>5 DEF c, p

\* Without posts there are no entries.
LEMMA InitOneEntry == Init => OneEntryPerPost
  <1> SUFFICES ASSUME Init, NEW n \in Node, NEW s \in Slot
               PROVE  Cardinality(EntriesOf(n, s)) + (IF Open(n, s) THEN 1 ELSE 0)
                          <= posts[n][s]
    BY DEF OneEntryPerPost
  <1>1. EntriesOf(n, s) = {} /\ ~Open(n, s) /\ posts[n][s] = 0
    BY DEF Init, EntriesOf, Open, OpenStages
  <1> QED
    BY <1>1, FS_EmptySet

\* On any cluster, each accepted pre-prepare yields one ledger entry at most,
\* however many late or repeated votes follow.
THEOREM EntriesArePosted == Spec => []OneEntryPerPost
  <1>1. LifeInv => TypeOK /\ RecordInSlot /\ TaskStaged
    BY DEF LifeInv, RepostInv, CertInv
  <1> QED
    BY <1>1, InitOneEntry, OneEntryStep, LifeInvHolds, PTL DEF Spec

\* A committed slot is left by a post or a restart only.
LEMMA StaysStep ==
    TypeOK /\ RecordInSlot /\ TaskStaged /\ [Next]_vars =>
        \A n \in Node, s \in Slot :
            /\ local_stage[n][s] = "COMMITTED"
            /\ local_stage'[n][s] # "COMMITTED"
            => \/ posts'[n][s] > posts[n][s]
               \/ restarts'[n] > restarts[n]
  <1> SUFFICES ASSUME TypeOK, RecordInSlot, TaskStaged, [Next]_vars,
                      NEW n \in Node, NEW s \in Slot,
                      local_stage[n][s] = "COMMITTED",
                      local_stage'[n][s] # "COMMITTED"
               PROVE  \/ posts'[n][s] > posts[n][s]
                      \/ restarts'[n] > restarts[n]
    OBVIOUS
  <1>1. Life(n, s)!LifeNext \/ UNCHANGED Life(n, s)!slot
    BY LifeStep
  <1>2. posts'[n][s] = posts[n][s] + 1 \/ local_stage'[n][s] = "NONE"
    BY <1>1 DEF Life!LifeNext, Life!Post, Life!Prepare, Life!Commit, Life!Evict,
                Life!Forget, Life!slot, Life!IsOpen
  <1>3. posts[n][s] \in Nat /\ restarts[n] \in Nat
    BY DEF TypeOK
  <1>4. CASE local_stage'[n][s] = "NONE"
    <2>1. Restart(n)
      BY <1>4, StageForgotten
    <2>2. restarts'[n] = restarts[n] + 1
      BY <2>1 DEF Restart, TypeOK
    <2> QED
      BY <1>3, <2>2
  <1> QED
    BY <1>2, <1>3, <1>4

\* On any cluster, no watchdog and no vote takes a committed slot back: only a new
\* post or a restart of the node does.
THEOREM CommittedStay == Spec => CommittedNotEvicted
  <1> DEFINE Stays == \A n \in Node, s \in Slot :
                          /\ local_stage[n][s] = "COMMITTED"
                          /\ local_stage'[n][s] # "COMMITTED"
                          => \/ posts'[n][s] > posts[n][s]
                             \/ restarts'[n] > restarts[n]
  <1>1. LifeInv /\ [Next]_vars => Stays
    BY StaysStep DEF LifeInv, RepostInv, CertInv
  <1> HIDE DEF Stays
  <1>2. Spec => [][Stays]_vars
    BY <1>1, LifeInvHolds, PTL DEF Spec
  <1> QED
    BY <1>2 DEF CommittedNotEvicted, Stays

-----------------------------------------------------------------------------
(* The record of a committed slot *)

\* What a sequence holds stays at its place when another follows it.
LEMMA ConcatKeeps ==
    ASSUME NEW S, NEW a \in Seq(S), NEW b \in Seq(S), NEW i \in 1..Len(a)
    PROVE  i \in 1..Len(a \o b) /\ (a \o b)[i] = a[i]
  <1>1. Len(a \o b) = Len(a) + Len(b) /\ Len(a) \in Nat /\ Len(b) \in Nat
    OBVIOUS
  <1> QED
    BY <1>1

\* What is on a ledger stays at its place.
LEMMA LedgerGrows ==
    ASSUME TypeOK, RecordInSlot, [Next]_vars, NEW n \in Node,
           NEW i \in 1..Len(ledger[n])
    PROVE  i \in 1..Len(ledger'[n]) /\ ledger'[n][i] = ledger[n][i]
  <1> USE TxAssumption DEF history, tracker
  <1>1. ASSUME ledger'[n] = ledger[n]
        PROVE  i \in 1..Len(ledger'[n]) /\ ledger'[n][i] = ledger[n][i]
    BY <1>1
  <1>2. ASSUME NEW m \in Message, GenuineCommit(m)
        PROVE  i \in 1..Len(ledger'[n]) /\ ledger'[n][i] = ledger[n][i]
    <2> DEFINE q == SeqOf[m.tx]
    <2>1. m.to \in Node /\ q \in Slot
      BY TallyTyped DEF TypeOK
    <2>2. CASE ledger'[n] = ledger[n]
      BY <1>1, <2>2
    <2>3. CASE ledger'[n] # ledger[n]
      <3>1. ledger'[n] = ledger[n] \o Appended(n, q)
        BY <1>2, <2>1, <2>3 DEF GenuineCommit, CountCommit, TypeOK
      <3>2. ledger[n] \in Seq(Envelope)
        BY DEF TypeOK
      <3>3. Appended(n, q) \in Seq(Envelope)
        BY <2>1 DEF Appended, TypeOK
      <3> HIDE DEF q
      <3> QED
        BY <3>1, <3>2, <3>3, ConcatKeeps
    <2> QED
      BY <2>2, <2>3
  <1>3. ASSUME ledger' = ledger
        PROVE  ledger'[n] = ledger[n]
    BY <1>3
  <1> QED
    BY <1>1, <1>2, <1>3, EffectiveStep
    DEF EffectiveNext, Tasks, vars, PrePrepare, GenuinePrepare, CountPrepare,
        ResetHead, Restart, BroadcastEarlyCommits, BroadcastCommits,
        BroadcastPrepares, Watchdog

\* Whatever leaves a slot committed leaves its record too, or discards it.
LEMMA RecordKept ==
    ASSUME TypeOK, [Next]_vars, NEW n \in Node, NEW s \in Slot,
           local_stage'[n][s] = "COMMITTED"
    PROVE  pre_prepares'[n][s] \in {NoEnvelope, pre_prepares[n][s]}
  <1> USE TxAssumption DEF history, tracker
  <1>1. ASSUME NEW p \in Node, NEW e \in Envelope, PrePrepare(p, e)
        PROVE  pre_prepares'[n][s] \in {NoEnvelope, pre_prepares[n][s]}
    <2>1. ~(p = n /\ SeqOf[e] = s)
      BY <1>1 DEF PrePrepare, TypeOK
    <2> QED
      BY <1>1, <2>1 DEF PrePrepare, StoreRecord, TypeOK
  <1>2. ASSUME NEW p \in Node, NEW e \in Envelope, Watchdog(p, e)
        PROVE  pre_prepares'[n][s] \in {NoEnvelope, pre_prepares[n][s]}
    <2>1. CASE Stalled(local_stage[p][SeqOf[e]])
      <3>1. pre_prepares' = [pre_prepares EXCEPT ![p][SeqOf[e]] = NoEnvelope]
        BY <1>2, <2>1 DEF Watchdog
      <3> QED
        BY <3>1 DEF TypeOK
    <2>2. CASE ~Stalled(local_stage[p][SeqOf[e]])
      BY <1>2, <2>2 DEF Watchdog
    <2> QED
      BY <2>1, <2>2
  <1>3. ASSUME NEW p \in Node, Restart(p)
        PROVE  pre_prepares'[n][s] \in {NoEnvelope, pre_prepares[n][s]}
    BY <1>3 DEF Restart, TypeOK
  <1>4. ASSUME pre_prepares' = pre_prepares
        PROVE  pre_prepares'[n][s] \in {NoEnvelope, pre_prepares[n][s]}
    BY <1>4
  <1> QED
    BY <1>1, <1>2, <1>3, <1>4, EffectiveStep
    DEF EffectiveNext, Tasks, vars, GenuinePrepare, CountPrepare, GenuineCommit,
        CountCommit, ResetHead, BroadcastEarlyCommits, BroadcastCommits,
        BroadcastPrepares

\* The step that commits a slot appends the record held, which stays.
LEMMA NewlyCommitted ==
    ASSUME TypeOK, [Next]_vars, NEW n \in Node, NEW s \in Slot,
           local_stage'[n][s] = "COMMITTED", local_stage[n][s] # "COMMITTED"
    PROVE  /\ ledger'[n] = ledger[n] \o Appended(n, s)
           /\ pre_prepares' = pre_prepares
  <1> USE TxAssumption DEF history, tracker
  <1>1. ASSUME NEW p \in Node, NEW e \in Envelope, PrePrepare(p, e)
        PROVE  FALSE
    BY <1>1 DEF PrePrepare, TypeOK
  <1>2. ASSUME NEW m \in Message, GenuinePrepare(m)
        PROVE  FALSE
    BY <1>2, TallyTyped DEF GenuinePrepare, CountPrepare, TypeOK
  <1>3. ASSUME NEW m \in Message, GenuineCommit(m)
        PROVE  /\ ledger'[n] = ledger[n] \o Appended(n, s)
               /\ pre_prepares' = pre_prepares
    <2> DEFINE q == SeqOf[m.tx]
    <2>1. m.to \in Node /\ q \in Slot
      BY TallyTyped DEF TypeOK
    <2>2. /\ Decides(m.to, q, Tally(commit_votes, m))
          /\ local_stage' = [local_stage EXCEPT ![m.to][q] = "COMMITTED"]
      BY <1>3 DEF GenuineCommit, CountCommit
    <2>3. m.to = n /\ q = s
      BY <2>1, <2>2 DEF TypeOK
    <2>4. ledger' = [ledger EXCEPT ![n] = @ \o Appended(n, s)]
      BY <1>3, <2>2, <2>3 DEF GenuineCommit, CountCommit
    <2> QED
      BY <1>3, <2>4 DEF GenuineCommit, CountCommit, TypeOK
  <1>4. ASSUME NEW p \in Node, NEW e \in Envelope, Watchdog(p, e)
        PROVE  FALSE
    <2>1. CASE Stalled(local_stage[p][SeqOf[e]])
      <3>1. local_stage' = [local_stage EXCEPT ![p][SeqOf[e]] = "EVICTED"]
        BY <1>4, <2>1 DEF Watchdog
      <3> QED
        BY <3>1 DEF TypeOK
    <2>2. CASE ~Stalled(local_stage[p][SeqOf[e]])
      BY <1>4, <2>2 DEF Watchdog
    <2> QED
      BY <2>1, <2>2
  <1>5. ASSUME NEW p \in Node, Restart(p)
        PROVE  FALSE
    BY <1>5 DEF Restart, TypeOK
  <1>6. local_stage' # local_stage
    OBVIOUS
  <1> QED
    BY <1>1, <1>2, <1>3, <1>4, <1>5, <1>6, EffectiveStep
    DEF EffectiveNext, Tasks, vars, ResetHead,
        BroadcastEarlyCommits, BroadcastCommits, BroadcastPrepares

\* Every action keeps the records of committed slots on the ledger.
LEMMA RecordOnLedgerStep ==
    TypeOK /\ RecordInSlot /\ CommittedRecordOnLedger /\ [Next]_vars
        => CommittedRecordOnLedger'
  <1> SUFFICES ASSUME TypeOK, RecordInSlot, CommittedRecordOnLedger, [Next]_vars,
                      NEW n \in Node, NEW s \in Slot,
                      local_stage'[n][s] = "COMMITTED",
                      pre_prepares'[n][s] # NoEnvelope
               PROVE  \E i \in 1..Len(ledger'[n]) :
                          ledger'[n][i] = pre_prepares'[n][s]
    BY DEF CommittedRecordOnLedger
  <1>1. pre_prepares'[n][s] = pre_prepares[n][s]
    BY RecordKept
  <1>2. CASE local_stage[n][s] = "COMMITTED"
    <2>1. PICK i \in 1..Len(ledger[n]) : ledger[n][i] = pre_prepares[n][s]
      BY <1>1, <1>2 DEF CommittedRecordOnLedger
    <2> QED
      BY <1>1, <2>1, LedgerGrows
  <1>3. CASE local_stage[n][s] # "COMMITTED"
    <2> DEFINE r == pre_prepares[n][s]
    <2>1. ledger'[n] = ledger[n] \o <<r>>
      BY <1>1, <1>3, NewlyCommitted DEF Appended
    <2>2. ledger[n] \in Seq(Envelope) /\ r \in Envelope
      BY <1>1 DEF TypeOK
    <2>3. /\ Len(ledger'[n]) = Len(ledger[n]) + 1
          /\ ledger'[n][Len(ledger[n]) + 1] = r
      BY <2>1, <2>2
    <2> QED
      BY <1>1, <2>2, <2>3
  <1> QED
    BY <1>2, <1>3

\* On any cluster, a committed slot whose record is still held has that record on
\* the ledger of its node.
THEOREM CommittedAreWritten == Spec => []CommittedRecordOnLedger
  <1>1. Init => CommittedRecordOnLedger
    BY DEF Init, CommittedRecordOnLedger
  <1>2. LifeInv => TypeOK /\ RecordInSlot
    BY DEF LifeInv, RepostInv, CertInv
  <1> QED
    BY <1>1, <1>2, RecordOnLedgerStep, LifeInvHolds, PTL DEF Spec

-----------------------------------------------------------------------------
(* Who takes part in a decision *)

\* A node of H takes part in a slot only once it has accepted a pre-prepare for it.
PartPosted(H) ==
    \A n \in H, s \in Slot :
        Promoted(n, s) \/ local_stage[n][s] = "PRE_PREPARED" => posts[n][s] >= 1

\* Every action keeps a node that takes part posted.
LEMMA PartPostedStep ==
    ASSUME TypeOK, RecordInSlot, [Next]_vars, NEW H \in SUBSET Node, PartPosted(H)
    PROVE  PartPosted(H)'
  <1> SUFFICES ASSUME NEW n \in H, NEW s \in Slot,
                      Promoted(n, s)' \/ local_stage'[n][s] = "PRE_PREPARED"
               PROVE  posts'[n][s] >= 1
    BY DEF PartPosted
  <1>1. /\ posts[n][s] \in Nat /\ posts'[n][s] \in Nat
        /\ posts'[n][s] >= posts[n][s]
    BY PostsGrow DEF TypeOK
  <1>2. ASSUME NEW e \in Envelope, PrePrepare(n, e), SeqOf[e] = s
        PROVE  posts'[n][s] >= 1
    BY <1>1, <1>2, PostCounted
  <1>3. CASE Promoted(n, s) \/ local_stage[n][s] = "PRE_PREPARED"
    BY <1>1, <1>3 DEF PartPosted
  <1>4. CASE ~Promoted(n, s) /\ Promoted(n, s)'
    <2>1. CASE \E d \in Message : /\ GenuinePrepare(d) /\ d.to = n /\ SeqOf[d.tx] = s
                                   /\ Promotes(n, s, Tally(prepare_votes, d))
      <3>1. local_stage[n][s] = "PRE_PREPARED"
        BY <2>1 DEF Promotes
      <3> QED
        BY <1>3, <3>1
    <2> QED
      BY <1>2, <1>4, <2>1, NewlyPromoted
  <1>5. CASE /\ local_stage'[n][s] = "PRE_PREPARED"
             /\ local_stage[n][s] # "PRE_PREPARED"
    BY <1>2, <1>5, NewlyOpen
  <1> QED
    BY <1>3, <1>4, <1>5

\* A decision among nodes that take part counts more of them than a quorum.
LEMMA AudienceCounted ==
    ASSUME PartPosted(Node), DecisionCertified
    PROVE  DecisionNeedsAudience
  <1> SUFFICES ASSUME NEW s \in Slot, NEW n \in Node, Decided(n, s)
               PROVE  Cardinality({p \in Node : posts[p][s] >= 1}) > Quorum
    BY DEF DecisionNeedsAudience
  <1> DEFINE T == Signers("COMMIT", s) \ {n}
             P == {p \in Node : posts[p][s] >= 1}
  <1>1. T \in SUBSET Node /\ P \in SUBSET Node /\ T \cup {n} \in SUBSET Node
    BY SignersAreNodes DEF Phase
  <1>2. T \cup {n} \subseteq P
    <2>1. \A p \in T \cup {n} : p \in Node /\ Promoted(p, s)
      BY <1>1 DEF Promoted
    <2> QED
      BY <2>1 DEF PartPosted
  <1>3. Cardinality(T) >= Quorum
    BY DEF DecisionCertified
  <1>4. IsFiniteSet(T) /\ n \notin T /\ Cardinality(T) \in Nat
    BY <1>1, VotersFinite
  <1>5. Cardinality(T \cup {n}) = Cardinality(T) + 1
    BY <1>4, FS_AddElement
  <1>6. Cardinality(T \cup {n}) <= Cardinality(P) /\ Cardinality(P) \in Nat
    BY <1>1, <1>2, VotersGrow, VotersFinite
  <1> HIDE DEF T, P
  <1>7. Cardinality(P) > Quorum
    BY <1>3, <1>4, <1>5, <1>6, QuorumPositive
  <1> QED
    BY <1>7 DEF P

\* Before any post nobody takes part.
LEMMA InitPartPosted == Init => PartPosted(Node)
  <1> SUFFICES ASSUME Init, NEW n \in Node, NEW s \in Slot
               PROVE  ~Promoted(n, s) /\ local_stage[n][s] # "PRE_PREPARED"
    BY DEF PartPosted
  <1>1. ~Has(n, "early_commits", s) /\ ~Has(n, "commits", s)
    <2>1. \A k \in Task : jobs[n][k] = 0
      BY DEF Init, NoTasks
    <2>2. \A k \in Task : ~Waiting(n, k)
      BY <2>1 DEF Waiting
    <2> QED
      BY <2>2, TaskTyped DEF Has
  <1>2. Signers("COMMIT", s) = {} /\ ~Decided(n, s) /\ local_stage[n][s] = "NONE"
    BY DEF Init, Signers, Decided
  <1> QED
    BY <1>1, <1>2 DEF Promoted

\* On any cluster, more nodes than a quorum have accepted a pre-prepare for a slot
\* that some node has decided, through any losses, re-posts and restarts.
THEOREM DecisionsHaveAudience == Spec => []DecisionNeedsAudience
  <1>1. LifeInv => TypeOK /\ RecordInSlot /\ DecisionCertified
    BY DEF LifeInv, RepostInv, CertInv
  <1> DEFINE Posted == PartPosted(Node)
  <1>2. Posted /\ DecisionCertified => DecisionNeedsAudience
    BY AudienceCounted
  <1>3. TypeOK /\ RecordInSlot /\ Posted /\ [Next]_vars => Posted'
    BY PartPostedStep
  <1>4. Init => Posted
    BY InitPartPosted
  <1> HIDE DEF Posted
  <1> QED
    BY <1>1, <1>2, <1>3, <1>4, LifeInvHolds, PTL DEF Spec
=============================================================================
