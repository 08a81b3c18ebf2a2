--------------------------- MODULE BatchDriverProofs ---------------------------
(***************************************************************************)
(* What the verdicts and head resets of the driver rest on, for every      *)
(* cluster, list of batches and fault: posts and resets that arrive late,  *)
(* votes and watchdogs between two questions, and restarts.                *)
(***************************************************************************)
EXTENDS BatchDriver, SlotLifeProofs, InductionLemmas

-----------------------------------------------------------------------------
(* Where the driver is *)

\* base is the slot at which the batch begins.
Numbered == \E f \in Bases(plan) : base = f[batch]

\* The records of the batch in turn, each for at most every leader, and answers
\* to its questions only while they are asked.
Placed ==
    /\ at # "done" => batch <= Len(plan) /\ idx < Size
    /\ at \in {"judged", "reset", "done"} => idx = 0
    /\ at \notin {"propose", "await"} => round = 0
    /\ at = "propose" => round < Cardinality(Node)
    /\ at = "await" => round >= 1
    /\ at # "verify" => confirmed = {} /\ asking = 1

\* The first slot that no round has been spent on and none is under way for.
Fresh == IF at = "done" THEN base
         ELSE IF at \in {"propose", "await"} THEN base + idx + 1
         ELSE base + Size

\* The rounds of the current record are counted, and those of the batch before it.
Counted ==
    /\ at \in {"propose", "await"} => rounds[Current] = round
    /\ \A s \in Slot : s >= Fresh => rounds[s] = 0
    /\ \A s \in Slot : /\ base <= s /\ s < Fresh
                       /\ at = "propose" => s # Current
                       => rounds[s] > 0

Position == DriverTypeOK /\ Numbered /\ Placed /\ Counted

\* While a batch runs its slots exist.
LEMMA BatchInSlots ==
    ASSUME DriverTypeOK, Numbered, Placed, at # "done"
    PROVE  /\ Size \in Nat \ {0} /\ base \in Nat /\ idx \in Nat /\ idx < Size
           /\ \A i \in Nat : i < Size => base + i \in Slot
           /\ Current \in Slot /\ Current \in Nat
  <1>1. plan \in Seq(Nat \ {0}) /\ batch \in 1..Len(plan)
    BY BatchAssumption DEF DriverTypeOK, Placed
  <1>2. Size \in Nat \ {0}
    BY <1>1 DEF Size
  <1>3. PICK f \in Bases(plan) : base = f[batch]
    BY DEF Numbered
  <1>4. f[batch + 1] = base + Size /\ f[batch]..(f[batch + 1] - 1) \subseteq Slot
    BY <1>1, <1>3 DEF Bases, Size
  <1>5. base \in Nat /\ idx \in Nat /\ idx < Size
    BY DEF DriverTypeOK, Placed
  <1>6. \A i \in Nat : i < Size => base + i \in Slot
    <2> SUFFICES ASSUME NEW i \in Nat, i < Size
                 PROVE  base + i \in Slot
      OBVIOUS
    <2>1. base + i \in f[batch]..(f[batch + 1] - 1)
      BY <1>2, <1>3, <1>4, <1>5
    <2> QED
      BY <1>4, <2>1
  <1> QED
    BY <1>2, <1>5, <1>6, SlotAssumption DEF Current

\* The leader after the last node is the first.
LEMMA LeaderTyped == leader \in 1..Cardinality(Node) => NextLeader \in 1..Cardinality(Node)
  <1> DEFINE N == Cardinality(Node)
  <1>1. N \in Nat /\ N >= 1
    BY ClusterSize
  <1> HIDE DEF N
  <1>2. \A i \in Nat : i % N \in 0..(N - 1)
    BY <1>1
  <1> QED
    BY <1>1, <1>2 DEF NextLeader, N

\* The driver begins before its first record.
LEMMA InitPosition == DriverInit => Position
  <1> SUFFICES ASSUME DriverInit
               PROVE  Position
    OBVIOUS
  <1>1. plan \in Seq(Nat \ {0}) /\ plan \in BatchPlans
    BY BatchAssumption DEF DriverInit
  <1>2. Len(plan) \in Nat /\ (plan # <<>> => Len(plan) >= 1 /\ plan[1] \in Nat \ {0})
    BY <1>1
  <1>3. Cardinality(Node) \in Nat \ {0}
    BY ClusterSize
  <1>4. DriverTypeOK
    <2>1. at \in {"propose", "done"} /\ batch \in 1..(Len(plan) + 1)
      BY <1>2 DEF DriverInit
    <2>2. verdict \in [Slot -> {"PENDING", "OK", "FAIL"}]
      BY DEF DriverInit
    <2>3. rounds \in [Slot -> 0..Cardinality(Node)]
      BY <1>3 DEF DriverInit
    <2>4. waiting = {} /\ offered = {} /\ resetting = {} /\ confirmed = {}
      BY DEF DriverInit
    <2>5. /\ base \in Nat /\ idx \in Nat /\ round \in 0..Cardinality(Node)
          /\ leader \in 1..Cardinality(Node) /\ asking \in 1..(Cardinality(Node) + 1)
      BY <1>3 DEF DriverInit
    <2>6. acked \in BOOLEAN
      BY DEF DriverInit
    <2> QED
      BY <1>1, <2>1, <2>2, <2>3, <2>4, <2>5, <2>6 DEF DriverTypeOK
  <1>5. Numbered
    <2>1. PICK f \in Bases(plan) : TRUE
      BY <1>1, NumberingAssumption
    <2>2. f[1] = 1 /\ base = 1 /\ batch = 1
      BY <2>1 DEF Bases, DriverInit
    <2> QED
      BY <2>2 DEF Numbered
  <1>6. Placed
    BY <1>2, <1>3 DEF DriverInit, Placed, Size
  <1>7. Counted
    <2>1. CASE plan = <<>>
      BY <2>1, SlotAssumption DEF DriverInit, Counted, Fresh
    <2>2. CASE plan # <<>>
      <3>1. Current \in Slot /\ Current = 1
        BY <1>4, <1>5, <1>6, <2>2, BatchInSlots DEF DriverInit, Current
      <3>2. Fresh = 2
        BY <2>2 DEF DriverInit, Fresh
      <3> QED
        BY <2>2, <3>1, <3>2, SlotAssumption DEF DriverInit, Counted
    <2> QED
      BY <2>1, <2>2
  <1> QED
    BY <1>4, <1>5, <1>6, <1>7 DEF Position

\* What only waits or listens leaves the driver where it is.
LEMMA PositionKept ==
    ASSUME Position, UNCHANGED <<at, loop, idx, asking, confirmed, verdict, rounds>>,
           waiting' \subseteq Node, acked' \in BOOLEAN,
           offered' \subseteq offered, resetting' \subseteq resetting
    PROVE  Position'
  <1> USE DEF loop
  <1>1. DriverTypeOK'
    BY DEF Position, DriverTypeOK
  <1>2. Numbered' /\ Placed'
    BY DEF Position, Numbered, Placed, Size
  <1>3. Counted'
    BY DEF Position, Counted, Fresh, Current, Size
  <1> QED
    BY <1>1, <1>2, <1>3 DEF Position

\* The proposals of a round are envelopes of the current slot, one per recipient.
LEMMA ProposalTyped ==
    ASSUME Position, at # "done"
    PROVE  /\ NodeOrder[leader] \in Node /\ Current \in Slot
           /\ EnvelopeOf[<<NodeOrder[leader], Current>>] \in Envelope
           /\ SeqOf[EnvelopeOf[<<NodeOrder[leader], Current>>]] = Current
  <1>1. Current \in Slot
    BY BatchInSlots DEF Position
  <1>2. NodeOrder[leader] \in Node
    BY OrderAssumption DEF Position, DriverTypeOK
  <1> QED
    BY <1>1, <1>2, LeaderAssumption

\* A round begins.
LEMMA ProposePosition == Position /\ Propose => Position'
  <1> SUFFICES ASSUME Position, Propose
               PROVE  Position'
    OBVIOUS
  <1> USE DEF loop
  <1> DEFINE e == EnvelopeOf[<<NodeOrder[leader], Current>>]
  <1>1. at = "propose" /\ at' = "await" /\ round' = round + 1
    BY DEF Propose
  <1>2. /\ plan' = plan /\ batch' = batch /\ base' = base /\ idx' = idx /\ leader' = leader
        /\ resetting' = resetting /\ asking' = asking /\ confirmed' = confirmed
        /\ verdict' = verdict /\ waiting' = Recipients
    BY DEF Propose
  <1>3. Cardinality(Node) \in Nat /\ base \in Nat /\ idx \in Nat /\ Size \in Nat /\ idx < Size
    BY <1>1, BatchInSlots, ClusterSize DEF Position
  <1>4. round \in Nat /\ round < Cardinality(Node)
    BY <1>1 DEF Position, Placed, DriverTypeOK
  <1>5. Current \in Slot /\ Current = base + idx /\ rounds[Current] = round
    BY <1>1, ProposalTyped DEF Position, Counted, Current
  <1>6. rounds' = [rounds EXCEPT ![Current] = round + 1]
    BY <1>5 DEF Propose
  <1>7. DriverTypeOK'
    <2>1. offered' \subseteq [to : Node, env : Envelope]
      <3>1. e \in Envelope
        BY <1>1, ProposalTyped
      <3>2. offered' = offered \cup {[to |-> n, env |-> e] : n \in Recipients}
        BY DEF Propose
      <3> HIDE DEF e
      <3> QED
        BY <3>1, <3>2 DEF Position, DriverTypeOK, Recipients
    <2>2. rounds' \in [Slot -> 0..Cardinality(Node)]
      BY <1>3, <1>4, <1>5, <1>6 DEF Position, DriverTypeOK
    <2>3. acked' \in BOOLEAN
      BY DEF Propose
    <2>4. round' \in 0..Cardinality(Node) /\ waiting' \subseteq Node
      BY <1>1, <1>2, <1>3, <1>4 DEF Recipients
    <2>5. confirmed' \subseteq Healthy' /\ Healthy' = Healthy
      BY <1>2 DEF Position, DriverTypeOK, Healthy
    <2> QED
      BY <1>1, <1>2, <2>1, <2>2, <2>3, <2>4, <2>5 DEF Position, DriverTypeOK
  <1>8. Numbered' /\ Placed'
    BY <1>1, <1>2, <1>4 DEF Position, Numbered, Placed, Size
  <1>9. Counted'
    <2>1. Fresh = Current + 1 /\ Fresh' = Current + 1 /\ Current' = Current
      BY <1>1, <1>2, <1>5 DEF Fresh, Current
    <2>2. rounds'[Current] = round'
      BY <1>1, <1>5, <1>6 DEF Position, DriverTypeOK
    <2>3. \A s \in Slot : s # Current => rounds'[s] = rounds[s]
      BY <1>6 DEF Position, DriverTypeOK
    <2>4. \A s \in Slot : s >= Fresh => rounds[s] = 0
      BY DEF Position, Counted
    <2>5. \A s \in Slot : base <= s /\ s < Fresh /\ s # Current => rounds[s] > 0
      BY DEF Position, Counted
    <2>6. Current \in Nat
      BY <1>5, SlotAssumption
    <2>7. \A s \in Slot : s >= Fresh' => rounds'[s] = 0
      BY <2>1, <2>3, <2>4, <2>6
    <2>8. rounds'[Current] > 0
      BY <1>1, <1>4, <2>2
    <2>9. \A s \in Slot : base <= s /\ s < Fresh' => rounds'[s] > 0
      BY <2>1, <2>3, <2>5, <2>8
    <2> QED
      BY <1>1, <1>2, <2>1, <2>2, <2>7, <2>9 DEF Counted
  <1> QED
    BY <1>7, <1>8, <1>9 DEF Position

\* A round ends: with the record, or with one leader more.
LEMMA EndRoundPosition == Position /\ EndRound => Position'
  <1> SUFFICES ASSUME Position, EndRound
               PROVE  Position'
    OBVIOUS
  <1> USE DEF loop
  <1>1. /\ at = "await" /\ round >= 1 /\ confirmed = {} /\ asking = 1
        /\ batch <= Len(plan)
    BY DEF EndRound, Position, Placed
  <1>2. /\ plan' = plan /\ batch' = batch /\ base' = base /\ asking' = asking
        /\ confirmed' = confirmed /\ rounds' = rounds /\ acked' = acked
        /\ waiting' = waiting /\ offered' = offered /\ resetting' = resetting
        /\ verdict' = verdict
    BY DEF EndRound
  <1>3. Cardinality(Node) \in Nat /\ base \in Nat /\ idx \in Nat /\ Size \in Nat \ {0} /\ idx < Size
    BY <1>1, BatchInSlots, ClusterSize DEF Position
  <1>4. round \in 0..Cardinality(Node) /\ Size' = Size
    BY <1>2 DEF Position, DriverTypeOK, Size
  <1>5. /\ \A s \in Slot : s >= base + idx + 1 => rounds[s] = 0
        /\ \A s \in Slot : base <= s /\ s < base + idx + 1 => rounds[s] > 0
        /\ rounds[base + idx] = round
    BY <1>1 DEF Position, Counted, Fresh, Current
  <1>6. leader' \in 1..Cardinality(Node)
    BY LeaderTyped DEF EndRound, Position, DriverTypeOK
  <1>7. CASE RecordPosted /\ idx + 1 < Size
    <2>1. at' = "propose" /\ idx' = idx + 1 /\ round' = 0
      BY <1>7 DEF EndRound
    <2>2. DriverTypeOK'
      BY <1>2, <1>3, <1>6, <2>1 DEF Position, DriverTypeOK, Healthy
    <2>3. Numbered' /\ Placed'
      BY <1>1, <1>2, <1>3, <1>4, <1>7, <2>1, ClusterSize DEF Position, Numbered, Placed
    <2>4. Fresh' = base + idx + 2 /\ Current' = base + idx + 1
      BY <1>2, <1>3, <2>1 DEF Fresh, Current
    <2>5. base + idx + 1 \in Slot
      <3>1. \A i \in Nat : i < Size => base + i \in Slot
        BY <1>1, BatchInSlots DEF Position
      <3>2. base + (idx + 1) \in Slot
        BY <1>3, <1>7, <3>1
      <3>3. base + (idx + 1) = base + idx + 1
        BY <1>3
      <3> QED
        BY <3>2, <3>3
    <2>6. Counted'
      <3>1. rounds'[Current'] = round'
        <4>1. rounds[base + idx + 1] = 0
          BY <1>3, <1>5, <2>5
        <4> QED
          BY <1>2, <2>1, <2>4, <4>1
      <3>2. \A s \in Slot : s >= Fresh' => rounds'[s] = 0
        BY <1>2, <1>3, <1>5, <2>4, SlotAssumption
      <3>3. \A s \in Slot : base' <= s /\ s < Fresh' /\ s # Current' => rounds'[s] > 0
        BY <1>2, <1>3, <1>5, <2>4, SlotAssumption
      <3> QED
        BY <2>1, <3>1, <3>2, <3>3 DEF Counted
    <2> QED
      BY <2>2, <2>3, <2>6 DEF Position
  <1>8. CASE RecordPosted /\ ~(idx + 1 < Size)
    <2>1. at' = "verify" /\ idx' = 0 /\ round' = 0
      BY <1>8 DEF EndRound
    <2>2. DriverTypeOK'
      BY <1>2, <1>3, <1>6, <2>1 DEF Position, DriverTypeOK, Healthy
    <2>3. Numbered' /\ Placed'
      BY <1>1, <1>2, <1>3, <1>4, <2>1 DEF Position, Numbered, Placed
    <2>4. Fresh' = base + idx + 1
      BY <1>2, <1>3, <1>4, <1>8, <2>1 DEF Fresh
    <2>5. Counted'
      BY <1>2, <1>5, <2>1, <2>4 DEF Counted
    <2> QED
      BY <2>2, <2>3, <2>5 DEF Position
  <1>9. CASE ~RecordPosted
    <2>1. at' = "propose" /\ idx' = idx /\ round' = round
      BY <1>9 DEF EndRound
    <2>2. round < Cardinality(Node)
      BY <1>3, <1>4, <1>9 DEF RecordPosted
    <2>3. DriverTypeOK'
      BY <1>2, <1>3, <1>6, <2>1 DEF Position, DriverTypeOK, Healthy
    <2>4. Numbered' /\ Placed'
      BY <1>1, <1>2, <1>3, <1>4, <2>1, <2>2 DEF Position, Numbered, Placed
    <2>5. Fresh' = base + idx + 1 /\ Current' = base + idx
      BY <1>2, <2>1 DEF Fresh, Current
    <2>6. Counted'
      BY <1>2, <1>5, <2>1, <2>5 DEF Counted
    <2> QED
      BY <2>3, <2>4, <2>6 DEF Position
  <1> QED
    BY <1>7, <1>8, <1>9

\* A node is asked.
LEMMA AskPosition == Position /\ (\E answered \in BOOLEAN : Ask(answered)) => Position'
  <1> SUFFICES ASSUME Position, NEW answered \in BOOLEAN, Ask(answered)
               PROVE  Position'
    OBVIOUS
  <1> USE DEF loop
  <1>1. at = "verify" /\ asking <= Cardinality(Node) /\ asking' = asking + 1
    BY DEF Ask
  <1>2. /\ at' = at /\ plan' = plan /\ batch' = batch /\ base' = base /\ idx' = idx
        /\ leader' = leader /\ round' = round /\ acked' = acked /\ waiting' = waiting
        /\ offered' = offered /\ resetting' = resetting /\ verdict' = verdict
        /\ rounds' = rounds
    BY DEF Ask
  <1>3. confirmed' \in {confirmed, confirmed \cup {NodeOrder[asking]}}
        /\ (confirmed' # confirmed => NodeOrder[asking] \in Healthy)
    BY DEF Ask
  <1>4. Cardinality(Node) \in Nat /\ asking' \in 1..(Cardinality(Node) + 1)
    BY <1>1, ClusterSize DEF Position, DriverTypeOK
  <1>5. confirmed' \subseteq Healthy' /\ Healthy' = Healthy
    BY <1>3 DEF Position, DriverTypeOK, Healthy
  <1>6. DriverTypeOK'
    BY <1>2, <1>4, <1>5 DEF Position, DriverTypeOK
  <1>7. Numbered' /\ Placed'
    BY <1>1, <1>2 DEF Position, Numbered, Placed, Size
  <1>8. Counted'
    BY <1>2 DEF Position, Counted, Fresh, Current, Size
  <1> QED
    BY <1>6, <1>7, <1>8 DEF Position

\* A record is judged.
LEMMA JudgePosition == Position /\ Judge => Position'
  <1> SUFFICES ASSUME Position, Judge
               PROVE  Position'
    OBVIOUS
  <1> USE DEF loop
  <1>1. at = "verify" /\ asking' = 1 /\ confirmed' = {} /\ round = 0
    BY DEF Judge, Position, Placed
  <1>2. /\ plan' = plan /\ batch' = batch /\ base' = base /\ leader' = leader
        /\ round' = round /\ acked' = acked /\ waiting' = waiting /\ offered' = offered
        /\ resetting' = resetting /\ rounds' = rounds /\ Size' = Size
    BY DEF Judge, Size
  <1>3. base \in Nat /\ idx \in Nat /\ Size \in Nat \ {0} /\ idx < Size /\ batch <= Len(plan)
    BY <1>1, BatchInSlots DEF Position, Placed
  <1>4. \/ at' = "verify" /\ idx' = idx + 1 /\ idx + 1 < Size
        \/ at' = "judged" /\ idx' = 0
    BY <1>1 DEF Judge
  <1>5. verdict' \in [Slot -> {"PENDING", "OK", "FAIL"}]
    BY DEF Judge, Position, DriverTypeOK
  <1>6. DriverTypeOK'
    BY <1>1, <1>2, <1>3, <1>4, <1>5, ClusterSize DEF Position, DriverTypeOK, Healthy
  <1>7. Numbered' /\ Placed'
    BY <1>1, <1>2, <1>3, <1>4 DEF Position, Numbered, Placed
  <1>8. Fresh' = Fresh /\ Fresh = base + Size
    BY <1>1, <1>2, <1>4 DEF Fresh
  <1>9. Counted'
    BY <1>1, <1>2, <1>4, <1>8 DEF Position, Counted
  <1> QED
    BY <1>6, <1>7, <1>9 DEF Position

\* The heads are to be reset.
LEMMA RecoverPosition == Position /\ Recover => Position'
  <1> SUFFICES ASSUME Position, Recover
               PROVE  Position'
    OBVIOUS
  <1> USE DEF loop
  <1>1. at = "judged" /\ at' = "reset" /\ waiting' = Node
    BY DEF Recover
  <1>2. /\ plan' = plan /\ batch' = batch /\ base' = base /\ idx' = idx
        /\ leader' = leader /\ round' = round /\ acked' = acked /\ offered' = offered
        /\ asking' = asking /\ confirmed' = confirmed /\ verdict' = verdict
        /\ rounds' = rounds /\ Size' = Size
    BY DEF Recover, Size
  <1>3. RecoveryTarget \in Nat
    BY <1>1, BatchInSlots DEF Position, RecoveryTarget
  <1>4. resetting' \subseteq [to : Node, head : Nat]
    BY <1>3 DEF Recover, Position, DriverTypeOK
  <1>5. DriverTypeOK'
    BY <1>1, <1>2, <1>4 DEF Position, DriverTypeOK, Healthy
  <1>6. Numbered' /\ Placed'
    BY <1>1, <1>2 DEF Position, Numbered, Placed
  <1>7. Fresh' = Fresh
    BY <1>1, <1>2 DEF Fresh
  <1>8. Counted'
    BY <1>1, <1>2, <1>7 DEF Position, Counted
  <1> QED
    BY <1>5, <1>6, <1>8 DEF Position

\* A batch ends, and the next one begins with a slot not posted yet.
LEMMA EndBatchPosition == Position /\ EndBatch => Position'
  <1> SUFFICES ASSUME Position, EndBatch
               PROVE  Position'
    OBVIOUS
  <1> USE DEF loop
  <1>1. /\ at \in {"judged", "reset"} /\ base' = base + Size /\ batch' = batch + 1
        /\ at' = IF batch = Len(plan) THEN "done" ELSE "propose"
    BY DEF EndBatch
  <1>2. /\ plan' = plan /\ idx' = idx /\ leader' = leader /\ round' = round
        /\ acked' = acked /\ waiting' = waiting /\ offered' = offered
        /\ resetting' = resetting /\ asking' = asking /\ confirmed' = confirmed
        /\ verdict' = verdict /\ rounds' = rounds
    BY DEF EndBatch
  <1>3. /\ base \in Nat /\ Size \in Nat \ {0} /\ idx = 0 /\ round = 0
        /\ confirmed = {} /\ asking = 1
    BY <1>1, BatchInSlots DEF Position, Placed
  <1>4. plan \in Seq(Nat \ {0}) /\ batch \in 1..Len(plan) /\ Len(plan) \in Nat
    BY <1>1, BatchAssumption DEF Position, Placed, DriverTypeOK
  <1>5. DriverTypeOK'
    <2>1. batch' \in 1..(Len(plan') + 1) /\ base' \in Nat
      BY <1>1, <1>2, <1>3, <1>4
    <2>2. at' \in {"propose", "done"}
      BY <1>1
    <2> QED
      BY <1>2, <2>1, <2>2 DEF Position, DriverTypeOK, Healthy
  <1>6. Numbered'
    <2>1. PICK f \in Bases(plan) : base = f[batch]
      BY DEF Position, Numbered
    <2>2. f[batch + 1] = base + Size
      BY <1>4, <2>1 DEF Bases, Size
    <2> QED
      BY <1>1, <1>2, <2>1, <2>2 DEF Numbered
  <1>7. Placed'
    <2>1. ASSUME at' # "done"
          PROVE  batch' <= Len(plan') /\ idx' < Size'
      <3>1. batch + 1 \in 1..Len(plan)
        BY <1>1, <1>4, <2>1
      <3>2. plan[batch + 1] \in Nat \ {0}
        BY <1>4, <3>1
      <3>3. Size' = plan[batch + 1]
        BY <1>1, <1>2 DEF Size
      <3> QED
        BY <1>1, <1>2, <1>3, <3>1, <3>2, <3>3
    <2> QED
      BY <1>1, <1>2, <1>3, <2>1, ClusterSize DEF Placed
  <1>8. \A s \in Slot : s >= base + Size => rounds[s] = 0
    BY <1>1 DEF Position, Counted, Fresh
  <1>9. Counted'
    <2>1. CASE at' = "done"
      <3>1. Fresh' = base'
        BY <2>1 DEF Fresh
      <3> QED
        BY <1>1, <1>2, <1>3, <1>8, <2>1, <3>1, SlotAssumption DEF Counted
    <2>2. CASE at' = "propose"
      <3>1. Fresh' = base + Size + 1 /\ Current' = base + Size
        BY <1>1, <1>2, <1>3, <2>2 DEF Fresh, Current
      <3>2. Current' \in Slot
        <4>1. PICK f \in Bases(plan) : base = f[batch]
          BY DEF Position, Numbered
        <4>2. batch + 1 \in 1..Len(plan) /\ plan[batch + 1] \in Nat \ {0}
          BY <1>1, <1>4, <2>2
        <4>3. f[batch + 1] = base + Size
          BY <1>4, <4>1 DEF Bases, Size
        <4>4. /\ f[batch + 2] = f[batch + 1] + plan[batch + 1]
              /\ f[batch + 1]..(f[batch + 2] - 1) \subseteq Slot
          BY <1>4, <4>1, <4>2 DEF Bases
        <4>5. base + Size \in f[batch + 1]..(f[batch + 2] - 1)
          BY <1>3, <4>2, <4>3, <4>4
        <4> QED
          BY <3>1, <4>4, <4>5
      <3>3. rounds'[Current'] = round'
        BY <1>2, <1>3, <1>8, <3>1, <3>2
      <3>4. \A s \in Slot : s >= Fresh' => rounds'[s] = 0
        BY <1>2, <1>3, <1>8, <3>1, SlotAssumption
      <3>5. \A s \in Slot : base' <= s /\ s < Fresh' => s = Current'
        BY <1>1, <1>3, <3>1, SlotAssumption
      <3> QED
        BY <2>2, <3>3, <3>4, <3>5 DEF Counted
    <2> QED
      BY <1>1, <2>1, <2>2
  <1> QED
    BY <1>5, <1>6, <1>7, <1>9 DEF Position

\* A request the driver has sent goes to a node, with an envelope or a head.
LEMMA RequestTyped ==
    ASSUME Position
    PROVE  /\ \A p \in offered : p.to \in Node /\ p.env \in Envelope
           /\ \A r \in resetting : r.to \in Node /\ r.head \in Nat
  <1>1. /\ offered \subseteq [to : Node, env : Envelope]
        /\ resetting \subseteq [to : Node, head : Nat]
    BY DEF Position, DriverTypeOK
  <1> QED
    BY <1>1

\* Every step keeps the driver where its counters say.
LEMMA PositionStep == Position /\ [DriverNext]_<<vars, driver>> => Position'
  <1> SUFFICES ASSUME Position, [DriverNext]_<<vars, driver>>
               PROVE  Position'
    OBVIOUS
  <1>0. waiting \subseteq Node /\ acked \in BOOLEAN
    BY DEF Position, DriverTypeOK
  <1>1. ASSUME DriverStep, ~\E n \in Node : TimeOut(n)
        PROVE  Position'
    BY <1>1, ProposePosition, EndRoundPosition, AskPosition, JudgePosition,
       RecoverPosition, EndBatchPosition DEF DriverStep
  <1>2. ASSUME NEW n \in Node, TimeOut(n)
        PROVE  Position'
    <2>1. /\ UNCHANGED <<at, loop, idx, asking, confirmed, verdict, rounds>>
          /\ waiting' = waiting \ {n} /\ acked' = acked
          /\ offered' = offered /\ resetting' = resetting
      BY <1>2 DEF TimeOut
    <2>2. waiting' \subseteq Node /\ acked' \in BOOLEAN
      BY <1>0, <2>1
    <2> QED
      BY <2>1, <2>2, PositionKept
  <1>3. ASSUME NEW p \in offered, Handle(p)
        PROVE  Position'
    <2>1. /\ UNCHANGED <<at, loop, idx, asking, confirmed, verdict, rounds>>
          /\ offered' = offered \ {p} /\ resetting' = resetting
      BY <1>3 DEF Handle
    <2>2. waiting' \subseteq waiting
      BY <1>3 DEF Handle
    <2>3. acked' \in BOOLEAN
      BY <1>0, <1>3, Zenon DEF Handle
    <2> QED
      BY <1>0, <2>1, <2>2, <2>3, PositionKept
  <1>4. ASSUME NEW r \in resetting, HandleReset(r)
        PROVE  Position'
    <2>1. /\ UNCHANGED <<at, loop, idx, asking, confirmed, verdict, rounds>>
          /\ acked' = acked /\ offered' = offered /\ resetting' = resetting \ {r}
      BY <1>4 DEF HandleReset
    <2>2. waiting' \subseteq waiting
      BY <1>4 DEF HandleReset
    <2> QED
      BY <1>0, <2>1, <2>2, PositionKept
  <1>5. ASSUME UNCHANGED driver
        PROVE  Position'
    <2>1. /\ UNCHANGED <<at, loop, idx, asking, confirmed, verdict, rounds>>
          /\ waiting' = waiting /\ acked' = acked
          /\ offered' = offered /\ resetting' = resetting
      BY <1>5 DEF driver, loop
    <2> QED
      BY <1>0, <2>1, PositionKept
  <1> QED
    BY <1>1, <1>2, <1>3, <1>4, <1>5 DEF DriverNext, NodeStep

-----------------------------------------------------------------------------
(* The cluster the driver drives *)

\* The cluster does nothing but its own steps, and head resets to any slot.
LEMMA ClusterStep ==
    ASSUME Position, [DriverNext]_<<vars, driver>>
    PROVE  [Next]_vars \/ \E n \in Node, h \in Nat : ResetHead(n, h)
  <1>1. ASSUME DriverStep
        PROVE  UNCHANGED vars
    BY <1>1 DEF DriverStep, Propose, EndRound, Judge, Recover, EndBatch, TimeOut, Ask
  <1>2. ASSUME NEW p \in offered, Handle(p)
        PROVE  Next
    <2>1. PrePrepare(p.to, p.env) /\ p.to \in Node /\ p.env \in Envelope
      BY <1>2, RequestTyped DEF Handle
    <2> QED
      BY <2>1 DEF Next, Handlers
  <1>3. ASSUME NEW r \in resetting, HandleReset(r)
        PROVE  \E n \in Node, h \in Nat : ResetHead(n, h)
    <2>1. ResetHead(r.to, r.head) /\ r.to \in Node /\ r.head \in Nat
      BY <1>3, RequestTyped DEF HandleReset
    <2> QED
      BY <2>1
  <1> QED
    BY <1>1, <1>2, <1>3, OwnSignature DEF DriverNext, NodeStep, Next, Handlers

\* A head says nothing about votes, stages and tasks.
LEMMA ResetKeeps ==
    ASSUME RepostInv, PartPosted(Node), NEW n \in Node, NEW h \in Nat, ResetHead(n, h)
    PROVE  RepostInv' /\ PartPosted(Node)'
  <1>1. /\ local_head' = [local_head EXCEPT ![n] = h]
        /\ UNCHANGED <<pre_prepares, prepare_votes, commit_votes, local_stage,
                       ledger, jobs, net, signed, posts, restarts>>
    BY DEF ResetHead, history
  <1>2. TypeOK'
    BY <1>1 DEF RepostInv, CertInv, TypeOK
  <1>3. NetSigned' /\ RecordInSlot'
    BY <1>1 DEF RepostInv, CertInv, NetSigned, RecordInSlot
  <1>4. \A ph \in Phase, s \in Slot : Signers(ph, s)' = Signers(ph, s)
    BY <1>1 DEF Signers
  <1>5. "PREPARE" \in Phase /\ "COMMIT" \in Phase
    BY DEF Phase
  <1>6. \A m \in Node, s \in Slot : Decided(m, s)' <=> Decided(m, s)
    BY <1>1 DEF Decided
  <1>7. \A m \in Node, s \in Slot :
            \A a \in {"early_commits", "watchdog", "prepares", "commits"} :
                Has(m, a, s)' <=> Has(m, a, s)
    BY <1>1 DEF Has, Waiting
  <1>8. VotesAuthentic' /\ PreparedCertified' /\ DecisionCertified'
    BY <1>1, <1>4, <1>5, <1>6
    DEF RepostInv, CertInv, VotesAuthentic, PreparedCertified, DecisionCertified
  <1>9. \A m \in Node, s \in Slot : /\ Promoted(m, s)' <=> Promoted(m, s)
                                    /\ Late(m, s)' <=> Late(m, s)
    BY <1>1, <1>4, <1>5, <1>6, <1>7 DEF Promoted, Late
  <1>10. \A m \in Node, s \in Slot : Out(m, s)' <=> Out(m, s)
    BY <1>1, <1>9 DEF Out
  <1>11. TasksPosted' /\ LateClosed(Node)'
    BY <1>1, <1>7, <1>9 DEF RepostInv, TasksPosted, LateClosed
  <1>12. QuorumOut(Node)'
    BY <1>1, <1>9, <1>10 DEF RepostInv, QuorumOut, Single
  <1>13. PartPosted(Node)'
    BY <1>1, <1>9 DEF PartPosted
  <1> QED
    BY <1>2, <1>3, <1>8, <1>11, <1>12, <1>13 DEF RepostInv, CertInv

\* What is known of the cluster and of the driver's place together.
RunInv == Position /\ RepostInv /\ PartPosted(Node)

\* RunInv is inductive.
LEMMA RunInvStep == RunInv /\ [DriverNext]_<<vars, driver>> => RunInv'
  <1> SUFFICES ASSUME RunInv, [DriverNext]_<<vars, driver>>
               PROVE  RunInv'
    OBVIOUS
  <1>1. Position'
    BY PositionStep DEF RunInv
  <1>2. CASE [Next]_vars
    BY <1>1, <1>2, RepostInvStep, PartPostedStep DEF RunInv, RepostInv, CertInv
  <1>3. CASE \E n \in Node, h \in Nat : ResetHead(n, h)
    BY <1>1, <1>3, ResetKeeps DEF RunInv
  <1> QED
    BY <1>2, <1>3, ClusterStep DEF RunInv

\* RunInv holds initially.
LEMMA InitRunInv == Init /\ DriverInit => RunInv
  BY InitPosition, InitRepostInv, InitPartPosted DEF RunInv

\* Every reachable state of the driver is typed: no slot takes more rounds than
\* there are leaders, whatever the list of batches.
THEOREM DriverTyped == DriverSpec => []DriverTypeOK
  <1>1. RunInv => DriverTypeOK
    BY DEF RunInv, Position
  <1> QED
    BY <1>1, InitRunInv, RunInvStep, PTL DEF DriverSpec

-----------------------------------------------------------------------------
(* Posts and rounds *)

\* Only rounds make posts, and one round makes one post of a slot to each node.
Offers ==
    /\ \A p \in offered : rounds[SeqOf[p.env]] > 0
    /\ \A n \in Node, s \in Slot : /\ rounds[s] = 0 => posts[n][s] = 0
                                   /\ rounds[s] <= 1 => posts[n][s] <= 1
    /\ \A p \in offered :
           rounds[SeqOf[p.env]] <= 1 =>
               /\ posts[p.to][SeqOf[p.env]] = 0
               /\ \A q \in offered :
                      q.to = p.to /\ SeqOf[q.env] = SeqOf[p.env] => q = p

\* Posts, offers and rounds change when a round begins and when a node handles a
\* post.
LEMMA OfferSteps ==
    ASSUME [DriverNext]_<<vars, driver>>
    PROVE  \/ Propose
           \/ \E p \in offered : Handle(p)
           \/ UNCHANGED <<posts, offered, rounds>>
  <1> USE DEF vars, driver, loop, history
  <1>1. ASSUME DriverStep
        PROVE  Propose \/ UNCHANGED <<posts, offered, rounds>>
    BY <1>1 DEF DriverStep, EndRound, Judge, Recover, EndBatch, TimeOut, Ask
  <1>2. ASSUME NEW r \in resetting, HandleReset(r)
        PROVE  UNCHANGED <<posts, offered, rounds>>
    BY <1>2 DEF HandleReset, ResetHead
  <1>3. ASSUME UNCHANGED driver,
               \/ \E m \in Message : GenuinePrepare(m) \/ GenuineCommit(m)
               \/ Tasks
               \/ \E n \in Node : Restart(n)
        PROVE  UNCHANGED <<posts, offered, rounds>>
    BY <1>3 DEF GenuinePrepare, CountPrepare, GenuineCommit, CountCommit, Tasks,
                BroadcastEarlyCommits, Watchdog, BroadcastPrepares, BroadcastCommits,
                Restart
  <1> QED
    BY <1>1, <1>2, <1>3, OwnSignature DEF DriverNext, NodeStep

\* A new round offers one post more to each node, of a slot that had none left.
LEMMA ProposeOffers == RunInv /\ Offers /\ Propose => Offers'
  <1> SUFFICES ASSUME RunInv, Offers, Propose
               PROVE  Offers'
    OBVIOUS
  <1> DEFINE e == EnvelopeOf[<<NodeOrder[leader], Current>>]
  <1>1. Current \in Slot /\ e \in Envelope /\ SeqOf[e] = Current
    BY ProposalTyped DEF RunInv, Propose
  <1>2. rounds \in [Slot -> Nat]
    BY ClusterSize DEF RunInv, Position, DriverTypeOK
  <1>3. rounds' = [rounds EXCEPT ![Current] = @ + 1] /\ posts' = posts
    BY DEF Propose, vars
  <1>4. offered' = offered \cup {[to |-> n, env |-> e] : n \in Recipients}
    BY DEF Propose
  <1> HIDE DEF e
  <1>5. \A p \in offered' : p \in offered \/ p.env = e
    BY <1>4
  <1>6. \A s \in Slot : rounds'[s] = IF s = Current THEN rounds[s] + 1 ELSE rounds[s]
    BY <1>1, <1>2, <1>3
  <1>7. \A p \in offered : SeqOf[p.env] \in Slot
    BY RequestTyped, TxAssumption DEF RunInv
  <1>8. \A p \in offered' : rounds'[SeqOf[p.env]] > 0
    BY <1>1, <1>2, <1>5, <1>6, <1>7 DEF Offers
  <1>9. \A n \in Node, s \in Slot : /\ rounds'[s] = 0 => posts'[n][s] = 0
                                    /\ rounds'[s] <= 1 => posts'[n][s] <= 1
    <2> SUFFICES ASSUME NEW n \in Node, NEW s \in Slot
                 PROVE  /\ rounds'[s] = 0 => posts[n][s] = 0
                        /\ rounds'[s] <= 1 => posts[n][s] <= 1
      BY <1>3
    <2>1. /\ rounds[s] = 0 => posts[n][s] = 0
          /\ rounds[s] <= 1 => posts[n][s] <= 1
      BY DEF Offers
    <2>2. rounds[s] \in Nat
      BY <1>2
    <2> QED
      BY <1>6, <2>1, <2>2
  <1>10. ASSUME NEW p \in offered', rounds'[SeqOf[p.env]] <= 1
         PROVE  /\ posts'[p.to][SeqOf[p.env]] = 0
                /\ \A q \in offered' :
                       q.to = p.to /\ SeqOf[q.env] = SeqOf[p.env] => q = p
    <2>1. CASE SeqOf[p.env] = Current
      <3>1. rounds[Current] = 0
        BY <1>1, <1>2, <1>6, <1>10, <2>1
      <3>2. \A q \in offered : SeqOf[q.env] # Current
        BY <3>1 DEF Offers
      <3>3. p \in {[to |-> n, env |-> e] : n \in Recipients}
        BY <1>4, <2>1, <3>2
      <3>4. p.to \in Node
        BY <3>3 DEF Recipients
      <3>5. posts[p.to][Current] = 0
        BY <1>1, <3>1, <3>4 DEF Offers
      <3>6. ASSUME NEW q \in offered', q.to = p.to, SeqOf[q.env] = SeqOf[p.env]
            PROVE  q = p
        <4>1. q \in {[to |-> n, env |-> e] : n \in Recipients}
          BY <1>4, <2>1, <3>2, <3>6
        <4> QED
          BY <3>3, <3>6, <4>1
      <3> QED
        BY <1>3, <2>1, <3>5, <3>6
    <2>2. CASE SeqOf[p.env] # Current
      <3>1. p \in offered
        BY <1>1, <1>5, <2>2
      <3>2. rounds[SeqOf[p.env]] <= 1
        BY <1>6, <1>7, <1>10, <2>2, <3>1
      <3>3. posts[p.to][SeqOf[p.env]] = 0
        BY <3>1, <3>2 DEF Offers
      <3>4. ASSUME NEW q \in offered', q.to = p.to, SeqOf[q.env] = SeqOf[p.env]
            PROVE  q = p
        <4>1. q \in offered
          BY <1>1, <1>5, <2>2, <3>4
        <4> QED
          BY <3>1, <3>2, <3>4, <4>1 DEF Offers
      <3> QED
        BY <1>3, <3>3, <3>4
    <2> QED
      BY <2>1, <2>2
  <1> QED
    BY <1>8, <1>9, <1>10 DEF Offers

\* A post that is handled was the only one of its round.
LEMMA HandleOffers ==
    ASSUME RunInv, Offers, NEW p \in offered, Handle(p)
    PROVE  Offers'
  <1> DEFINE n == p.to
             s == SeqOf[p.env]
  <1>1. n \in Node /\ p.env \in Envelope /\ s \in Slot
    BY RequestTyped, TxAssumption DEF RunInv
  <1>2. PrePrepare(n, p.env) /\ offered' = offered \ {p} /\ rounds' = rounds
    BY DEF Handle
  <1>3. posts' = [posts EXCEPT ![n][s] = @ + 1]
    BY <1>2 DEF PrePrepare, StoreRecord
  <1>4. posts \in [Node -> [Slot -> Nat]]
    BY DEF RunInv, RepostInv, CertInv, TypeOK
  <1>5. posts'[n][s] = posts[n][s] + 1
    BY <1>1, <1>3, <1>4
  <1>6. \A m \in Node, t \in Slot : m # n \/ t # s => posts'[m][t] = posts[m][t]
    BY <1>1, <1>3, <1>4
  <1>7. /\ rounds[s] > 0
        /\ rounds[s] <= 1 => posts[n][s] = 0
        /\ rounds[s] <= 1 => \A q \in offered : q.to = n /\ SeqOf[q.env] = s => q = p
    BY DEF Offers
  <1>8. \A q \in offered : q.to \in Node /\ SeqOf[q.env] \in Slot
    BY RequestTyped, TxAssumption DEF RunInv
  <1> HIDE DEF n, s
  <1>9. \A q \in offered' : rounds'[SeqOf[q.env]] > 0
    BY <1>2 DEF Offers
  <1>10. \A m \in Node, t \in Slot : /\ rounds'[t] = 0 => posts'[m][t] = 0
                                     /\ rounds'[t] <= 1 => posts'[m][t] <= 1
    BY <1>2, <1>5, <1>6, <1>7 DEF Offers
  <1>11. ASSUME NEW q \in offered', rounds'[SeqOf[q.env]] <= 1
         PROVE  /\ posts'[q.to][SeqOf[q.env]] = 0
                /\ \A r \in offered' :
                       r.to = q.to /\ SeqOf[r.env] = SeqOf[q.env] => r = q
    <2>1. q \in offered /\ q # p /\ rounds[SeqOf[q.env]] <= 1
      BY <1>2, <1>11
    <2>2. q.to # n \/ SeqOf[q.env] # s
      BY <1>7, <2>1
    <2>3. posts'[q.to][SeqOf[q.env]] = posts[q.to][SeqOf[q.env]]
      BY <1>6, <1>8, <2>1, <2>2
    <2> QED
      BY <1>2, <2>1, <2>3 DEF Offers
  <1> QED
    BY <1>9, <1>10, <1>11 DEF Offers

\* Every step keeps posts within rounds.
LEMMA OffersStep == RunInv /\ Offers /\ [DriverNext]_<<vars, driver>> => Offers'
  <1> SUFFICES ASSUME RunInv, Offers, [DriverNext]_<<vars, driver>>
               PROVE  Offers'
    OBVIOUS
  <1>1. CASE UNCHANGED <<posts, offered, rounds>>
    BY <1>1 DEF Offers
  <1> QED
    BY <1>1, OfferSteps, ProposeOffers, HandleOffers

-----------------------------------------------------------------------------
(* Verdicts *)

\* What is known when a node has said yes, and after the verdict: the slot was
\* posted twice or the cluster has three nodes.
Reposted ==
    \A s \in Slot :
        /\ rounds[s] <= 1
        /\ verdict[s] = "OK" \/ (s = Current /\ confirmed # {})
        => Cardinality(Node) = 3

\* Each node that said yes has a quorum of other signers of COMMITs behind it, and
\* an OK record more than a quorum.
Outvoted ==
    /\ \A n \in confirmed : Cardinality(Signers("COMMIT", Current) \ {n}) >= Quorum
    /\ OkOutvotesQuorum

\* Verdicts and answers change with a question and a verdict; otherwise the answers
\* are kept with their record, or there are none.
LEMMA VerdictSteps ==
    ASSUME RunInv, [DriverNext]_<<vars, driver>>
    PROVE  \/ \E answered \in BOOLEAN : Ask(answered)
           \/ Judge
           \/ /\ verdict' = verdict
              /\ \A s \in Slot : rounds'[s] >= rounds[s]
              /\ confirmed' = {} \/ (confirmed' = confirmed /\ Current' = Current)
  <1> USE DEF vars, driver, loop
  <1> DEFINE Goal == /\ verdict' = verdict
                     /\ \A s \in Slot : rounds'[s] >= rounds[s]
                     /\ confirmed' = {} \/ (confirmed' = confirmed /\ Current' = Current)
  <1>1. rounds \in [Slot -> Nat]
    BY ClusterSize DEF RunInv, Position, DriverTypeOK
  <1>2. at # "verify" => confirmed = {}
    BY DEF RunInv, Position, Placed
  <1>3. ASSUME rounds' = rounds
        PROVE  \A s \in Slot : rounds'[s] >= rounds[s]
    BY <1>1, <1>3
  <1>4. ASSUME UNCHANGED <<verdict, rounds, confirmed, base, idx>>
        PROVE  Goal
    BY <1>3, <1>4 DEF Current
  <1>5. ASSUME Propose
        PROVE  Goal
    <2>1. Current \in Slot
      BY <1>5, ProposalTyped DEF RunInv, Propose
    <2>2. rounds' = [rounds EXCEPT ![Current] = @ + 1] /\ verdict' = verdict
          /\ confirmed' = confirmed /\ at = "propose"
      BY <1>5 DEF Propose
    <2>3. \A s \in Slot : rounds'[s] >= rounds[s]
      BY <1>1, <2>1, <2>2
    <2> QED
      BY <1>2, <2>2, <2>3
  <1>6. ASSUME EndRound \/ Recover \/ EndBatch
        PROVE  Goal
    <2>1. verdict' = verdict /\ rounds' = rounds /\ confirmed' = confirmed /\ at # "verify"
      BY <1>6 DEF EndRound, Recover, EndBatch
    <2> QED
      BY <1>2, <1>3, <2>1
  <1>7. ASSUME NEW n \in Node, TimeOut(n)
        PROVE  Goal
    BY <1>4, <1>7 DEF TimeOut
  <1>8. ASSUME NodeStep \/ UNCHANGED driver
        PROVE  Goal
    BY <1>4, <1>8 DEF NodeStep, Handle, HandleReset
  <1> QED
    BY <1>5, <1>6, <1>7, <1>8 DEF DriverNext, DriverStep

\* A slot that some node has decided was posted twice, but for three nodes.
LEMMA DecidedReposted ==
    ASSUME RunInv, Offers, NEW n \in Node, NEW s \in Slot, Decided(n, s), rounds[s] <= 1
    PROVE  Cardinality(Node) = 3
  <1>1. Single(s)
    BY DEF Offers, Single
  <1>2. DecisionCertified /\ QuorumOut(Node)
    BY DEF RunInv, RepostInv, CertInv
  <1> QED
    BY <1>1, <1>2, DecisionNeedsThree

\* What an answer adds to those who said yes.
LEMMA Confirmed ==
    ASSUME RunInv, NEW answered \in BOOLEAN, Ask(answered)
    PROVE  /\ Current' = Current /\ Current \in Slot
           /\ \A n \in confirmed' : n \in confirmed \/ (n \in Node /\ Decided(n, Current))
           /\ verdict' = verdict /\ rounds' = rounds /\ signed' = signed
  <1>1. Current \in Slot
    BY BatchInSlots DEF RunInv, Position, Ask
  <1>2. /\ verdict' = verdict /\ rounds' = rounds /\ signed' = signed
        /\ base' = base /\ idx' = idx
    BY DEF Ask, loop, vars
  <1>3. /\ confirmed' # confirmed => /\ NodeOrder[asking] \in Healthy
                                     /\ local_stage[NodeOrder[asking]][Current] = "COMMITTED"
        /\ confirmed' \in {confirmed, confirmed \cup {NodeOrder[asking]}}
    BY DEF Ask
  <1>4. \A n \in confirmed' : n \in confirmed \/ (n \in Node /\ Decided(n, Current))
    BY <1>3 DEF Healthy, Decided
  <1> QED
    BY <1>1, <1>2, <1>4 DEF Current

\* Every step keeps the records that need a second round in mind.
LEMMA RepostedStep ==
    RunInv /\ Offers /\ Reposted /\ [DriverNext]_<<vars, driver>> => Reposted'
  <1> SUFFICES ASSUME RunInv, Offers, Reposted, [DriverNext]_<<vars, driver>>,
                      NEW s \in Slot, rounds'[s] <= 1,
                      verdict'[s] = "OK" \/ (s = Current' /\ confirmed' # {})
               PROVE  Cardinality(Node) = 3
    BY DEF Reposted
  <1>0. rounds \in [Slot -> Nat] /\ verdict \in [Slot -> {"PENDING", "OK", "FAIL"}]
    BY ClusterSize DEF RunInv, Position, DriverTypeOK
  <1>1. CASE \E answered \in BOOLEAN : Ask(answered)
    <2>1. /\ Current' = Current /\ verdict' = verdict /\ rounds' = rounds
          /\ \A n \in confirmed' : n \in confirmed \/ (n \in Node /\ Decided(n, Current))
      BY <1>1, Confirmed
    <2>2. CASE verdict[s] = "OK" \/ (s = Current /\ confirmed # {})
      BY <2>1, <2>2 DEF Reposted
    <2>3. CASE s = Current /\ \E n \in Node : Decided(n, Current)
      BY <2>1, <2>3, DecidedReposted
    <2> QED
      BY <2>1, <2>2, <2>3
  <1>2. CASE Judge
    <2>1. /\ rounds' = rounds /\ confirmed' = {}
          /\ verdict' = [verdict EXCEPT ![Current] =
                             IF Enough(confirmed) THEN "OK" ELSE "FAIL"]
      BY <1>2 DEF Judge
    <2>2. verdict[s] = "OK" \/ (s = Current /\ Enough(confirmed))
      BY <1>0, <2>1
    <2>3. Enough(confirmed) => confirmed # {}
      BY FS_EmptySet, VerdictAssumption DEF Enough
    <2> QED
      BY <2>1, <2>2, <2>3 DEF Reposted
  <1>3. CASE /\ verdict' = verdict
             /\ \A t \in Slot : rounds'[t] >= rounds[t]
             /\ confirmed' = {} \/ (confirmed' = confirmed /\ Current' = Current)
    <2>1. rounds[s] <= 1
      <3>1. rounds'[s] >= rounds[s] /\ rounds[s] \in Nat
        BY <1>0, <1>3
      <3>2. rounds' \in [Slot -> Nat]
        BY PositionStep, ClusterSize DEF RunInv, Position, DriverTypeOK
      <3> QED
        BY <3>1, <3>2
    <2>2. verdict[s] = "OK" \/ (s = Current /\ confirmed # {})
      BY <1>3
    <2> QED
      BY <2>1, <2>2 DEF Reposted
  <1> QED
    BY <1>1, <1>2, <1>3, VerdictSteps

\* Votes once signed stay signed under the driver.
LEMMA DriverSignedGrows ==
    ASSUME RunInv, [DriverNext]_<<vars, driver>>
    PROVE  signed \subseteq signed'
  <1>1. ASSUME NEW n \in Node, NEW h \in Nat, ResetHead(n, h)
        PROVE  signed \subseteq signed'
    BY <1>1 DEF ResetHead
  <1> QED
    BY <1>1, SignedGrows, ClusterStep DEF RunInv

\* More nodes than can be outside a quorum said yes, and each of them has a quorum
\* of others behind it: together the signers are more than a quorum.
LEMMA EnoughOutvote ==
    ASSUME NEW C \in SUBSET Node, NEW S \in SUBSET Node,
           \A n \in C : Cardinality(S \ {n}) >= Quorum,
           Cardinality(C) >= OkNodes, OkNodes + Quorum > Cardinality(Node)
    PROVE  Cardinality(S) > Quorum
  <1>1. /\ Cardinality(C) \in Nat /\ Cardinality(S) \in Nat /\ Quorum \in Nat \ {0}
        /\ Cardinality(Node) \in Nat /\ IsFiniteSet(C) /\ IsFiniteSet(S)
        /\ OkNodes \in Nat \ {0}
    BY VotersFinite, QuorumPositive, ClusterSize, VerdictAssumption
  <1>2. PICK n \in C : TRUE
    <2>1. Cardinality(C) # 0
      BY <1>1
    <2> QED
      BY <1>1, <2>1, FS_EmptySet
  <1>3. Cardinality(S) >= Quorum
    <2>1. S \ {n} \in SUBSET Node /\ S \ {n} \subseteq S
      OBVIOUS
    <2>2. Cardinality(S \ {n}) <= Cardinality(S) /\ Cardinality(S \ {n}) \in Nat
      BY <2>1, VotersFinite, VotersGrow
    <2> QED
      BY <1>1, <1>2, <2>2
  <1>4. ASSUME NEW m \in C, m \in S
        PROVE  Cardinality(S) > Quorum
    <2>1. Cardinality(S \ {m}) = Cardinality(S) - 1
      BY <1>1, <1>4, FS_RemoveElement
    <2> QED
      BY <1>1, <2>1
  <1>5. CASE C \cap S = {}
    <2>1. Cardinality(C \cup S) = Cardinality(C) + Cardinality(S) - Cardinality(C \cap S)
      BY <1>1, FS_Union
    <2>2. Cardinality(C \cap S) = 0
      BY <1>5, FS_EmptySet
    <2>3. Cardinality(C \cup S) <= Cardinality(Node)
      BY NodeAssumption, FS_Subset
    <2> QED
      BY <1>1, <1>3, <2>1, <2>2, <2>3
  <1> QED
    BY <1>4, <1>5

\* Every step keeps the signers behind the answers and the verdicts.
LEMMA OutvotedStep ==
    RunInv /\ Outvoted /\ [DriverNext]_<<vars, driver>> => Outvoted'
  <1> SUFFICES ASSUME RunInv, Outvoted, [DriverNext]_<<vars, driver>>
               PROVE  Outvoted'
    OBVIOUS
  <1>0. "COMMIT" \in Phase
    BY DEF Phase
  <1>1. \A s \in Slot : /\ Signers("COMMIT", s) \in SUBSET Node
                        /\ Signers("COMMIT", s)' \in SUBSET Node
                        /\ Signers("COMMIT", s) \subseteq Signers("COMMIT", s)'
    BY <1>0, DriverSignedGrows, SignersGrow, SignersAreNodes
  <1>2. Quorum \in Nat /\ OkNodes \in Nat /\ Cardinality(Node) \in Nat
    BY QuorumPositive, VerdictAssumption, ClusterSize
  <1>3. ASSUME NEW s \in Slot, NEW n, Cardinality(Signers("COMMIT", s) \ {n}) >= Quorum
        PROVE  Cardinality(Signers("COMMIT", s)' \ {n}) >= Quorum
    <2> DEFINE A == Signers("COMMIT", s) \ {n}
               B == Signers("COMMIT", s)' \ {n}
    <2>1. A \in SUBSET Node /\ B \in SUBSET Node /\ A \subseteq B
      BY <1>1
    <2> HIDE DEF A, B
    <2>2. Cardinality(A) <= Cardinality(B) /\ Cardinality(A) \in Nat /\ Cardinality(B) \in Nat
      BY <2>1, VotersFinite, VotersGrow
    <2>3. Cardinality(A) >= Quorum
      BY <1>3 DEF A
    <2>4. Cardinality(B) >= Quorum
      BY <1>2, <2>2, <2>3
    <2> QED
      BY <2>4 DEF B
  <1>4. ASSUME NEW s \in Slot, Cardinality(Signers("COMMIT", s)) > Quorum
        PROVE  Cardinality(Signers("COMMIT", s)') > Quorum
    <2>1. /\ Cardinality(Signers("COMMIT", s)) <= Cardinality(Signers("COMMIT", s)')
          /\ Cardinality(Signers("COMMIT", s)) \in Nat
          /\ Cardinality(Signers("COMMIT", s)') \in Nat
      BY <1>1, VotersFinite, VotersGrow
    <2> QED
      BY <1>2, <1>4, <2>1
  <1>5. confirmed \subseteq Node /\ verdict \in [Slot -> {"PENDING", "OK", "FAIL"}]
    BY DEF RunInv, Position, DriverTypeOK, Healthy
  <1>6. ASSUME \A s \in Slot : verdict'[s] = "OK" => verdict[s] = "OK"
        PROVE  OkOutvotesQuorum'
    BY <1>4, <1>6 DEF Outvoted, OkOutvotesQuorum, Quorum
  <1>7. CASE \E answered \in BOOLEAN : Ask(answered)
    <2>1. /\ Current' = Current /\ Current \in Slot /\ verdict' = verdict
          /\ \A n \in confirmed' : n \in confirmed \/ (n \in Node /\ Decided(n, Current))
      BY <1>7, Confirmed
    <2>2. \A n \in confirmed' : Cardinality(Signers("COMMIT", Current) \ {n}) >= Quorum
      BY <2>1 DEF Outvoted, RunInv, RepostInv, CertInv, DecisionCertified
    <2>3. PICK s \in Slot : s = Current
      BY <2>1
    <2>4. \A n \in confirmed' : Cardinality(Signers("COMMIT", s)' \ {n}) >= Quorum
      BY <1>3, <2>2, <2>3
    <2>5. Signers("COMMIT", Current)' = Signers("COMMIT", s)'
      BY <2>1, <2>3 DEF Signers
    <2>6. \A n \in confirmed' : Cardinality(Signers("COMMIT", Current)' \ {n}) >= Quorum
      BY <2>4, <2>5, Zenon
    <2> QED
      BY <1>6, <2>1, <2>6 DEF Outvoted, Quorum
  <1>8. CASE Judge
    <2>1. /\ confirmed' = {} /\ at = "verify"
          /\ verdict' = [verdict EXCEPT ![Current] =
                             IF Enough(confirmed) THEN "OK" ELSE "FAIL"]
      BY <1>8 DEF Judge
    <2>2. ASSUME NEW s \in Slot, verdict'[s] = "OK", OkNodes + Quorum > Cardinality(Node)
          PROVE  Cardinality(Signers("COMMIT", s)') > Quorum
      <3>1. CASE verdict[s] = "OK"
        BY <1>4, <2>2, <3>1 DEF Outvoted, OkOutvotesQuorum
      <3>2. CASE s = Current /\ Enough(confirmed)
        <4>1. Cardinality(Signers("COMMIT", s)) > Quorum
          BY <1>1, <1>5, <2>2, <3>2, EnoughOutvote DEF Outvoted, Enough
        <4> QED
          BY <1>4, <4>1
      <3> QED
        BY <1>5, <2>1, <2>2, <3>1, <3>2
    <2> QED
      BY <2>1, <2>2 DEF Outvoted, OkOutvotesQuorum, Quorum
  <1>9. CASE /\ verdict' = verdict
             /\ confirmed' = {} \/ (confirmed' = confirmed /\ Current' = Current)
    <2>1. \A n \in confirmed' : Cardinality(Signers("COMMIT", Current)' \ {n}) >= Quorum
      <3> SUFFICES ASSUME NEW n \in confirmed'
                   PROVE  Cardinality(Signers("COMMIT", Current)' \ {n}) >= Quorum
        OBVIOUS
      <3>1. n \in confirmed /\ Current' = Current
        BY <1>9
      <3>2. Current \in Slot
        BY <3>1, BatchInSlots DEF RunInv, Position, Placed
      <3>3. Cardinality(Signers("COMMIT", Current) \ {n}) >= Quorum
        BY <3>1 DEF Outvoted
      <3>4. PICK s \in Slot : s = Current
        BY <3>2
      <3>5. Cardinality(Signers("COMMIT", s)' \ {n}) >= Quorum
        BY <1>3, <3>3, <3>4
      <3>6. Signers("COMMIT", Current)' = Signers("COMMIT", s)'
        BY <3>1, <3>4 DEF Signers
      <3> QED
        BY <3>5, <3>6, Zenon
    <2> QED
      BY <1>6, <1>9, <2>1 DEF Outvoted, Quorum
  <1> QED
    BY <1>7, <1>8, <1>9, VerdictSteps

-----------------------------------------------------------------------------
(* Heads *)

\* A head h does not pass over a slot that no round was spent on.
Behind(h) == \E s \in Slot : rounds[s] > 0 /\ h <= s

\* No head is ahead, and no head reset that is still to come.
Heads == HeadNotAhead /\ \A r \in resetting : Behind(r.head)

\* A slot with a post has had a round.
LEMMA PostBehind ==
    ASSUME Position, Offers, TypeOK, NEW n \in Node, NEW s \in Slot, posts[n][s] >= 1,
           NEW h \in Nat, h <= s
    PROVE  Behind(h)
  <1>1. posts[n][s] # 0 /\ rounds[s] \in Nat
    BY ClusterSize DEF Position, DriverTypeOK, TypeOK
  <1>2. rounds[s] # 0
    BY <1>1 DEF Offers
  <1> QED
    BY <1>1, <1>2 DEF Behind

\* What was behind stays behind, as rounds are never taken back.
LEMMA BehindKept ==
    ASSUME RunInv, [DriverNext]_<<vars, driver>>, NEW h, Behind(h)
    PROVE  Behind(h)'
  <1>1. rounds \in [Slot -> Nat] /\ rounds' \in [Slot -> Nat]
    BY PositionStep, ClusterSize DEF RunInv, Position, DriverTypeOK
  <1>2. \A s \in Slot : rounds'[s] >= rounds[s]
    <2>1. CASE \E answered \in BOOLEAN : Ask(answered)
      BY <1>1, <2>1 DEF Ask
    <2>2. CASE Judge
      BY <1>1, <2>2 DEF Judge
    <2> QED
      BY <2>1, <2>2, VerdictSteps
  <1>3. PICK s \in Slot : rounds[s] > 0 /\ h <= s
    BY DEF Behind
  <1>4. rounds'[s] > 0
    BY <1>1, <1>2, <1>3
  <1> QED
    BY <1>3, <1>4 DEF Behind

\* A step of a node, but for a head reset, leaves its head, takes it back to zero,
\* or sets it no further than a slot that was posted to the node.
LEMMA HeadMoves ==
    ASSUME TypeOK, TypeOK', TasksPosted, PartPosted(Node)',
           NEW n \in Node,
           \/ \E p \in Node, e \in Envelope : PrePrepare(p, e)
           \/ \E m \in Message : GenuinePrepare(m) \/ GenuineCommit(m)
           \/ Tasks
           \/ \E p \in Node : Restart(p)
    PROVE  \/ local_head'[n] = local_head[n]
           \/ local_head'[n] = 0
           \/ \E s \in Slot : local_head'[n] <= s /\ posts'[n][s] >= 1
  <1> USE TxAssumption, SlotAssumption DEF history, tracker
  <1>1. ASSUME NEW p \in Node, NEW e \in Envelope, PrePrepare(p, e), p = n
        PROVE  \/ local_head'[n] = local_head[n]
               \/ \E s \in Slot : local_head'[n] <= s /\ posts'[n][s] >= 1
    <2> DEFINE s == SeqOf[e]
    <2>1. s \in Slot /\ s \in Nat
      OBVIOUS
    <2>2. posts'[n][s] = posts[n][s] + 1 /\ posts[n][s] \in Nat
      <3>1. PrePrepare(n, e)
        BY <1>1
      <3>2. posts'[n][SeqOf[e]] = posts[n][SeqOf[e]] + 1
        BY <3>1, PostCounted
      <3> QED
        BY <2>1, <3>2 DEF TypeOK
    <2>3. local_head' = [local_head EXCEPT ![n] = IF s > @ + 1 THEN s - 1 ELSE @]
      BY <1>1 DEF PrePrepare, StoreRecord
    <2> HIDE DEF s
    <2>4. local_head'[n] = local_head[n] \/ local_head'[n] = s - 1
      BY <2>3 DEF TypeOK
    <2> QED
      BY <2>1, <2>2, <2>4
  <1>2. ASSUME NEW p \in Node, NEW e \in Envelope, PrePrepare(p, e), p # n
        PROVE  local_head'[n] = local_head[n]
    BY <1>2 DEF PrePrepare, StoreRecord, TypeOK
  <1>3. ASSUME NEW m \in Message, GenuinePrepare(m)
        PROVE  local_head'[n] = local_head[n]
    BY <1>3 DEF GenuinePrepare, CountPrepare
  <1>4. ASSUME NEW m \in Message, GenuineCommit(m)
        PROVE  \/ local_head'[n] = local_head[n]
               \/ \E s \in Slot : local_head'[n] <= s /\ posts'[n][s] >= 1
    <2> DEFINE s == SeqOf[m.tx]
    <2>1. m.to \in Node /\ s \in Slot /\ s \in Nat
      BY TallyTyped DEF TypeOK
    <2> HIDE DEF s
    <2>2. CASE local_head' = local_head
      BY <2>2
    <2>3. CASE /\ local_head' = [local_head EXCEPT ![m.to] = s]
               /\ local_stage' = [local_stage EXCEPT ![m.to][s] = "COMMITTED"]
      <3>1. CASE m.to = n
        <4>1. local_head'[n] = s /\ local_stage'[n][s] = "COMMITTED"
          BY <2>1, <2>3, <3>1 DEF TypeOK
        <4>2. posts'[n][s] >= 1
          BY <2>1, <4>1 DEF PartPosted, Promoted, Decided
        <4> QED
          BY <2>1, <4>1, <4>2
      <3>2. CASE m.to # n
        BY <2>3, <3>2 DEF TypeOK
      <3> QED
        BY <3>1, <3>2
    <2> QED
      BY <1>4, <2>2, <2>3 DEF GenuineCommit, CountCommit, s
  <1>5. ASSUME NEW p \in Node, NEW e \in Envelope, Watchdog(p, e)
        PROVE  \/ local_head'[n] = local_head[n]
               \/ \E s \in Slot : local_head'[n] <= s /\ posts'[n][s] >= 1
    <2> DEFINE s == SeqOf[e]
    <2>1. s \in Slot /\ s \in Nat /\ e \in TxId
      OBVIOUS
    <2>2. Has(p, "watchdog", s) /\ posts' = posts
      BY <1>5, <2>1 DEF Watchdog, Advance, Has, Waiting
    <2>3. posts'[p][s] >= 1
      BY <2>1, <2>2 DEF TasksPosted
    <2> HIDE DEF s
    <2>4. CASE local_head' = local_head
      BY <2>4
    <2>5. CASE local_head' = [local_head EXCEPT ![p] = s]
      BY <2>1, <2>3, <2>5 DEF TypeOK
    <2> QED
      BY <1>5, <2>4, <2>5 DEF Watchdog, s
  <1>6. ASSUME NEW p \in Node, Restart(p)
        PROVE  local_head'[n] = local_head[n] \/ local_head'[n] = 0
    BY <1>6 DEF Restart, TypeOK
  <1>7. ASSUME local_head' = local_head
        PROVE  local_head'[n] = local_head[n]
    BY <1>7
  <1> QED
    BY <1>1, <1>2, <1>3, <1>4, <1>5, <1>6, <1>7
    DEF Tasks, BroadcastEarlyCommits, BroadcastPrepares, BroadcastCommits

\* The head resets of a batch do not pass its last slot, which was posted.
LEMMA RecoveryBehind ==
    ASSUME Position, at = "judged"
    PROVE  Behind(RecoveryTarget)
  <1>1. /\ Size \in Nat \ {0} /\ base \in Nat
        /\ \A i \in Nat : i < Size => base + i \in Slot
    BY BatchInSlots DEF Position
  <1>2. base + (Size - 1) \in Slot
    BY <1>1
  <1>3. RecoveryTarget = base + (Size - 1)
    BY <1>1 DEF RecoveryTarget
  <1>4. rounds[base + (Size - 1)] > 0
    BY <1>1, <1>2 DEF Position, Counted, Fresh
  <1>5. RecoveryTarget \in Slot /\ rounds[RecoveryTarget] > 0 /\ RecoveryTarget <= RecoveryTarget
    BY <1>1, <1>2, <1>3, <1>4
  <1> QED
    BY <1>5 DEF Behind

\* Every step keeps the heads, and the resets under way, behind the rounds.
LEMMA HeadsStep == RunInv /\ Offers /\ Heads /\ [DriverNext]_<<vars, driver>> => Heads'
  <1> SUFFICES ASSUME RunInv, Offers, Heads, [DriverNext]_<<vars, driver>>
               PROVE  Heads'
    OBVIOUS
  <1>0. RunInv' /\ Offers'
    BY RunInvStep, OffersStep
  <1>1. /\ TypeOK /\ TypeOK' /\ TasksPosted /\ PartPosted(Node)'
        /\ Position /\ Position'
    BY <1>0 DEF RunInv, RepostInv, CertInv
  <1>2. \A n \in Node : local_head[n] = 0 \/ Behind(local_head[n])
    BY DEF Heads, HeadNotAhead, Behind
  <1>3. ASSUME NEW n \in Node, local_head'[n] = local_head[n]
        PROVE  local_head'[n] = 0 \/ Behind(local_head[n])'
    <2>1. PICK h \in Nat : h = local_head[n]
      BY <1>1 DEF TypeOK
    <2>2. h = 0 \/ Behind(h)
      BY <1>2, <2>1 DEF Behind
    <2>3. h = 0 \/ Behind(h)'
      BY <2>2, BehindKept
    <2> QED
      BY <1>3, <2>1, <2>3 DEF Behind
  <1>4. ASSUME NEW n \in Node, NEW s \in Slot, local_head'[n] <= s, posts'[n][s] >= 1
        PROVE  Behind(local_head[n])'
    <2>1. rounds'[s] > 0
      <3>1. posts'[n][s] # 0 /\ rounds'[s] \in Nat
        BY <1>1, <1>4, ClusterSize DEF TypeOK, Position, DriverTypeOK
      <3>2. rounds'[s] # 0
        BY <1>0, <3>1 DEF Offers
      <3> QED
        BY <3>1, <3>2
    <2> QED
      BY <1>4, <2>1 DEF Behind
  <1>5. ASSUME NEW n \in Node,
               \/ \E p \in Node, e \in Envelope : PrePrepare(p, e)
               \/ \E m \in Message : GenuinePrepare(m) \/ GenuineCommit(m)
               \/ Tasks
               \/ \E p \in Node : Restart(p)
        PROVE  local_head'[n] = 0 \/ Behind(local_head[n])'
    BY <1>1, <1>3, <1>4, <1>5, HeadMoves
  <1>6. ASSUME NEW r \in resetting, HandleReset(r), NEW n \in Node
        PROVE  local_head'[n] = 0 \/ Behind(local_head[n])'
    <2>1. PICK h \in Nat : h = r.head
      BY <1>1, RequestTyped
    <2>2. local_head' = [local_head EXCEPT ![r.to] = h]
      BY <1>6, <2>1 DEF HandleReset, ResetHead
    <2>3. Behind(h)'
      BY <2>1, BehindKept DEF Heads
    <2>4. local_head'[n] = h \/ local_head'[n] = local_head[n]
      BY <1>1, <2>2 DEF TypeOK
    <2> QED
      BY <1>3, <2>3, <2>4 DEF Behind
  <1>7. ASSUME NEW n \in Node
        PROVE  local_head'[n] = 0 \/ Behind(local_head[n])'
    <2>1. ASSUME DriverStep \/ UNCHANGED <<vars, driver>>
          PROVE  local_head'[n] = local_head[n]
      BY <2>1
      DEF DriverStep, Propose, EndRound, Judge, Recover, EndBatch, TimeOut, Ask, vars
    <2>2. ASSUME NEW p \in offered, Handle(p)
          PROVE  \E q \in Node, e \in Envelope : PrePrepare(q, e)
      BY <1>1, <2>2, RequestTyped DEF Handle
    <2> QED
      BY <1>3, <1>5, <1>6, <2>1, <2>2, OwnSignature DEF DriverNext, NodeStep
  <1>8. ASSUME NEW r \in resetting'
        PROVE  Behind(r.head)'
    <2>1. CASE Recover
      <3>1. at = "judged" /\ rounds' = rounds
        BY <2>1 DEF Recover
      <3>2. r \in resetting \/ r.head = RecoveryTarget
        BY <1>8, <2>1 DEF Recover
      <3>3. Behind(r.head)
        BY <1>1, <3>1, <3>2, RecoveryBehind DEF Heads
      <3> QED
        BY <3>1, <3>3 DEF Behind
    <2>2. CASE ~Recover
      <3>1. resetting' \subseteq resetting
        BY <2>2
        DEF DriverNext, DriverStep, NodeStep, Propose, EndRound, Judge, EndBatch,
            TimeOut, Ask, Handle, HandleReset, driver
      <3> QED
        BY <1>8, <3>1, BehindKept DEF Heads
    <2> QED
      BY <2>1, <2>2
  <1>9. HeadNotAhead'
    BY <1>7 DEF HeadNotAhead, Behind
  <1> QED
    BY <1>8, <1>9 DEF Heads

-----------------------------------------------------------------------------
(* The theorems *)

\* Everything known of the driver and its cluster.
VerdictInv == RunInv /\ Offers /\ Reposted /\ Outvoted /\ Heads

\* VerdictInv is inductive.
LEMMA VerdictInvStep == VerdictInv /\ [DriverNext]_<<vars, driver>> => VerdictInv'
  BY RunInvStep, OffersStep, RepostedStep, OutvotedStep, HeadsStep DEF VerdictInv

\* VerdictInv holds initially: nothing is posted, asked or judged.
LEMMA InitVerdictInv == Init /\ DriverInit => VerdictInv
  <1> SUFFICES ASSUME Init, DriverInit
               PROVE  VerdictInv
    OBVIOUS
  <1>1. RunInv
    BY InitRunInv
  <1>2. Offers
    BY DEF Init, DriverInit, Offers
  <1>3. Reposted
    BY DEF DriverInit, Reposted
  <1>4. Outvoted
    BY DEF DriverInit, Outvoted, OkOutvotesQuorum
  <1>5. Heads
    BY DEF Init, DriverInit, Heads, HeadNotAhead
  <1> QED
    BY <1>1, <1>2, <1>3, <1>4, <1>5 DEF VerdictInv

\* VerdictInv always holds.
LEMMA VerdictInvHolds == DriverSpec => []VerdictInv
  BY InitVerdictInv, VerdictInvStep, PTL DEF DriverSpec

\* On any cluster but one of three nodes, with any batches, in a scenario without
\* faults or with any nodes offline, a record that is posted once only is judged FAIL.
THEOREM OkTakesTwoRounds == DriverSpec => []OkNeedsSecondRound
  <1>1. VerdictInv => OkNeedsSecondRound
    BY DEF VerdictInv, Reposted, OkNeedsSecondRound
  <1> QED
    BY <1>1, VerdictInvHolds, PTL

\* When the nodes that make a record OK outnumber those outside a quorum, an OK
\* record has more signers of COMMITs than a quorum, however late posts, votes,
\* evictions and restarts fall between the questions.
THEOREM OkIsOutvoted == DriverSpec => []OkOutvotesQuorum
  <1>1. VerdictInv => OkOutvotesQuorum
    BY DEF VerdictInv, Outvoted
  <1> QED
    BY <1>1, VerdictInvHolds, PTL

\* On any cluster, with head resets of earlier batches still to arrive, no head
\* passes a slot that has not been posted.
THEOREM HeadsStayBehind == DriverSpec => []HeadNotAhead
  <1>1. VerdictInv => HeadNotAhead
    BY DEF VerdictInv, Heads
  <1> QED
    BY <1>1, VerdictInvHolds, PTL
-----------------------------------------------------------------------------
(* The way to the end *)

\* The parts of what is left.
LEMMA LeftParts ==
    /\ Left[1] = Len(plan) + 1 - batch /\ Left[2] = StagesLeft
    /\ Left[3] = (IF at = "done" THEN 0 ELSE Size - idx)
    /\ Left[4] = Cardinality(Node) - round /\ Left[5] = (IF at = "await" THEN 1 ELSE 0)
    /\ Left[6] = Cardinality(waiting) /\ Left[7] = Cardinality(Node) + 1 - asking
  BY DEF Left

\* What is left is never negative.
LEMMA LeftTyped == Position => Left \in [1..7 -> Nat]
  <1> SUFFICES ASSUME Position
               PROVE  Left \in [1..7 -> Nat]
    OBVIOUS
  <1>1. Cardinality(Node) \in Nat
    BY ClusterSize
  <1>2. Len(plan) \in Nat
    BY BatchAssumption DEF Position, DriverTypeOK
  <1>3. Cardinality(waiting) \in Nat
    BY VotersFinite DEF Position, DriverTypeOK
  <1>4. (IF at = "done" THEN 0 ELSE Size - idx) \in Nat
    BY BatchInSlots DEF Position
  <1>5. Len(plan) + 1 - batch \in Nat
    BY <1>2 DEF Position, DriverTypeOK
  <1>6. Cardinality(Node) - round \in Nat /\ Cardinality(Node) + 1 - asking \in Nat
    BY <1>1 DEF Position, DriverTypeOK
  <1>7. StagesLeft \in Nat /\ (IF at = "await" THEN 1 ELSE 0) \in Nat
    BY DEF StagesLeft
  <1>8. \A a, b, c, d, e, f, g \in Nat : <<a, b, c, d, e, f, g>> \in [1..7 -> Nat]
    OBVIOUS
  <1> QED
    BY <1>3, <1>4, <1>5, <1>6, <1>7, <1>8 DEF Left

\* The first part to differ decides.
LEMMA LowerAt ==
    ASSUME NEW i \in 1..7, Left'[i] < Left[i], \A j \in 1..7 : j < i => Left'[j] = Left[j]
    PROVE  Lower(Left', Left)
  <1>1. DOMAIN Left = 1..7
    BY DEF Left
  <1> QED
    BY <1>1 DEF Lower

\* An answer, or the end of its two seconds, leaves one node less to wait for.
LEMMA OneLess ==
    ASSUME Position, UNCHANGED <<at, loop, idx, asking>>, NEW n, waiting' = waiting \ {n}
    PROVE  /\ n \in waiting => Lower(Left', Left)
           /\ Left' = Left \/ Lower(Left', Left)
  <1>1. \A j \in 1..7 : j # 6 => Left'[j] = Left[j]
    BY LeftParts DEF loop, Left, StagesLeft, Size
  <1>2. n \notin waiting => Left' = Left
    <2>1. n \notin waiting => waiting' = waiting
      OBVIOUS
    <2> QED
      BY <2>1 DEF loop, Left, StagesLeft, Size
  <1>3. n \in waiting => Left'[6] < Left[6]
    <2>1. IsFiniteSet(waiting) /\ Cardinality(waiting) \in Nat
      BY VotersFinite DEF Position, DriverTypeOK
    <2>2. n \in waiting => Cardinality(waiting \ {n}) = Cardinality(waiting) - 1
      BY <2>1, FS_RemoveElement
    <2> QED
      BY <2>1, <2>2 DEF Left
  <1>4. n \in waiting => Lower(Left', Left)
    BY <1>1, <1>3, LowerAt
  <1> QED
    BY <1>2, <1>4

\* Every step of the driver leaves less to do.
LEMMA DriverLower ==
    ASSUME Position, DriverStep
    PROVE  Lower(Left', Left)
  <1>1. Cardinality(Node) \in Nat \ {0}
    BY ClusterSize
  <1>2. Len(plan) \in Nat /\ batch \in Nat /\ idx \in Nat /\ round \in Nat /\ asking \in Nat
    BY <1>1, BatchAssumption DEF Position, DriverTypeOK
  <1>3. at # "done" => Size \in Nat \ {0}
    BY BatchInSlots DEF Position
  <1>4. CASE Propose
    <2>1. /\ at = "propose" /\ at' = "await" /\ round' = round + 1
          /\ UNCHANGED <<plan, batch, idx>>
      BY <1>4 DEF Propose
    <2>2. Left'[4] < Left[4]
      BY <1>1, <1>2, <2>1, LeftParts DEF Left
    <2>3. Left'[1] = Left[1] /\ Left'[2] = Left[2] /\ Left'[3] = Left[3]
      BY <2>1 DEF Left, StagesLeft, Size
    <2> QED
      BY <2>2, <2>3, LowerAt
  <1>5. CASE EndRound
    <2>1. at = "await" /\ UNCHANGED <<plan, batch, waiting, asking>>
      BY <1>5 DEF EndRound
    <2>2. CASE RecordPosted /\ idx + 1 < Size
      <3>1. at' = "propose" /\ idx' = idx + 1
        BY <1>5, <2>2 DEF EndRound
      <3>2. Left'[1] = Left[1] /\ Left'[2] = Left[2]
        BY <2>1, <3>1 DEF Left, StagesLeft
      <3>3. Left'[3] < Left[3]
        BY <1>2, <1>3, <2>1, <3>1 DEF Left, Size
      <3> QED
        BY <3>2, <3>3, LowerAt
    <2>3. CASE RecordPosted /\ ~(idx + 1 < Size)
      <3>1. at' = "verify"
        BY <1>5, <2>3 DEF EndRound
      <3>2. Left'[1] = Left[1] /\ Left'[2] < Left[2]
        BY <2>1, <3>1 DEF Left, StagesLeft
      <3> QED
        BY <3>2, LowerAt
    <2>4. CASE ~RecordPosted
      <3>1. at' = "propose" /\ UNCHANGED <<idx, round>>
        BY <1>5, <2>4 DEF EndRound
      <3>2. /\ Left'[1] = Left[1] /\ Left'[2] = Left[2] /\ Left'[3] = Left[3]
            /\ Left'[4] = Left[4]
        BY <2>1, <3>1 DEF Left, StagesLeft, Size
      <3>3. Left'[5] < Left[5]
        BY <2>1, <3>1 DEF Left
      <3> QED
        BY <3>2, <3>3, LowerAt
    <2> QED
      BY <2>2, <2>3, <2>4
  <1>6. CASE Judge
    <2>1. at = "verify" /\ UNCHANGED <<plan, batch>>
      BY <1>6 DEF Judge, loop
    <2>2. CASE idx + 1 < Size
      <3>1. at' = at /\ idx' = idx + 1
        BY <1>6, <2>2 DEF Judge
      <3>2. Left'[1] = Left[1] /\ Left'[2] = Left[2]
        BY <2>1, <3>1 DEF Left, StagesLeft
      <3>3. Left'[3] < Left[3]
        BY <1>2, <1>3, <2>1, <3>1 DEF Left, Size
      <3> QED
        BY <3>2, <3>3, LowerAt
    <2>3. CASE ~(idx + 1 < Size)
      <3>1. at' = "judged"
        BY <1>6, <2>3 DEF Judge
      <3>2. Left'[1] = Left[1] /\ Left'[2] < Left[2]
        BY <2>1, <3>1 DEF Left, StagesLeft
      <3> QED
        BY <3>2, LowerAt
    <2> QED
      BY <2>2, <2>3
  <1>7. CASE Recover
    <2>1. at = "judged" /\ at' = "reset" /\ UNCHANGED <<plan, batch>>
      BY <1>7 DEF Recover, loop
    <2>2. Left'[1] = Left[1] /\ Left'[2] < Left[2]
      BY <2>1 DEF Left, StagesLeft
    <2> QED
      BY <2>2, LowerAt
  <1>8. CASE EndBatch
    <2>1. plan' = plan /\ batch' = batch + 1
      BY <1>8 DEF EndBatch
    <2>2. Left'[1] < Left[1]
      BY <1>2, <2>1 DEF Left
    <2> QED
      BY <2>2, LowerAt
  <1>9. ASSUME NEW n \in Node, TimeOut(n)
         PROVE  Lower(Left', Left)
    <2>1. n \in waiting /\ waiting' = waiting \ {n} /\ UNCHANGED <<at, loop, idx, asking>>
      BY <1>9 DEF TimeOut, GivesUp
    <2> QED
      BY <2>1, OneLess
  <1>10. ASSUME NEW answered \in BOOLEAN, Ask(answered)
         PROVE  Lower(Left', Left)
    <2>1. asking' = asking + 1 /\ UNCHANGED <<at, plan, batch, idx, round, waiting>>
      BY <1>10 DEF Ask, loop
    <2>2. Left'[7] < Left[7]
      BY <1>1, <1>2, <2>1 DEF Left
    <2>3. \A j \in 1..7 : j < 7 => Left'[j] = Left[j]
      BY <2>1, LeftParts DEF Left, StagesLeft, Size
    <2> QED
      BY <2>2, <2>3, LowerAt
  <1> QED
    BY <1>4, <1>5, <1>6, <1>7, <1>8, <1>9, <1>10 DEF DriverStep

\* Whatever a node does, no more is left than before.
LEMMA NodeNotHigher ==
    ASSUME Position, NodeStep \/ UNCHANGED <<vars, driver>>
    PROVE  Left' = Left \/ Lower(Left', Left)
  <1>1. ASSUME UNCHANGED driver
        PROVE  Left' = Left
    BY <1>1 DEF driver, Left, StagesLeft, Size
  <1>2. ASSUME UNCHANGED <<at, loop, idx, asking>>, waiting' = waiting
        PROVE  Left' = Left
    BY <1>2 DEF loop, Left, StagesLeft, Size
  <1>3. ASSUME NEW p \in offered, Handle(p)
        PROVE  Left' = Left \/ Lower(Left', Left)
    <2>1. /\ UNCHANGED <<at, loop, idx, asking>>
          /\ waiting' = waiting \/ waiting' = waiting \ {p.to}
      BY <1>3 DEF Handle
    <2> QED
      BY <1>2, <2>1, OneLess
  <1>4. ASSUME NEW r \in resetting, HandleReset(r)
        PROVE  Left' = Left \/ Lower(Left', Left)
    <2>1. /\ UNCHANGED <<at, loop, idx, asking>>
          /\ waiting' = waiting \/ waiting' = waiting \ {r.to}
      BY <1>4 DEF HandleReset
    <2> QED
      BY <1>2, <2>1, OneLess
  <1> QED
    BY <1>1, <1>3, <1>4 DEF NodeStep

\* Nothing gets lower for ever: of any collection of what may be left, some member
\* has none lower than itself.
THEOREM LowerEnds ==
    ASSUME NEW T \in SUBSET [1..7 -> Nat], T # {}
    PROVE  \E m \in T : \A x \in T : ~Lower(x, m)
  <1> DEFINE Agree(x, m, k) == \A j \in 1..7 : j < k => x[j] = m[j]
             Least(m, i) == \A x \in T, k \in 1..7 :
                                k <= i /\ Agree(x, m, k) => m[k] <= x[k]
             Found == {i \in Nat : i <= 7 => \E m \in T : Least(m, i)}
  <1>1. 0 \in Found
    <2>1. \A m \in T : Least(m, 0)
      OBVIOUS
    <2> QED
      BY <2>1
  <1>2. ASSUME NEW i \in Nat, i \in Found
        PROVE  i + 1 \in Found
    <2> SUFFICES ASSUME i + 1 <= 7
                 PROVE  \E m \in T : Least(m, i + 1)
      OBVIOUS
    <2>1. i + 1 \in 1..7 /\ i <= 7
      OBVIOUS
    <2>2. PICK m \in T : Least(m, i)
      BY <1>2, <2>1
    <2> DEFINE U == {x[i + 1] : x \in {y \in T : Agree(y, m, i + 1)}}
    <2>3. U \in SUBSET Nat
      BY <2>1
    <2>4. m[i + 1] \in U
      OBVIOUS
    <2>5. PICK c \in U : \A d \in U : c <= d
      <3> HIDE DEF U
      <3> QED
        BY <2>3, <2>4, LeastNat
    <2>6. PICK l \in T : Agree(l, m, i + 1) /\ l[i + 1] = c
      BY <2>5
    <2>7. ASSUME NEW x \in T, NEW k \in 1..7, k <= i + 1, Agree(x, l, k)
          PROVE  l[k] <= x[k]
      <3>1. Agree(x, m, k)
        BY <2>6, <2>7
      <3>2. CASE k <= i
        <4>1. m[k] <= x[k]
          BY <2>2, <3>1, <3>2
        <4>2. l[k] = m[k]
          BY <2>6, <3>2
        <4> QED
          BY <4>1, <4>2
      <3>3. CASE k = i + 1
        <4>1. x[i + 1] \in U
          BY <3>1, <3>3
        <4> QED
          BY <2>5, <2>6, <3>3, <4>1
      <3> QED
        BY <2>7, <3>2, <3>3
    <2> QED
      BY <2>7
  <1> HIDE DEF Found
  <1>3. 7 \in Found
    BY <1>1, <1>2, StepInduction
  <1>4. PICK m \in T : Least(m, 7)
    BY <1>3 DEF Found
  <1>5. ASSUME NEW x \in T, Lower(x, m)
        PROVE  FALSE
    <2>1. DOMAIN m = 1..7
      OBVIOUS
    <2>2. PICK k \in 1..7 : x[k] < m[k] /\ \A j \in 1..(k - 1) : x[j] = m[j]
      BY <1>5, <2>1 DEF Lower
    <2>3. Agree(x, m, k)
      BY <2>2
    <2>4. m[k] <= x[k]
      BY <1>4, <2>2, <2>3
    <2>5. m[k] \in Nat /\ x[k] \in Nat
      OBVIOUS
    <2> QED
      BY <2>2, <2>4, <2>5
  <1> QED
    BY <1>5

\* For any cluster, list of batches and faults, the driver never goes round in
\* circles: each of its steps leaves less to do, in an order in which nothing can
\* decrease for ever, and no late answer of a node gives it more to do.
THEOREM DriverGoesOn == DriverSpec => DriverAdvances
  <1> DEFINE Typed == Left \in [1..7 -> Nat]
             Advances == /\ Left' \in [1..7 -> Nat]
                         /\ DriverStep => Lower(Left', Left)
                         /\ ~DriverStep => Left' = Left \/ Lower(Left', Left)
  <1>1. RunInv => Typed
    BY LeftTyped DEF RunInv
  <1>2. RunInv /\ Typed' /\ [DriverNext]_<<vars, driver>> => Advances
    BY DriverLower, NodeNotHigher DEF RunInv, DriverNext
  <1> HIDE DEF Typed, Advances
  <1>3. DriverSpec => [][Advances]_<<vars, driver>>
    BY <1>1, <1>2, InitRunInv, RunInvStep, PTL DEF DriverSpec
  <1> QED
    BY <1>3 DEF DriverAdvances, Advances

-----------------------------------------------------------------------------
(* The driver drives the cluster of AgentConsensus *)

\* The heads that are still to be reset are slots: the last ones of their batches.
ResetsInSlot == \A r \in resetting : r.head \in Slot

\* Every step keeps the heads to reset in the slots.
LEMMA ResetsInSlotStep ==
    ASSUME Position, ResetsInSlot, [DriverNext]_<<vars, driver>>
    PROVE  ResetsInSlot'
  <1>1. CASE Recover
    <2>1. RecoveryTarget \in Slot
      <3>1. /\ Size \in Nat \ {0} /\ base \in Nat
            /\ \A i \in Nat : i < Size => base + i \in Slot
        BY <1>1, BatchInSlots DEF Position, Recover
      <3>2. base + (Size - 1) \in Slot /\ RecoveryTarget = base + (Size - 1)
        BY <3>1 DEF RecoveryTarget
      <3> QED
        BY <3>2
    <2>2. \A r \in resetting' : r \in resetting \/ r.head = RecoveryTarget
      BY <1>1 DEF Recover
    <2> QED
      BY <2>1, <2>2 DEF ResetsInSlot
  <1>2. CASE ~Recover
    <2>1. resetting' \subseteq resetting
      BY <1>2 DEF DriverNext, DriverStep, NodeStep, Propose, EndRound, Judge, EndBatch,
                  TimeOut, Ask, Handle, HandleReset, driver
    <2> QED
      BY <2>1 DEF ResetsInSlot
  <1> QED
    BY <1>1, <1>2

\* A driven cluster does what a cluster with arbitrary clients does: every step of
\* the driver is a stutter, each of its requests a step, of AgentConsensus.
THEOREM DriverImplementsCluster == DriverSpec => Spec
  <1>1. Init /\ DriverInit => RunInv /\ ResetsInSlot
    <2>1. DriverInit => ResetsInSlot
      BY DEF DriverInit, ResetsInSlot
    <2> QED
      BY <2>1, InitRunInv
  <1>2. RunInv /\ ResetsInSlot /\ [DriverNext]_<<vars, driver>> => RunInv' /\ ResetsInSlot'
    <2> SUFFICES ASSUME RunInv, ResetsInSlot, [DriverNext]_<<vars, driver>>
                 PROVE  RunInv' /\ ResetsInSlot'
      OBVIOUS
    <2>1. ResetsInSlot'
      BY ResetsInSlotStep DEF RunInv
    <2> QED
      BY <2>1, RunInvStep
  <1>3. RunInv /\ ResetsInSlot /\ [DriverNext]_<<vars, driver>> => [Next]_vars
    <2> SUFFICES ASSUME RunInv, ResetsInSlot, [DriverNext]_<<vars, driver>>
                 PROVE  [Next]_vars
      OBVIOUS
    <2>1. CASE DriverStep \/ UNCHANGED <<vars, driver>>
      BY <2>1 DEF DriverStep, Propose, EndRound, Judge, Recover, EndBatch, TimeOut, Ask
    <2>2. ASSUME NEW r \in resetting, HandleReset(r)
          PROVE  Next
      <3>1. ResetHead(r.to, r.head) /\ r.to \in Node
        BY <2>2, RequestTyped DEF RunInv, HandleReset
      <3>2. r.head \in ResetTargets
        BY ResetAssumption DEF ResetsInSlot
      <3> QED
        BY <3>1, <3>2 DEF Next, Handlers
    <2>3. ASSUME NEW p \in offered, Handle(p)
          PROVE  Next
      <3>1. PrePrepare(p.to, p.env) /\ p.to \in Node /\ p.env \in Envelope
        BY <2>3, RequestTyped DEF RunInv, Handle
      <3> QED
        BY <3>1 DEF Next, Handlers
    <2> QED
      BY <2>1, <2>2, <2>3, OwnSignature DEF DriverNext, NodeStep, Next, Handlers
  <1> QED
    BY <1>1, <1>2, <1>3, PTL DEF DriverSpec, Spec

\* So every slot of every driven node lives as SlotLife says, every open slot has a
\* watchdog to come and no quorum waits idle, and what is decided is certified and
\* written, whatever the driver posts again or resets late.
THEOREM DrivenClusterKeeps ==
    DriverSpec => /\ LifePerSlot
                  /\ CommittedNotEvicted
                  /\ [](StallGuarded /\ NoIdleQuorum)
                  /\ [](DecisionCertified /\ CommitNeedsRepost /\ DecisionNeedsAudience)
                  /\ [](OneEntryPerPost /\ CommittedRecordOnLedger)
  BY DriverImplementsCluster, SlotsLive, CommittedStay, StallsAreGuarded,
     QuorumsAreNotIdle, DecisionsAreCertified, FirstAttemptsNeverCommit,
     DecisionsHaveAudience, EntriesArePosted, CommittedAreWritten, PTL
==============================================================================
