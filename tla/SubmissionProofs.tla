--------------------------- MODULE SubmissionProofs ---------------------------
(***************************************************************************)
(* LedgerStore implements LossyLog, and Submission implements LedgerStore  *)
(* and so the lossy log, for every set of transactions, slots and bounds;  *)
(* a committed slot with a record that no failed append has hit is on the  *)
(* ledger; what is admitted keeps to what was asked for; and what is       *)
(* admitted is told apart by its id.                                       *)
(*                                                                         *)
(* The inductive invariant of the store says that a list being written     *)
(* extends the readable history by one entry, so that ending the write     *)
(* appends, and that only a whole file holds entries.  The ids need what   *)
(* the recursion of Digits computes, by induction on the number.           *)
(***************************************************************************)
EXTENDS Submission, InductionLemmas, SequenceTheorems

-----------------------------------------------------------------------------
(* The ledger store *)

PendingExtends ==
    Writing => \E tx \in Tx : pending = Extended(ReadHistory, tx)

OnlyWholeHolds == disk # "whole" => entries = <<>>

StoreInv == TypeOK /\ PendingExtends /\ OnlyWholeHolds

\* A list that extends a history is a list of entries, and not empty.
LEMMA ExtendedTyped ==
    ASSUME NEW h \in Seq(Entry), NEW tx \in Tx
    PROVE  /\ Extended(h, tx) \in Seq(Entry)
           /\ Extended(h, tx) # <<>>
<1>1. Len(h) \in Nat
    OBVIOUS
<1>2. NewEntry(h, tx) \in Entry
    BY <1>1 DEF NewEntry, Entry
<1>3. Append(h, NewEntry(h, tx)) \in Seq(Entry)
    BY <1>2
<1>4. Len(Append(h, NewEntry(h, tx))) = Len(h) + 1
    BY <1>2
<1>5. Append(h, NewEntry(h, tx)) # <<>>
    BY <1>1, <1>4
<1> QED
    BY <1>3, <1>5 DEF Extended

\* What a writer reads is a list of entries.
LEMMA ReadHistoryTyped ==
    ASSUME TypeOK
    PROVE  ReadHistory \in Seq(Entry)
BY DEF TypeOK, ReadHistory

\* There is no file and no write at first.
LEMMA StoreInvInit == Init => StoreInv
<1>1. <<>> \in Seq(Entry)
    OBVIOUS
<1>2. Init => up \in BOOLEAN
    BY Zenon DEF Init
<1>3. Init => /\ disk \in {"missing", "whole", "torn", "undecodable"}
              /\ entries \in Seq(Entry) /\ pending \in Seq(Entry)
              /\ appends \in Nat /\ faults \in Nat
    BY <1>1 DEF Init
<1>4. Init => PendingExtends /\ OnlyWholeHolds
    BY DEF Init, PendingExtends, OnlyWholeHolds, Writing
<1> QED
    BY <1>2, <1>3, <1>4 DEF StoreInv, TypeOK

\* Every step of a writer, every cut and every start keeps the invariant.
LEMMA StoreInvStep == StoreInv /\ [Next]_vars => StoreInv'
<1> SUFFICES ASSUME StoreInv, [Next]_vars PROVE StoreInv'
    OBVIOUS
<1> USE DEF StoreInv, TypeOK, PendingExtends, OnlyWholeHolds, Writing
<1>0. <<>> \in Seq(Entry)
    OBVIOUS
<1>1. CASE Start
    BY <1>1 DEF Start, ReadHistory
<1>2. CASE StartTorn
    BY <1>2 DEF StartTorn, ReadHistory
<1>3. CASE EndWrite
    BY <1>0, <1>3 DEF EndWrite
<1>4. CASE Refuse
    BY <1>4 DEF Refuse, ReadHistory
<1>5. CASE WriteFails
    BY <1>0, <1>5 DEF WriteFails, Cut
<1>6. CASE CrashWriting
    <2>1. up' \in BOOLEAN
        BY <1>6, Zenon DEF CrashWriting
    <2>2. /\ disk' \in {"missing", "whole", "torn", "undecodable"}
          /\ entries' \in Seq(Entry) /\ pending' \in Seq(Entry)
          /\ appends' \in Nat /\ faults' \in Nat
        BY <1>0, <1>6 DEF Cut, CrashWriting
    <2>3. PendingExtends' /\ OnlyWholeHolds'
        BY <1>6 DEF Cut, CrashWriting
    <2> QED
        BY <2>1, <2>2, <2>3
<1>7. CASE Crash
    <2>1. up' \in BOOLEAN
        BY <1>7, Zenon DEF Crash
    <2>2. /\ disk' \in {"missing", "whole", "torn", "undecodable"}
          /\ entries' \in Seq(Entry) /\ pending' \in Seq(Entry)
          /\ appends' \in Nat /\ faults' \in Nat
        BY <1>7 DEF Crash
    <2>3. PendingExtends' /\ OnlyWholeHolds'
        BY <1>7 DEF Crash, ReadHistory
    <2> QED
        BY <2>1, <2>2, <2>3
<1>8. ASSUME NEW tx \in Tx, BeginWrite(tx) PROVE StoreInv'
    <2>1. ReadHistory \in Seq(Entry)
        BY ReadHistoryTyped
    <2>2. pending' = Extended(ReadHistory, tx)
        BY <1>8 DEF BeginWrite
    <2>3. pending' \in Seq(Entry)
        BY <2>1, <2>2, ExtendedTyped
    <2>4. ReadHistory' = ReadHistory
        BY <1>8 DEF BeginWrite, ReadHistory
    <2>5. PendingExtends'
        <3>1. \E t \in Tx : pending' = Extended(ReadHistory, t)
            BY <2>2
        <3> QED
            BY <3>1, <2>4 DEF Extended, NewEntry
    <2> QED
        BY <1>8, <2>3, <2>5 DEF BeginWrite
<1>9. CASE UNCHANGED vars
    BY <1>9 DEF vars, ReadHistory
<1> QED
    BY <1>1, <1>2, <1>3, <1>4, <1>5, <1>6, <1>7, <1>8, <1>9 DEF Next

-----------------------------------------------------------------------------
(* The store is a lossy log *)

\* Every step is a step of the lossy log or leaves it as it is.
LEMMA LogStep ==
    StoreInv /\ StoreInv' /\ [Next]_vars
        => [Log!LogNext]_<<ReadHistory, Writing>>
<1> SUFFICES ASSUME StoreInv, StoreInv', [Next]_vars
             PROVE  [Log!LogNext]_<<ReadHistory, Writing>>
    OBVIOUS
<1> USE DEF StoreInv, OnlyWholeHolds
<1>1. ASSUME Start \/ StartTorn \/ Refuse \/ Crash \/ UNCHANGED vars
      PROVE  UNCHANGED <<ReadHistory, Writing>>
    BY <1>1 DEF Start, StartTorn, Refuse, Crash, vars, ReadHistory, Writing
<1>2. ASSUME NEW tx \in Tx, BeginWrite(tx) PROVE Log!BeginAppend
    <2>1. ~Writing /\ UNCHANGED ReadHistory
        BY <1>2 DEF BeginWrite, ReadHistory
    <2>2. pending' # <<>>
        BY <1>2, ReadHistoryTyped, ExtendedTyped DEF BeginWrite
    <2> QED
        BY <2>1, <2>2 DEF Log!BeginAppend, Writing
<1>3. ASSUME EndWrite PROVE \E tx \in Tx : Log!EndAppend(tx)
    <2>1. PICK tx \in Tx : pending = Extended(ReadHistory, tx)
        BY <1>3 DEF EndWrite, PendingExtends
    <2>2. ReadHistory' = Append(ReadHistory, NewEntry(ReadHistory, tx))
        BY <1>3, <2>1 DEF EndWrite, ReadHistory, Extended
    <2>3. Writing /\ Writing' = FALSE
        BY <1>3 DEF EndWrite, Writing
    <2> QED
        BY <2>2, <2>3 DEF Log!EndAppend, NewEntry
<1>4. ASSUME WriteFails \/ CrashWriting PROVE Log!Lose
    BY <1>4 DEF WriteFails, CrashWriting, Cut, Log!Lose, ReadHistory, Writing
<1> QED
    BY <1>1, <1>2, <1>3, <1>4 DEF Next, Log!LogNext

\* The missing file is the empty log.
LEMMA LogInitial == Init => Log!LogInit
BY DEF Init, Log!LogInit, ReadHistory, Writing

\* Whatever the schedule of crashes and failed writes, every variable has
\* its type (main.py 94-116, consensus.py 263-281).
THEOREM StoreTyped == Spec => []TypeOK
<1>1. StoreInv => TypeOK
    BY DEF StoreInv
<1> QED
    BY StoreInvInit, StoreInvStep, <1>1, PTL DEF Spec

\* The file a writer works on is a lossy log: it grows by one entry with
\* the next number, and is lost only as a whole, by a fault that hits an
\* append (main.py 94-116, consensus.py 263-281).
THEOREM StoreIsLossyLog == Spec => ImplementsLossyLog
<1>1. Spec => []StoreInv
    BY StoreInvInit, StoreInvStep, PTL DEF Spec
<1> QED
    BY <1>1, LogInitial, LogStep, PTL
    DEF Spec, ImplementsLossyLog, Log!LogSpec

-----------------------------------------------------------------------------
(* The steps of the store *)

MemoryTyped == /\ stage \in [Slot -> {"NONE", "PREPARED", "EVICTED", "COMMITTED"}]
               /\ record \in [Slot -> Tx \cup {NoRecord}]

\* Every action keeps stages and records what they are.
LEMMA MemoryTypedStep == MemoryTyped /\ [SubmissionNext]_<<vars, node>> => MemoryTyped'
<1> SUFFICES ASSUME MemoryTyped, [SubmissionNext]_<<vars, node>>
             PROVE  MemoryTyped'
    OBVIOUS
<1> USE DEF MemoryTyped, memory, node
<1>1. ASSUME UNCHANGED memory
      PROVE  MemoryTyped'
    BY <1>1
<1>2. ASSUME NEW e \in Tx, Prepare(e)
      PROVE  MemoryTyped'
    BY <1>2 DEF Prepare
<1>3. ASSUME NEW s \in Slot, Discard(s)
      PROVE  MemoryTyped'
    BY <1>3 DEF Discard
<1>4. ASSUME NEW s \in Slot, Evict(s)
      PROVE  MemoryTyped'
    BY <1>4 DEF Evict
<1>5. ASSUME NEW s \in Slot, Commit(s)
      PROVE  MemoryTyped'
    BY <1>5 DEF Commit
<1>6. ASSUME Die
      PROVE  MemoryTyped'
    BY <1>6 DEF Die
<1> QED
    BY <1>1, <1>2, <1>3, <1>4, <1>5, <1>6
    DEF SubmissionNext, Submit, AppendFails, Store, Tick

\* Every step is a step of the store or leaves it alone.
LEMMA StoreStep == MemoryTyped /\ [SubmissionNext]_<<vars, node>> => [Next]_vars
<1> SUFFICES ASSUME MemoryTyped, [SubmissionNext]_<<vars, node>>
             PROVE  [Next]_vars
    OBVIOUS
<1>1. ASSUME NEW e \in Tx, Submit(e)
      PROVE  Next
    BY <1>1 DEF Submit, Next
<1>2. ASSUME NEW s \in Slot, Commit(s)
      PROVE  [Next]_vars
    <2>1. CASE UNCHANGED vars
        BY <2>1
    <2>2. CASE record[s] # NoRecord /\ BeginWrite(record[s])
        <3>1. record[s] \in Tx
            BY <2>2 DEF MemoryTyped
        <3> QED
            BY <2>2, <3>1 DEF Next
    <2>3. CASE Refuse
        BY <2>3 DEF Next
    <2> QED
        BY <1>2, <2>1, <2>2, <2>3 DEF Commit
<1>3. ASSUME AppendFails \/ Die \/ Store
      PROVE  Next
    BY <1>3 DEF AppendFails, Die, Store, Next
<1>4. ASSUME \/ \E e \in Tx : Prepare(e)
             \/ \E s \in Slot : Discard(s) \/ Evict(s)
             \/ Tick
      PROVE  UNCHANGED vars
    BY <1>4 DEF Prepare, Discard, Evict, Idle, Tick
<1> QED
    BY <1>1, <1>2, <1>3, <1>4 DEF SubmissionNext

\* Memory is empty at first.
LEMMA MemoryTypedInit == SubmissionInit => MemoryTyped
BY DEF SubmissionInit, MemoryTyped

\* What is written on the way to a slot or by a request is a behaviour of the
\* ledger store: the two paths add no other access to the file.
LEMMA RequestsUseStore == SubmissionSpec => Spec
<1>1. SubmissionInit => Init
    BY DEF SubmissionInit
<1> QED
    BY <1>1, MemoryTypedInit, MemoryTypedStep, StoreStep, PTL DEF SubmissionSpec, Spec

\* Both paths onto the ledger together keep the types of the store.
THEOREM SubmissionsTyped == SubmissionSpec => []TypeOK
BY RequestsUseStore, StoreTyped, PTL

\* Both paths onto the ledger, interleaved at will, keep it a lossy log.
THEOREM SubmissionsKeepLog == SubmissionSpec => ImplementsLossyLog
BY RequestsUseStore, StoreIsLossyLog, PTL

-----------------------------------------------------------------------------
(* What is committed is written *)

\* The list a reader will see if no fault comes.
Settled == IF Writing THEN pending ELSE ReadHistory

RecordsSettled ==
    \A s \in Slot \ hit :
        /\ stage[s] = "COMMITTED"
        /\ record[s] # NoRecord
        => \E i \in 1..Len(Settled) : Settled[i].tx = record[s]

SettledInv == StoreInv /\ MemoryTyped /\ RecordsSettled

\* A list that is extended holds what it held, and the new transaction.
LEMMA ExtendedHolds ==
    ASSUME NEW h \in Seq(Entry), NEW tx \in Tx
    PROVE  /\ \E i \in 1..Len(Extended(h, tx)) : Extended(h, tx)[i].tx = tx
           /\ \A i \in 1..Len(h) : /\ i \in 1..Len(Extended(h, tx))
                                   /\ Extended(h, tx)[i] = h[i]
<1> DEFINE e == NewEntry(h, tx)
           k == Len(h) + 1
<1>1. e \in Entry /\ e.tx = tx /\ Len(h) \in Nat
    BY DEF NewEntry, Entry
<1>2. /\ Len(Append(h, e)) = k /\ Append(h, e)[k] = e
      /\ \A i \in 1..Len(h) : Append(h, e)[i] = h[i]
    BY <1>1
<1>3. k \in 1..k /\ \A i \in 1..Len(h) : i \in 1..k
    BY <1>1
<1> QED
    BY <1>1, <1>2, <1>3 DEF Extended

\* A step that keeps the settled list, or has it grow, keeps a record on it.
LEMMA SettledGrows ==
    ASSUME SettledInv, NEW s \in Slot \ hit,
           stage[s] = "COMMITTED", record[s] # NoRecord, record'[s] = record[s],
           \A i \in 1..Len(Settled) : /\ i \in 1..Len(Settled')
                                      /\ Settled'[i] = Settled[i]
    PROVE  \E i \in 1..Len(Settled') : Settled'[i].tx = record'[s]
BY DEF SettledInv, RecordsSettled

\* What a new write leads to holds the old list and the new transaction.
LEMMA WriteSettles ==
    ASSUME StoreInv, NEW tx \in Tx, BeginWrite(tx)
    PROVE  /\ \E i \in 1..Len(Settled') : Settled'[i].tx = tx
           /\ \A i \in 1..Len(Settled) : /\ i \in 1..Len(Settled')
                                         /\ Settled'[i] = Settled[i]
<1>1. ReadHistory \in Seq(Entry)
    BY ReadHistoryTyped DEF StoreInv
<1>2. pending' = Extended(ReadHistory, tx)
    BY DEF BeginWrite
<1>3. Settled = ReadHistory /\ Settled' = Extended(ReadHistory, tx)
    BY <1>1, <1>2, ExtendedTyped DEF BeginWrite, Settled, Writing
<1> QED
    BY <1>1, <1>3, ExtendedHolds

\* Starting, finishing a write, refusing and resting leave the settled list.
LEMMA SettledKept ==
    ASSUME StoreInv, Start \/ StartTorn \/ EndWrite \/ Refuse \/ UNCHANGED vars
    PROVE  Settled' = Settled
<1> USE DEF StoreInv, OnlyWholeHolds, Settled, ReadHistory, Writing
<1>1. CASE Start
    BY <1>1 DEF Start
<1>2. CASE StartTorn
    BY <1>2 DEF StartTorn
<1>3. CASE EndWrite
    BY <1>3 DEF EndWrite
<1>4. CASE Refuse
    BY <1>4 DEF Refuse
<1>5. CASE UNCHANGED vars
    BY <1>5 DEF vars
<1> QED
    BY <1>1, <1>2, <1>3, <1>4, <1>5

\* Every action keeps the records of committed slots settled.
LEMMA RecordsSettledStep ==
    SettledInv /\ [SubmissionNext]_<<vars, node>> => RecordsSettled'
<1> SUFFICES ASSUME SettledInv, [SubmissionNext]_<<vars, node>>,
                    NEW s \in Slot, s \notin hit',
                    stage'[s] = "COMMITTED", record'[s] # NoRecord
             PROVE  \E i \in 1..Len(Settled') : Settled'[i].tx = record'[s]
    BY DEF RecordsSettled
<1> DEFINE Goal == \E i \in 1..Len(Settled') : Settled'[i].tx = record'[s]
<1> USE DEF MemoryTyped, memory, node
<1>0. StoreInv /\ MemoryTyped
    BY DEF SettledInv
<1>1. ASSUME s \notin hit, stage[s] = "COMMITTED", record'[s] = record[s],
             Start \/ StartTorn \/ EndWrite \/ Refuse \/ UNCHANGED vars
      PROVE  Goal
    BY <1>0, <1>1, SettledKept, SettledGrows
<1>2. ASSUME s \notin hit, stage[s] = "COMMITTED", record'[s] = record[s],
             NEW tx \in Tx, BeginWrite(tx)
      PROVE  Goal
    BY <1>0, <1>2, WriteSettles, SettledGrows
<1>3. ASSUME NEW e \in Tx, Submit(e)
      PROVE  Goal
    <2>1. s \notin hit /\ stage[s] = "COMMITTED" /\ record'[s] = record[s]
        BY <1>3 DEF Submit
    <2> QED
        BY <1>1, <1>2, <1>3, <2>1 DEF Submit
<1>4. ASSUME NEW e \in Tx, Prepare(e)
      PROVE  Goal
    <2>1. s # e.seq
        BY <1>0, <1>4 DEF Prepare
    <2>2. s \notin hit /\ stage[s] = "COMMITTED" /\ record'[s] = record[s]
        BY <1>0, <1>4, <2>1 DEF Prepare, Idle
    <2> QED
        BY <1>1, <1>4, <2>2 DEF Prepare, Idle
<1>5. ASSUME NEW q \in Slot, Discard(q) \/ Evict(q)
      PROVE  Goal
    <2>1. s # q
        BY <1>0, <1>5 DEF Discard, Evict
    <2>2. s \notin hit /\ stage[s] = "COMMITTED" /\ record'[s] = record[s]
        BY <1>0, <1>5, <2>1 DEF Discard, Evict, Idle
    <2> QED
        BY <1>1, <1>5, <2>2 DEF Discard, Evict, Idle
<1>6. ASSUME NEW q \in Slot, Commit(q)
      PROVE  Goal
    <2>1. record' = record
        BY <1>6 DEF Commit
    <2>2. CASE s = q
        <3>1. record[s] \in Tx /\ BeginWrite(record[s])
            BY <1>0, <1>6, <2>1, <2>2 DEF Commit
        <3> QED
            BY <1>0, <2>1, <3>1, WriteSettles
    <2>3. CASE s # q
        <3>1. stage[s] = "COMMITTED" /\ s \notin hit
            BY <1>0, <1>6, <2>3 DEF Commit
        <3>2. \/ UNCHANGED vars
              \/ record[q] # NoRecord /\ BeginWrite(record[q])
              \/ Refuse
            BY <1>6 DEF Commit
        <3>3. record[q] # NoRecord => record[q] \in Tx
            BY <1>0
        <3> QED
            BY <1>1, <1>2, <2>1, <3>1, <3>2, <3>3
    <2> QED
        BY <2>2, <2>3
<1>7. ~AppendFails /\ ~Die
    BY <1>0 DEF AppendFails, Die
<1>8. ASSUME Store \/ Tick \/ UNCHANGED <<vars, node>>
      PROVE  Goal
    <2>1. s \notin hit /\ stage[s] = "COMMITTED" /\ record'[s] = record[s]
        BY <1>8 DEF Store, Tick
    <2> QED
        BY <1>1, <1>8, <2>1 DEF Store, Tick
<1> QED
    BY <1>3, <1>4, <1>5, <1>6, <1>7, <1>8 DEF SubmissionNext

\* For any transactions, slots and bounds, a committed slot whose record is held is
\* on the ledger with it, unless its own append or a later one has failed.
THEOREM CommittedReachLedger == SubmissionSpec => []CommittedIsWritten
<1>1. SubmissionInit => SettledInv
    <2> SUFFICES ASSUME SubmissionInit
                 PROVE  SettledInv
        OBVIOUS
    <2>1. StoreInv
        BY StoreInvInit DEF SubmissionInit
    <2>2. RecordsSettled
        BY DEF SubmissionInit, RecordsSettled
    <2> QED
        BY <2>1, <2>2, MemoryTypedInit DEF SettledInv
<1>2. SettledInv /\ [SubmissionNext]_<<vars, node>> => SettledInv'
    BY MemoryTypedStep, StoreStep, StoreInvStep, RecordsSettledStep DEF SettledInv
<1>3. SettledInv => CommittedIsWritten
    BY DEF SettledInv, RecordsSettled, CommittedIsWritten, Settled
<1> QED
    BY <1>1, <1>2, <1>3, PTL DEF SubmissionSpec

-----------------------------------------------------------------------------
(* Amounts *)

\* Cutting the ninth decimal off loses less than a unit and, of what is not
\* negative, never adds.
LEMMA TruncatedBounds ==
    ASSUME NEW a \in Int
    PROVE  /\ Truncated(a) \in Int
           /\ a - 10 * Truncated(a) \in -9..9
           /\ a >= 0 => 10 * Truncated(a) <= a
BY DEF Truncated

AdmittedChecked ==
    \A e \in admitted : e \in Tx /\ Amount(e) >= 0 /\ WithinThreshold(e)

\* Whatever is admitted has passed the checks of its amount.
LEMMA AdmittedCheckedStep ==
    AdmittedChecked /\ [SubmissionNext]_<<vars, node>> => AdmittedChecked'
<1> SUFFICES ASSUME AdmittedChecked, [SubmissionNext]_<<vars, node>>
             PROVE  AdmittedChecked'
    OBVIOUS
<1>1. ASSUME NEW e \in Tx, Submit(e)
      PROVE  AdmittedChecked'
    BY <1>1 DEF Submit, Admits, AdmittedChecked, Amount, WithinThreshold
<1>2. ASSUME admitted' = admitted
      PROVE  AdmittedChecked'
    BY <1>2 DEF AdmittedChecked, Amount, WithinThreshold
<1> QED
    BY <1>1, <1>2
    DEF SubmissionNext, Prepare, Discard, Evict, Idle, Commit, AppendFails, Die, Store,
        Tick, node

\* For any requests, what is admitted is recorded at the amount asked for but for
\* the digits beyond the eighth, never at more, and within the limit.
THEOREM NothingIsInflated == SubmissionSpec => []NeverMoreThanAsked
<1>1. SubmissionInit => AdmittedChecked
    BY DEF SubmissionInit, AdmittedChecked
<1>2. AdmittedChecked => NeverMoreThanAsked
    <2> SUFFICES ASSUME AdmittedChecked, NEW e \in admitted
                 PROVE  /\ Amount(e) >= 0
                        /\ e.asked - 10 * Amount(e) \in -9..9
                        /\ e.asked >= 0 => 10 * Amount(e) <= e.asked
                        /\ e.action = "ALLOCATE_FUNDS" => Amount(e) <= Limit
        BY DEF NeverMoreThanAsked
    <2>1. e \in Tx /\ Amount(e) >= 0 /\ WithinThreshold(e)
        BY DEF AdmittedChecked
    <2>2. e.asked \in Int
        BY <2>1, SubmissionAssumption DEF Body
    <2> QED
        BY <2>1, <2>2, TruncatedBounds DEF Amount, WithinThreshold
<1> QED
    BY <1>1, <1>2, AdmittedCheckedStep, PTL DEF SubmissionSpec

-----------------------------------------------------------------------------
(* Decimal numerals *)

\* The numeral of k, given those of smaller numbers.
NumeralStep(p, k) == IF k < 10 THEN <<k>> ELSE Append(p[k \div 10], k % 10)

\* p gives the numerals of the numbers up to n.
IsNumerals(p, n) == p = [k \in 0..n |-> NumeralStep(p, k)]

\* All but the last digit make up a smaller number.
LEMMA TenthIsSmaller ==
    ASSUME NEW k \in Nat
    PROVE  /\ k \div 10 \in Nat /\ k % 10 \in 0..9
           /\ k = 10 * (k \div 10) + (k % 10)
           /\ k >= 10 => k \div 10 < k
OBVIOUS

\* A table of numerals, number by number.
LEMMA NumeralsAt ==
    ASSUME NEW n \in Nat, NEW p, IsNumerals(p, n), NEW k \in 0..n
    PROVE  p[k] = NumeralStep(p, k)
<1> DEFINE G(q) == [j \in 0..n |-> NumeralStep(q, j)]
<1>1. p = G(p)
    BY DEF IsNumerals
<1>2. G(p)[k] = NumeralStep(p, k)
    OBVIOUS
<1> HIDE DEF G
<1> QED
    BY <1>1, <1>2

\* Two tables give a number the same numeral.
LEMMA NumeralsAgree ==
    ASSUME NEW n \in Nat, NEW p, IsNumerals(p, n),
           NEW l \in Nat, NEW q, IsNumerals(q, l),
           NEW k \in Nat, k <= n, k <= l
    PROVE  p[k] = q[k]
<1> DEFINE T == {i \in Nat : i <= n /\ i <= l => p[i] = q[i]}
<1>1. ASSUME NEW i \in Nat, \A j \in Nat : j < i => j \in T
      PROVE  i \in T
    <2> SUFFICES ASSUME i <= n, i <= l
                 PROVE  p[i] = q[i]
        OBVIOUS
    <2>1. p[i] = NumeralStep(p, i) /\ q[i] = NumeralStep(q, i)
        BY NumeralsAt
    <2>2. i >= 10 => p[i \div 10] = q[i \div 10]
        BY <1>1, TenthIsSmaller
    <2> QED
        BY <2>1, <2>2 DEF NumeralStep
<1> HIDE DEF T
<1>2. k \in T
    BY <1>1, StrongInduction
<1> QED
    BY <1>2 DEF T

\* There are tables of any length.
LEMMA NumeralsExist ==
    ASSUME NEW n \in Nat
    PROVE  \E p : IsNumerals(p, n)
<1> DEFINE T == {i \in Nat : \E p : IsNumerals(p, i)}
<1>1. 0 \in T
    <2>1. IsNumerals([k \in 0..0 |-> <<k>>], 0)
        BY DEF IsNumerals, NumeralStep
    <2>2. \E p : IsNumerals(p, 0)
        BY <2>1
    <2> QED
        BY <2>2
<1>2. ASSUME NEW i \in Nat, i \in T
      PROVE  i + 1 \in T
    <2>1. PICK p : IsNumerals(p, i)
        BY <1>2
    <2> DEFINE q == [k \in 0..(i + 1) |-> NumeralStep(p, k)]
    <2>2. \A k \in 0..i : p[k] = NumeralStep(p, k)
        BY <2>1, NumeralsAt
    <2>3. \A k \in 0..(i + 1) : q[k] = NumeralStep(p, k)
        OBVIOUS
    <2>4. \A k \in 0..i : q[k] = p[k]
        BY <2>2, <2>3
    <2>5. ASSUME NEW k \in 0..(i + 1)
          PROVE  NumeralStep(q, k) = NumeralStep(p, k)
        <3> HIDE DEF q
        <3>1. k >= 10 => k \div 10 \in 0..i
            BY TenthIsSmaller
        <3> QED
            BY <2>4, <3>1 DEF NumeralStep
    <2>6. q = [k \in 0..(i + 1) |-> NumeralStep(q, k)]
        BY <2>5
    <2>7. IsNumerals(q, i + 1)
        BY <2>6 DEF IsNumerals
    <2>8. \E r : IsNumerals(r, i + 1)
        BY <2>7
    <2> HIDE DEF q
    <2> QED
        BY <2>8
<1> HIDE DEF T
<1>3. n \in T
    BY <1>1, <1>2, StepInduction
<1> QED
    BY <1>3 DEF T

\* Digits satisfies its recursion: the tables fit together.
LEMMA DigitsRecursive ==
    ASSUME NEW k \in Nat
    PROVE  /\ k < 10 => Digits[k] = <<k>>
           /\ k >= 10 => Digits[k] = Append(Digits[k \div 10], k % 10)
<1> DEFINE table(n) == CHOOSE p : IsNumerals(p, n)
           glued == [n \in Nat |-> table(n)[n]]
           IsDigits(d) == d = [n \in Nat |-> NumeralStep(d, n)]
           chosen == CHOOSE d : IsDigits(d)
<1>1. \A n \in Nat : IsNumerals(table(n), n)
    BY NumeralsExist
<1> HIDE DEF table
<1>2. ASSUME NEW n \in Nat
      PROVE  glued[n] = NumeralStep(glued, n)
    <2>1. glued[n] = NumeralStep(table(n), n)
        BY <1>1, NumeralsAt
    <2>2. n >= 10 => table(n)[n \div 10] = glued[n \div 10]
        BY <1>1, TenthIsSmaller, NumeralsAgree
    <2> HIDE DEF glued
    <2> QED
        BY <2>1, <2>2 DEF NumeralStep
<1>3. glued = [n \in Nat |-> glued[n]]
    OBVIOUS
<1>4. IsDigits(glued)
    <2> HIDE DEF glued
    <2>1. [n \in Nat |-> glued[n]] = [n \in Nat |-> NumeralStep(glued, n)]
        BY <1>2
    <2> QED
        BY <1>3, <2>1
<1>5. \E d : IsDigits(d)
    BY <1>4
<1>6. IsDigits(chosen)
    BY <1>5
<1>7. Digits = chosen
    BY DEF Digits, NumeralStep
<1>8. Digits = [n \in Nat |-> NumeralStep(Digits, n)]
    BY <1>6, <1>7
<1> DEFINE G(d) == [n \in Nat |-> NumeralStep(d, n)]
<1>9. G(Digits)[k] = NumeralStep(Digits, k)
    OBVIOUS
<1>10. Digits = G(Digits)
    BY <1>8
<1> HIDE DEF G
<1>11. Digits[k] = NumeralStep(Digits, k)
    BY <1>9, <1>10
<1> QED
    BY <1>11 DEF NumeralStep

\* A numeral is a list of digits, with at least one.
LEMMA DigitsTyped ==
    ASSUME NEW k \in Nat
    PROVE  Digits[k] \in Seq(Nat) /\ Len(Digits[k]) >= 1
<1> DEFINE T == {i \in Nat : Digits[i] \in Seq(Nat) /\ Len(Digits[i]) >= 1}
<1>1. ASSUME NEW i \in Nat, \A j \in Nat : j < i => j \in T
      PROVE  i \in T
    <2>1. CASE i < 10
        <3>1. Digits[i] = <<i>>
            BY <2>1, DigitsRecursive
        <3>2. <<i>> \in Seq(Nat) /\ Len(<<i>>) = 1
            OBVIOUS
        <3>3. Digits[i] \in Seq(Nat) /\ Len(Digits[i]) >= 1
            BY <3>1, <3>2
        <3> QED
            BY <3>3
    <2>2. CASE i >= 10
        <3>1. Digits[i] = Append(Digits[i \div 10], i % 10)
            BY <2>2, DigitsRecursive
        <3>2. i \div 10 \in T /\ i % 10 \in Nat
            BY <1>1, <2>2, TenthIsSmaller
        <3> DEFINE d == Digits[i \div 10]
                   x == i % 10
        <3>3. d \in Seq(Nat) /\ Len(d) >= 1 /\ x \in Nat
            BY <3>2
        <3> HIDE DEF d, x
        <3>4. Append(d, x) \in Seq(Nat) /\ Len(Append(d, x)) >= 1
            BY <3>3
        <3> QED
            BY <3>1, <3>4 DEF d, x
    <2> QED
        BY <2>1, <2>2
<1> HIDE DEF T
<1>2. k \in T
    BY <1>1, StrongInduction
<1> QED
    BY <1>2 DEF T

\* Different numbers have different numerals.
LEMMA DigitsInjective ==
    ASSUME NEW k \in Nat, NEW l \in Nat, Digits[k] = Digits[l]
    PROVE  k = l
<1> DEFINE T == {i \in Nat : \A j \in Nat : Digits[i] = Digits[j] => i = j}
<1>1. ASSUME NEW i \in Nat, \A j \in Nat : j < i => j \in T
      PROVE  i \in T
    <2> SUFFICES ASSUME NEW j \in Nat, Digits[i] = Digits[j]
                 PROVE  i = j
        OBVIOUS
    <2> DEFINE a == Digits[i \div 10]
               b == Digits[j \div 10]
    <2>1. i \div 10 \in Nat /\ j \div 10 \in Nat /\ i % 10 \in Nat /\ j % 10 \in Nat
        BY TenthIsSmaller
    <2>2. a \in Seq(Nat) /\ Len(a) >= 1 /\ b \in Seq(Nat) /\ Len(b) >= 1
        BY <2>1, DigitsTyped
    <2>3. /\ i < 10 => Digits[i] = <<i>>
          /\ i >= 10 => Digits[i] = Append(a, i % 10)
          /\ j < 10 => Digits[j] = <<j>>
          /\ j >= 10 => Digits[j] = Append(b, j % 10)
        BY DigitsRecursive
    <2>4. i >= 10 => i \div 10 \in T
        BY <1>1, <2>1, TenthIsSmaller
    <2>5. a = b /\ i >= 10 => i \div 10 = j \div 10
        BY <2>1, <2>4
    <2> HIDE DEF a, b, T
    <2>6. CASE i < 10 /\ j < 10
        BY <2>3, <2>6
    <2>7. CASE i < 10 /\ j >= 10
        <3>1. Len(Append(b, j % 10)) = 1
            BY <2>3, <2>7
        <3> QED
            BY <2>1, <2>2, <3>1
    <2>8. CASE i >= 10 /\ j < 10
        <3>1. Len(Append(a, i % 10)) = 1
            BY <2>3, <2>8
        <3> QED
            BY <2>1, <2>2, <3>1
    <2>9. CASE i >= 10 /\ j >= 10
        <3>1. Append(a, i % 10) = Append(b, j % 10)
            BY <2>3, <2>9
        <3>2. a = b /\ i % 10 = j % 10
            BY <2>1, <2>2, <3>1, AppendInjective
        <3>3. i = 10 * (i \div 10) + (i % 10) /\ j = 10 * (j \div 10) + (j % 10)
            BY TenthIsSmaller
        <3> QED
            BY <2>5, <2>9, <3>2, <3>3
    <2> QED
        BY <2>6, <2>7, <2>8, <2>9
<1> HIDE DEF T
<1>2. k \in T
    BY <1>1, StrongInduction
<1> QED
    BY <1>2 DEF T

-----------------------------------------------------------------------------
(* Identifiers *)

\* A concatenation determines its parts, given the length of the first.
LEMMA ConcatSplits ==
    ASSUME NEW V, NEW a \in Seq(V), NEW b \in Seq(V), NEW c \in Seq(V), NEW d \in Seq(V),
           Len(a) = Len(b), a \o c = b \o d
    PROVE  a = b /\ c = d
<1>1. a = b
    <2>1. \A i \in 1..Len(a) : (a \o c)[i] = a[i] /\ (b \o d)[i] = b[i]
        OBVIOUS
    <2>2. /\ Len(a) \in Nat
          /\ a = [i \in 1..Len(a) |-> a[i]] /\ b = [i \in 1..Len(a) |-> b[i]]
        OBVIOUS
    <2>3. \A i \in 1..Len(a) : a[i] = b[i]
        BY <2>1
    <2> QED
        BY <2>2, <2>3
<1>2. a \o c = a \o d
    BY <1>1
<1>3. c = d
    BY <1>2, ConcatSimplifications
<1> QED
    BY <1>1, <1>3

\* Likewise given the length of the second.
LEMMA ConcatSplitsRight ==
    ASSUME NEW V, NEW a \in Seq(V), NEW b \in Seq(V), NEW c \in Seq(V), NEW d \in Seq(V),
           Len(c) = Len(d), a \o c = b \o d
    PROVE  a = b /\ c = d
<1>1. /\ Len(a \o c) = Len(a) + Len(c) /\ Len(b \o d) = Len(b) + Len(d)
      /\ Len(a) \in Nat /\ Len(b) \in Nat /\ Len(c) \in Nat
    <2>1. Len(a \o c) = Len(a) + Len(c)
        BY ConcatProperties
    <2>2. Len(b \o d) = Len(b) + Len(d)
        BY ConcatProperties
    <2> QED
        BY <2>1, <2>2
<1>2. Len(a) + Len(c) = Len(b) + Len(c)
    BY <1>1
<1>3. Len(a) = Len(b)
    BY <1>1, <1>2
<1> QED
    BY <1>3, ConcatSplits

AdmittedFresh ==
    /\ now \in Clock
    /\ \A e \in admitted : e \in Tx /\ e.ts \in Stamps

\* Whatever is admitted was stamped near some second of the clock.
LEMMA AdmittedFreshStep ==
    AdmittedFresh /\ [SubmissionNext]_<<vars, node>> => AdmittedFresh'
<1> SUFFICES ASSUME AdmittedFresh, [SubmissionNext]_<<vars, node>>
             PROVE  AdmittedFresh'
    OBVIOUS
<1>1. ASSUME NEW e \in Tx, Submit(e)
      PROVE  AdmittedFresh'
    <2>1. now \in Nat /\ e.ts \in Nat /\ MaxDrift \in Nat
        BY SubmissionAssumption DEF AdmittedFresh, Body
    <2>2. now - e.ts \in -MaxDrift..MaxDrift
        BY <1>1 DEF Submit, Admits, Fresh
    <2> DEFINE d == e.ts - now
    <2>3. d \in -MaxDrift..MaxDrift /\ now + d = e.ts
        BY <2>1, <2>2
    <2> HIDE DEF d
    <2>4. \E c \in Clock, x \in -MaxDrift..MaxDrift : e.ts = c + x
        BY <2>3 DEF AdmittedFresh
    <2>5. e.ts \in Stamps
        BY <2>1, <2>4 DEF Stamps
    <2> QED
        BY <1>1, <2>5 DEF Submit, AdmittedFresh
<1>2. CASE admitted' = admitted /\ now' \in Clock
    BY <1>2 DEF AdmittedFresh
<1>3. CASE admitted' = admitted /\ now' = now
    BY <1>3 DEF AdmittedFresh
<1> QED
    BY <1>1, <1>2, <1>3
    DEF SubmissionNext, Prepare, Discard, Evict, Idle, Commit, AppendFails, Die, Store,
        Tick, node

\* With a node of one digit and a timestamp of a given length the preimage of an
\* id can be read in one way only.
LEMMA PreimageRead ==
    ASSUME NEW a \in Tx, NEW b \in Tx,
           a.proposer.number <= 9, b.proposer.number <= 9,
           a.ts \in Stamps, b.ts \in Stamps,
           Preimage(a) = Preimage(b)
    PROVE  /\ Cleaned(a.proposer) = Cleaned(b.proposer)
           /\ a.seq = b.seq /\ a.ts = b.ts
           /\ a.action = b.action /\ Amount(a) = Amount(b)
<1> DEFINE V == Nat \cup {<<a.action, Amount(a)>>, <<b.action, Amount(b)>>}
           na == Cleaned(a.proposer).number
           nb == Cleaned(b.proposer).number
           pa == Digits[na]
           pb == Digits[nb]
           sa == Digits[a.seq]
           sb == Digits[b.seq]
           ta == Digits[a.ts]
           tb == Digits[b.ts]
           ea == <<<<a.action, Amount(a)>>>>
           eb == <<<<b.action, Amount(b)>>>>
<1>0. /\ a.proposer \in Name /\ b.proposer \in Name
      /\ na = a.proposer.number /\ nb = b.proposer.number
    BY SubmissionAssumption DEF Body, Name, Cleaned
<1>1. /\ na \in Nat /\ a.seq \in Nat /\ a.ts \in Nat
      /\ nb \in Nat /\ b.seq \in Nat /\ b.ts \in Nat
    BY <1>0, SubmissionAssumption DEF Body, Name
<1>2. /\ pa \in Seq(Nat) /\ pb \in Seq(Nat) /\ sa \in Seq(Nat)
      /\ sb \in Seq(Nat) /\ ta \in Seq(Nat) /\ tb \in Seq(Nat)
    BY <1>1, DigitsTyped
<1>3. Len(pa) = 1 /\ Len(pb) = 1
    <2> HIDE DEF na, nb
    <2>1. pa = <<na>> /\ pb = <<nb>>
        BY <1>0, <1>1, DigitsRecursive
    <2> QED
        BY <2>1
<1>4. Len(ta) = Len(tb)
    BY ClockAssumption
<1>5. ((pa \o sa) \o ta) \o ea = ((pb \o sb) \o tb) \o eb
    <2>1. Preimage(a) = ((pa \o sa) \o ta) \o ea
        BY Zenon DEF Preimage
    <2>2. Preimage(b) = ((pb \o sb) \o tb) \o eb
        BY Zenon DEF Preimage
    <2> HIDE DEF pa, pb, sa, sb, ta, tb, ea, eb
    <2> QED
        BY <2>1, <2>2
<1>6. ea \in Seq(V) /\ eb \in Seq(V) /\ Len(ea) = 1 /\ Len(eb) = 1
    OBVIOUS
<1>7. \A s \in Seq(Nat) : s \in Seq(V)
    <2>1. Nat \subseteq V
        OBVIOUS
    <2> HIDE DEF V
    <2> QED
        BY <2>1
<1> HIDE DEF V, na, nb, pa, pb, sa, sb, ta, tb, ea, eb
<1>8. /\ pa \in Seq(V) /\ pb \in Seq(V) /\ sa \in Seq(V)
      /\ sb \in Seq(V) /\ ta \in Seq(V) /\ tb \in Seq(V)
    BY <1>2, <1>7
<1> DEFINE psa == pa \o sa
           psb == pb \o sb
           psta == psa \o ta
           pstb == psb \o tb
<1>9. psa \in Seq(V) /\ psb \in Seq(V)
    BY <1>8, ConcatProperties
<1>10. psta \in Seq(V) /\ pstb \in Seq(V)
    <2> HIDE DEF psa, psb
    <2> QED
        BY <1>8, <1>9, ConcatProperties
<1>11. psta = pstb /\ ea = eb
    <2>1. psta \o ea = pstb \o eb
        BY <1>5
    <2> HIDE DEF psta, pstb
    <2>2. psta = pstb
        BY <1>6, <1>10, <2>1, ConcatSplitsRight
    <2>3. psta \o ea = psta \o eb
        BY <2>1, <2>2
    <2>4. ea = eb
        BY <1>6, <1>10, <2>3, ConcatSimplifications
    <2> QED
        BY <2>2, <2>4
<1>12. psa = psb /\ ta = tb
    <2>1. psa \o ta = psb \o tb
        BY <1>11
    <2> HIDE DEF psa, psb, psta, pstb
    <2>2. psa = psb
        BY <1>4, <1>8, <1>9, <2>1, ConcatSplitsRight
    <2>3. psa \o ta = psa \o tb
        BY <2>1, <2>2
    <2> QED
        BY <1>8, <1>9, <2>2, <2>3, ConcatSimplifications
<1>13. pa = pb /\ sa = sb
    <2>1. pa \o sa = pb \o sb
        BY <1>12
    <2>2. pa = pb
        BY <1>3, <1>8, <2>1, ConcatSplits
    <2>3. pa \o sa = pa \o sb
        BY <2>1, <2>2
    <2> QED
        BY <1>8, <2>2, <2>3, ConcatSimplifications
<1> HIDE DEF psa, psb, psta, pstb
<1>14. na = nb /\ a.seq = b.seq /\ a.ts = b.ts
    BY <1>1, <1>12, <1>13, DigitsInjective DEF pa, pb, sa, sb, ta, tb
<1>15. Cleaned(a.proposer) = Cleaned(b.proposer)
    BY <1>0, <1>14 DEF Cleaned, Name
<1>16. a.action = b.action /\ Amount(a) = Amount(b)
    <2>1. ea[1] = eb[1]
        BY <1>11
    <2>2. <<a.action, Amount(a)>> = <<b.action, Amount(b)>>
        BY <2>1 DEF ea, eb
    <2> QED
        BY <2>2
<1> QED
    BY <1>14, <1>15, <1>16

\* Two admitted transactions share an id only if they agree in all that is hashed
\* into it, the proposer up to its spelling, for any requests, while timestamps have
\* one length (transaction.py 51-66, invariants.py 30-39).
THEOREM IdsAreUnique == SubmissionSpec => []IdsIdentify
<1>1. SubmissionInit => AdmittedFresh
    BY DEF SubmissionInit, AdmittedFresh
<1>2. AdmittedFresh => IdsIdentify
    BY PreimageRead DEF AdmittedFresh, IdsIdentify
<1> QED
    BY <1>1, <1>2, AdmittedFreshStep, PTL DEF SubmissionSpec
===============================================================================
