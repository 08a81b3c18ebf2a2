----------------------------- MODULE Submission -----------------------------
(***************************************************************************)
(* How a transaction gets onto the ledger of one node.  POST /transaction  *)
(* admits an envelope by the checks of schemas/transaction.py,             *)
(* core/invariants.py and core/crypto.py and appends it.  /commit appends  *)
(* the record of the slot it decides: the stage is set first, and stays    *)
(* when the append is refused or fails.  Both appends are those of         *)
(* LedgerStore.                                                            *)
(*                                                                         *)
(* A transaction is the body that was sent.  How a slot comes to be        *)
(* prepared is the subject of AgentConsensus; here a slot may be prepared, *)
(* evicted or robbed of its record at any time.                            *)
(***************************************************************************)
EXTENDS LedgerStore, Integers

CONSTANTS
    Slot,        \* the sequence numbers that reach consensus
    Keys,        \* PUBLIC_KEYS: the identities of topology.json, as numbers
    NoRecord,    \* pre_prepares.get(seq) is None
    Limit,       \* MAX_ALLOCATION_LIMIT, in units of the eighth decimal
    MaxDrift,    \* MAX_CLOCK_DRIFT_SECONDS
    Clock        \* bound: the seconds in which requests arrive

\* proposer_node: the number in the name of a node, and whether it is spelt as in
\* topology.json or with capitals or blanks around it.
Name == [number : Nat, spelling : {"plain", "other"}]

Body == [proposer : Name, seq : Nat, ts : Nat, action : STRING,
         asked : Int, valid : SUBSET Nat, invalid : SUBSET Nat]

ASSUME SubmissionAssumption ==
    /\ \A e \in Tx : e \in Body
    /\ NoRecord \notin Tx
    /\ Limit \in Nat /\ MaxDrift \in Nat /\ Clock \subseteq Nat

VARIABLES
    stage,      \* tracker.local_stage
    record,     \* tracker.pre_prepares
    now,        \* time.time()
    admitted,   \* history: the bodies /transaction has let through
    hit         \* history: slots whose append, or a later one, has failed

memory == <<stage, record>>
node == <<stage, record, now, admitted, hit>>

SubmissionInit ==
    /\ Init
    /\ stage = [s \in Slot |-> "NONE"]
    /\ record = [s \in Slot |-> NoRecord]
    /\ now \in Clock
    /\ admitted = {} /\ hit = {}

-----------------------------------------------------------------------------
(* The checks *)

\* Faulty variant: rounded up.
RoundedUp(asked) == (asked + 9) \div 10

\* enforce_eight_decimal_precision: `asked' counts the ninth decimal, which
\* stands for all beyond the eighth, and is cut off towards zero.
Truncated(asked) == IF asked >= 0 THEN asked \div 10 ELSE -((-asked) \div 10)

Amount(e) == Truncated(e.asked)

Digits[k \in Nat] == IF k < 10 THEN <<k>> ELSE Append(Digits[k \div 10], k % 10)

\* str(...).strip().lower(): the spelling is gone.
Cleaned(name) == [name EXCEPT !.spelling = "plain"]

\* verify_tx_id: the preimage of the id, without separators.  Of the cleaned name the
\* number is all that varies; what is hashed after the digits is one element.
Preimage(e) == Digits[Cleaned(e.proposer).number] \o Digits[e.seq] \o Digits[e.ts]
               \o <<<<e.action, Amount(e)>>>>

\* The timestamps the clock check can let through have one length: Unix times have
\* ten digits from 2001 to 2286.
Stamps == {c + d : c \in Clock, d \in -MaxDrift..MaxDrift} \cap Nat
ASSUME ClockAssumption == \A t, u \in Stamps : Len(Digits[t]) = Len(Digits[u])

\* Faulty variant: no check of the clock.
FreshAlways(e) == TRUE

\* check_timestamp_replay.
Fresh(e) == now - e.ts \in -MaxDrift..MaxDrift

\* check_fund_allocation_threshold.
WithinThreshold(e) == e.action = "ALLOCATE_FUNDS" => Amount(e) <= Limit

\* verify_envelope_signatures: whoever signed must be known and right.
SignaturesHold(e) == e.invalid = {} /\ e.valid \subseteq Keys

\* What /transaction lets through: the proposer may be anybody, in any spelling.
Admits(e) == /\ Amount(e) >= 0
             /\ WithinThreshold(e) /\ Fresh(e) /\ SignaturesHold(e)

\* What /pre-prepare lets through: the signature of its proposer, found under the very
\* name, is all it asks for.
Proposable(e) == /\ Amount(e) >= 0
                 /\ e.proposer = Cleaned(e.proposer)
                 /\ e.proposer.number \in Keys \cap e.valid

-----------------------------------------------------------------------------
(* The requests *)

\* POST /transaction.
Submit(e) ==
    /\ Admits(e)
    /\ BeginWrite(e) \/ Refuse
    /\ admitted' = admitted \cup {e}
    /\ UNCHANGED <<memory, now, hit>>

\* The node's memory changes between two appends.
Idle == up /\ ~Writing /\ UNCHANGED <<vars, now, admitted, hit>>

\* A slot is given a record and becomes prepared.
Prepare(e) ==
    /\ Idle /\ e.seq \in Slot /\ Proposable(e)
    /\ stage' = [stage EXCEPT ![e.seq] = "PREPARED"]
    /\ record' = [record EXCEPT ![e.seq] = e]

\* A fast-forward discards the record of a slot and leaves its stage.
Discard(s) ==
    /\ Idle /\ record[s] # NoRecord
    /\ record' = [record EXCEPT ![s] = NoRecord]
    /\ UNCHANGED stage

Evict(s) ==
    /\ Idle /\ stage[s] = "PREPARED"
    /\ stage' = [stage EXCEPT ![s] = "EVICTED"]
    /\ record' = [record EXCEPT ![s] = NoRecord]

\* A /commit that completes the quorum: the stage, then the append, if there is a
\* record.  One that is refused is not tried again.
Commit(s) ==
    /\ up /\ ~Writing /\ stage[s] = "PREPARED"
    /\ stage' = [stage EXCEPT ![s] = "COMMITTED"]
    /\ \/ record[s] = NoRecord /\ UNCHANGED <<vars, hit>>
       \/ record[s] # NoRecord /\ BeginWrite(record[s]) /\ hit' = hit \ {s}
       \/ record[s] # NoRecord /\ Refuse /\ hit' = hit \cup {s}
    /\ UNCHANGED <<record, now, admitted>>

-----------------------------------------------------------------------------
(* Faults and time *)

\* An append fails and takes the entries of all slots with it.
AppendFails == WriteFails /\ hit' = Slot /\ UNCHANGED <<memory, now, admitted>>

\* The process dies, and the tracker with it.
Die ==
    /\ CrashWriting \/ Crash
    /\ stage' = [s \in Slot |-> "NONE"]
    /\ record' = [s \in Slot |-> NoRecord]
    /\ UNCHANGED <<now, admitted, hit>>

Store == (Start \/ StartTorn \/ EndWrite) /\ UNCHANGED node

Tick == ~Writing /\ now' \in Clock /\ now' > now /\ UNCHANGED <<vars, memory, admitted, hit>>

SubmissionNext ==
    \/ \E e \in Tx : Submit(e) \/ Prepare(e)
    \/ \E s \in Slot : Discard(s) \/ Evict(s) \/ Commit(s)
    \/ AppendFails \/ Die \/ Store \/ Tick

SubmissionSpec == SubmissionInit /\ [][SubmissionNext]_<<vars, node>>

-----------------------------------------------------------------------------
(* Properties *)

\* A slot that /verify-tx reports as committed, and whose record was not discarded
\* by a fast-forward, is on the ledger with that record, unless its own append or a
\* later one failed: neither other appends nor the fallback to an empty history
\* lose it otherwise (consensus.py 255-281 against main.py 94-116).
CommittedIsWritten ==
    ~Writing => \A s \in Slot \ hit :
        /\ stage[s] = "COMMITTED"
        /\ record[s] # NoRecord
        => \E i \in 1..Len(ReadHistory) : ReadHistory[i].tx = record[s]

\* Two transactions that /transaction has let through share an id only if they agree
\* in all that is hashed into it, although that is done without separators: the
\* clock check gives every timestamp the same number of digits.  For nodes with one
\* digit in their names: node_1 with slot 12 is node_11 with slot 2.  They may still
\* differ in the spelling of the proposer and in what the id leaves out, the
\* signatures and llm_reasoning_hash.
IdsIdentify ==
    \A a, b \in admitted :
        /\ a.proposer.number <= 9 /\ b.proposer.number <= 9
        /\ Preimage(a) = Preimage(b)
        => /\ Cleaned(a.proposer) = Cleaned(b.proposer)
           /\ <<a.seq, a.ts>> = <<b.seq, b.ts>>
           /\ <<a.action, Amount(a)>> = <<b.action, Amount(b)>>

\* What is recorded is never more than what was asked for, nor a whole unit less,
\* and an allocation stays within the limit: the digits beyond the eighth decide
\* nothing, and an amount a little below zero is recorded as zero.
NeverMoreThanAsked ==
    \A e \in admitted :
        /\ Amount(e) >= 0
        /\ e.asked - 10 * Amount(e) \in -9..9
        /\ e.asked >= 0 => 10 * Amount(e) <= e.asked
        /\ e.action = "ALLOCATE_FUNDS" => Amount(e) <= Limit
=============================================================================
