----------------------------- MODULE LedgerStore -----------------------------
(***************************************************************************)
(* ledger.json of one node and its two writers, /transaction (main.py) and *)
(* /commit (routers/consensus.py).  Both read the whole file, append one   *)
(* entry and write the whole file back with write_text, which truncates    *)
(* first.  They hold one lock and do not await inside it, so no other      *)
(* request runs between the truncation and the end of the write; the       *)
(* process can die there, and the write can fail (a full disk).            *)
(***************************************************************************)
EXTENDS Naturals, Sequences

CONSTANTS Tx,          \* the transactions that reach a writer
          MaxAppends,  \* bound: requests that reach a writer
          MaxFaults    \* bound: crashes of the process and failed writes

ASSUME LedgerBounds == MaxAppends \in Nat /\ MaxFaults \in Nat

(***************************************************************************)
(* The bytes on disk: no file, a JSON list, a prefix of one that is not    *)
(* JSON, or a prefix that ends inside a UTF-8 character (the writers pass  *)
(* ensure_ascii=False, so names and addresses are not escaped).            *)
(***************************************************************************)
VARIABLES
    up,        \* the process is running
    disk,      \* "missing", "whole", "torn" or "undecodable"
    entries,   \* the list a whole file holds, else <<>>
    pending,   \* the list being written, after the truncation, else <<>>
    appends, faults

vars == <<up, disk, entries, pending, appends, faults>>

Entry == [ledger_index : Nat \ {0}, tx : Tx]

Writing == pending # <<>>

\* The types of the variables; ledger_index counts from 1.
TypeOK ==
    /\ up \in BOOLEAN
    /\ disk \in {"missing", "whole", "torn", "undecodable"}
    /\ entries \in Seq(Entry) /\ pending \in Seq(Entry)
    /\ appends \in Nat /\ faults \in Nat

Init ==
    /\ up = FALSE /\ disk = "missing" /\ entries = <<>> /\ pending = <<>>
    /\ appends = 0 /\ faults = 0

\* The process starts: a missing file is created as an empty list.
Start ==
    /\ ~up /\ up' = TRUE
    /\ disk' = IF disk = "missing" THEN "whole" ELSE disk
    /\ UNCHANGED <<entries, pending, appends, faults>>

\* The first start dies while it creates the file.
StartTorn ==
    /\ ~up /\ disk = "missing" /\ faults < MaxFaults
    /\ disk' = "torn" /\ faults' = faults + 1
    /\ UNCHANGED <<up, entries, pending, appends>>

\* The contents a writer takes as a history; the read errors it catches
\* (JSONDecodeError, but not UnicodeDecodeError) count as an empty one.
Readable == {"whole", "torn"}
ReadHistory == IF disk = "whole" THEN entries ELSE <<>>

\* Faulty variant: indexes counted from zero.
ZeroIndexed(history, tx) == [ledger_index |-> Len(history), tx |-> tx]

NewEntry(history, tx) == [ledger_index |-> Len(history) + 1, tx |-> tx]

\* Faulty variant: the history read after the truncation, when it is gone.
RestartedHistory(history, tx) == <<NewEntry(<<>>, tx)>>

Extended(history, tx) == Append(history, NewEntry(history, tx))

\* A writer reads the file, builds the new list and truncates the file.
BeginWrite(tx) ==
    /\ up /\ ~Writing /\ disk \in Readable /\ appends < MaxAppends
    /\ pending' = Extended(ReadHistory, tx)
    /\ appends' = appends + 1
    /\ UNCHANGED <<up, disk, entries, faults>>

\* The new list is on disk and the client has its answer.
EndWrite ==
    /\ up /\ Writing
    /\ disk' = "whole" /\ entries' = pending /\ pending' = <<>>
    /\ UNCHANGED <<up, appends, faults>>

\* A writer raises before it writes: the file cannot be decoded.
Refuse ==
    /\ up /\ ~Writing /\ disk \notin Readable /\ appends < MaxAppends
    /\ appends' = appends + 1
    /\ UNCHANGED <<up, disk, entries, pending, faults>>

\* A write that stops early leaves the file cut at some byte.
Cut ==
    /\ Writing /\ faults < MaxFaults
    /\ disk' \in {"torn", "undecodable"}
    /\ entries' = <<>> /\ pending' = <<>>
    /\ faults' = faults + 1 /\ UNCHANGED appends

\* write_text raises and the request fails; the process goes on.
WriteFails == up /\ Cut /\ UNCHANGED up

\* The process dies, inside a write or outside one.
CrashWriting == up /\ Cut /\ up' = FALSE

Crash ==
    /\ up /\ ~Writing /\ faults < MaxFaults
    /\ up' = FALSE /\ faults' = faults + 1
    /\ UNCHANGED <<disk, entries, pending, appends>>

Next == \/ Start \/ StartTorn \/ EndWrite \/ Refuse
        \/ WriteFails \/ CrashWriting \/ Crash
        \/ \E tx \in Tx : BeginWrite(tx)

Spec == Init /\ [][Next]_vars

----------------------------------------------------------------------------
(* Properties *)

\* The list a writer works on is a lossy log: whatever crashes and failed
\* writes do, it grows by one entry numbered Len + 1 at a time, and is lost
\* only as a whole and only by a fault that hits an append (main.py 94-116,
\* consensus.py 263-281).  While the file is truncated the log still counts
\* as the old one: nobody can read it then.
Log == INSTANCE LossyLog WITH log <- ReadHistory, appending <- Writing
ImplementsLossyLog == Log!LogSpec

\* .gitignore 5 calls the file the "per-node append-only ledger": an entry
\* that was written stays at its place.  Violated: the truncation is not
\* atomic and the fallback takes a cut file for an empty history.
AppendOnly ==
    [][\A i \in DOMAIN entries :
          i \in DOMAIN entries' /\ entries'[i] = entries[i]]_entries

\* The fallback (main.py 99, "if file gets partially truncated under
\* concurrent load or chaos testing") lets the writers go on after a cut.
\* Violated: a cut inside a character is UnicodeDecodeError, not caught.
FallbackRecovers == up /\ ~Writing => disk \in Readable
==============================================================================
