------------------------------ MODULE SlotLife ------------------------------
(***************************************************************************)
(* What a node promises about one slot, whatever the votes, watchdogs and  *)
(* other slots do: the life of the slot's stage, and how often the slot is *)
(* written.  A decided slot is left only by another post or a restart; it  *)
(* is decided from PREPARED alone, and writes one entry or, when its       *)
(* record has been discarded, none.                                        *)
(***************************************************************************)
EXTENDS Naturals

VARIABLES stage,   \* the stage of the slot
          posts,   \* how many pre-prepares for it have been accepted
          copies   \* how many entries the ledger has for it

slot == <<stage, posts, copies>>

IsOpen == stage \in {"PRE_PREPARED", "PREPARED"}

LifeInit == stage = "NONE" /\ posts = 0 /\ copies = 0

Post == /\ stage' \in {"PRE_PREPARED", "PREPARED"}
        /\ posts' = posts + 1
        /\ UNCHANGED copies

Prepare == /\ stage = "PRE_PREPARED" /\ stage' = "PREPARED"
           /\ UNCHANGED <<posts, copies>>

Commit == /\ stage = "PREPARED" /\ stage' = "COMMITTED"
          /\ copies' \in {copies, copies + 1}
          /\ UNCHANGED posts

Evict == /\ IsOpen /\ stage' = "EVICTED"
         /\ UNCHANGED <<posts, copies>>

Forget == /\ stage' = "NONE"
          /\ UNCHANGED <<posts, copies>>

LifeNext == Post \/ Prepare \/ Commit \/ Evict \/ Forget

LifeSpec == LifeInit /\ [][LifeNext]_slot

\* Each post is written at most once, and not before it is decided.
WrittenOncePerPost == copies + (IF IsOpen THEN 1 ELSE 0) <= posts
=============================================================================
