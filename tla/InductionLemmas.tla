--------------------------- MODULE InductionLemmas ---------------------------
(***************************************************************************)
(* Induction on the natural numbers for the proofs about the recursive     *)
(* functions of ChaosFaults and Submission.  The induction theorems of the *)
(* library take the induction hypothesis as an operator.  Here it is the   *)
(* membership of a set, and the principles come from the library's theorem *)
(* that a well-founded relation has minimal elements.                      *)
(***************************************************************************)
EXTENDS Naturals, TLAPS, WellFoundedInduction

\* A set of natural numbers that has a member has a least one.
LEMMA LeastNat ==
    ASSUME NEW T \in SUBSET Nat, T # {}
    PROVE  \E k \in T : \A j \in T : k <= j
<1> DEFINE R == OpToRel(<, Nat)
<1>1. IsWellFoundedOn(R, Nat)
    BY NatLessThanWellFounded
<1>2. R = {ss \in Nat \X Nat : ss[1] < ss[2]}
    BY DEF OpToRel
<1> HIDE DEF R
<1>3. PICK k \in T : \A j \in T : ~(<<j, k>> \in R)
    BY <1>1, WFMin
<1>4. ASSUME NEW j \in T PROVE k <= j
    <2>1. ~(j < k)
        BY <1>2, <1>3
    <2> QED
        BY <2>1
<1> QED
    BY <1>4

\* Course-of-values induction, for the property of being in a set.
LEMMA StrongInduction ==
    ASSUME NEW T, \A n \in Nat : (\A m \in Nat : m < n => m \in T) => n \in T
    PROVE  \A n \in Nat : n \in T
<1> DEFINE U == {n \in Nat : n \notin T}
<1>1. SUFFICES ASSUME U # {} PROVE FALSE
    OBVIOUS
<1>2. PICK k \in U : \A j \in U : k <= j
    BY <1>1, LeastNat
<1>3. \A m \in Nat : m < k => m \in T
    BY <1>2
<1> QED
    BY <1>2, <1>3

\* Induction from a number to the next.
LEMMA StepInduction ==
    ASSUME NEW T, 0 \in T, \A n \in Nat : n \in T => n + 1 \in T
    PROVE  \A n \in Nat : n \in T
<1>1. ASSUME NEW n \in Nat, \A m \in Nat : m < n => m \in T
      PROVE  n \in T
    <2>1. CASE n = 0
        BY <2>1
    <2>2. CASE n > 0
        <3>1. n - 1 \in Nat /\ n - 1 < n /\ (n - 1) + 1 = n
            BY <2>2
        <3> QED
            BY <1>1, <3>1
    <2> QED
        BY <2>1, <2>2
<1> QED
    BY <1>1, StrongInduction
=============================================================================
