-------------------------- MODULE ChaosFaultsProofs --------------------------
(***************************************************************************)
(* What a history of faults does to the peer list of a node, for every     *)
(* cluster and every list of targets.  First the lists: what Only keeps    *)
(* (by induction on the length), how a concatenation and a cut list share  *)
(* their members, and how a Byzantine fault splits a list.  Then two       *)
(* inductive invariants: PeersInv adds to FullUnlessByzantine what has     *)
(* been saved (the list saved by the first fault is the full one, and      *)
(* until then the list has not been cut); FaultInv adds the types and that *)
(* a Byzantine node has the two lists its last fault computed, so that     *)
(* what is true of every such split is true of the node.                   *)
(***************************************************************************)
EXTENDS ChaosFaults, InductionLemmas, FiniteSetTheorems, SequenceTheorems

-----------------------------------------------------------------------------
(* What Only computes *)

\* p gives the members of list in S up to each of the first n places.
IsPicking(p, list, S, n) ==
    p = [i \in 0..n |->
            IF i = 0 THEN <<>>
            ELSE IF list[i] \in S THEN Append(p[i - 1], list[i]) ELSE p[i - 1]]

\* A picking, place by place.
LEMMA PickingAt ==
    ASSUME NEW p, NEW list, NEW S, NEW n \in Nat, IsPicking(p, list, S, n)
    PROVE  /\ p[0] = <<>>
           /\ \A i \in 1..n :
                 p[i] = IF list[i] \in S THEN Append(p[i - 1], list[i]) ELSE p[i - 1]
<1> DEFINE G(q) == [i \in 0..n |->
                      IF i = 0 THEN <<>>
                      ELSE IF list[i] \in S THEN Append(q[i - 1], list[i]) ELSE q[i - 1]]
<1>1. p = G(p)
    BY DEF IsPicking
<1>2. 0 \in 0..n /\ 1..n \subseteq 0..n
    OBVIOUS
<1>3. G(p)[0] = <<>>
    BY <1>2
<1>4. ASSUME NEW i \in 1..n
      PROVE  G(p)[i] = IF list[i] \in S THEN Append(p[i - 1], list[i]) ELSE p[i - 1]
    BY <1>2
<1> HIDE DEF G
<1> QED
    BY <1>1, <1>3, <1>4

\* The recursion of Only has a solution.
LEMMA PickingExists ==
    ASSUME NEW list, NEW S, NEW n \in Nat
    PROVE  \E p : IsPicking(p, list, S, n)
<1> DEFINE T == {k \in Nat : \E p : IsPicking(p, list, S, k)}
<1>1. 0 \in T
    <2>1. IsPicking([i \in 0..0 |-> <<>>], list, S, 0)
        BY DEF IsPicking
    <2>2. \E p : IsPicking(p, list, S, 0)
        BY <2>1
    <2> QED
        BY <2>2
<1>2. ASSUME NEW k \in Nat, k \in T
      PROVE  k + 1 \in T
    <2>1. PICK p : IsPicking(p, list, S, k)
        BY <1>2
    <2> DEFINE step(i) == IF list[i] \in S THEN Append(p[i - 1], list[i]) ELSE p[i - 1]
               q == [i \in 0..(k + 1) |-> IF i <= k THEN p[i] ELSE step(i)]
    <2>2. \A i \in 0..k : q[i] = p[i]
        OBVIOUS
    <2>3. \A i \in 1..k : p[i] = step(i)
        BY <2>1, PickingAt
    <2>4. p[0] = <<>>
        BY <2>1, PickingAt
    <2>5. ASSUME NEW i \in 0..(k + 1)
          PROVE  q[i] = IF i = 0 THEN <<>>
                        ELSE IF list[i] \in S THEN Append(q[i - 1], list[i]) ELSE q[i - 1]
        <3>1. CASE i = 0
            BY <3>1, <2>4
        <3>2. CASE i # 0
            <4>1. q[i] = step(i)
                BY <3>2, <2>3
            <4>2. q[i - 1] = p[i - 1]
                BY <3>2, <2>2
            <4> HIDE DEF q
            <4> QED
                BY <3>2, <4>1, <4>2
        <3> QED
            BY <3>1, <3>2
    <2>6. IsPicking(q, list, S, k + 1)
        BY <2>5 DEF IsPicking
    <2>7. \E r : IsPicking(r, list, S, k + 1)
        BY <2>6
    <2> HIDE DEF q
    <2> QED
        BY <2>7
<1> HIDE DEF T
<1>3. n \in T
    BY <1>1, <1>2, StepInduction
<1> QED
    BY <1>3 DEF T

\* Only is the last value of a picking.
LEMMA OnlyPicks ==
    ASSUME NEW list, NEW S, Len(list) \in Nat
    PROVE  \E p : IsPicking(p, list, S, Len(list)) /\ Only(list, S) = p[Len(list)]
<1> DEFINE n == Len(list)
           chosen == CHOOSE p : IsPicking(p, list, S, n)
<1>1. Only(list, S) = chosen[n]
    BY DEF Only, IsPicking
<1> HIDE DEF n
<1>2. \E p : IsPicking(p, list, S, n)
    BY PickingExists DEF n
<1>3. IsPicking(chosen, list, S, n)
    BY <1>2
<1> HIDE DEF chosen
<1> QED
    BY <1>1, <1>3 DEF n

\* Only keeps the members of S and nothing else, and repeats none unless the list
\* does.
LEMMA OnlyKeeps ==
    ASSUME NEW V, NEW list \in Seq(V), NEW S
    PROVE  /\ Only(list, S) \in Seq(V)
           /\ Range(Only(list, S)) = Range(list) \cap S
           /\ IsInjective(list) => IsInjective(Only(list, S))
<1> DEFINE n == Len(list)
<1>1. n \in Nat /\ DOMAIN list = 1..n
    OBVIOUS
<1>2. PICK p : IsPicking(p, list, S, n) /\ Only(list, S) = p[n]
    BY <1>1, OnlyPicks
<1> DEFINE Picked(q, i) == /\ q \in Seq(V)
                           /\ Range(q) = {list[j] : j \in 1..i} \cap S
                           /\ IsInjective(list) => IsInjective(q)
           T == {i \in Nat : i <= n => Picked(p[i], i)}
<1>3. 0 \in T
    <2>1. p[0] = <<>>
        BY <1>1, <1>2, PickingAt
    <2>2. Picked(<<>>, 0)
        BY DEF Range, IsInjective
    <2> QED
        BY <2>1, <2>2
<1>4. ASSUME NEW i \in Nat, i \in T
      PROVE  i + 1 \in T
    <2> SUFFICES ASSUME i + 1 <= n
                 PROVE  Picked(p[i + 1], i + 1)
        OBVIOUS
    <2> DEFINE x == list[i + 1]
    <2>1. Picked(p[i], i)
        BY <1>1, <1>4
    <2>2. x \in V /\ i + 1 \in 1..n
        BY <1>1
    <2>3. p[i + 1] = IF x \in S THEN Append(p[i], x) ELSE p[i]
        BY <1>1, <1>2, <2>2, PickingAt
    <2>4. {list[j] : j \in 1..(i + 1)} = {list[j] : j \in 1..i} \cup {x}
        BY <2>2
    <2>5. CASE x \notin S
        BY <2>1, <2>3, <2>4, <2>5
    <2>6. CASE x \in S
        <3> DEFINE q == p[i]
        <3>1. q \in Seq(V) /\ DOMAIN q = 1..Len(q) /\ Len(q) \in Nat
            BY <2>1
        <3> HIDE DEF q
        <3>2. /\ Append(q, x) \in Seq(V)
              /\ DOMAIN Append(q, x) = 1..(Len(q) + 1)
              /\ Append(q, x)[Len(q) + 1] = x
              /\ \A j \in 1..Len(q) : Append(q, x)[j] = q[j]
            BY <2>2, <3>1
        <3>3. Range(Append(q, x)) = Range(q) \cup {x}
            BY <3>1, <3>2 DEF Range
        <3>4. ASSUME IsInjective(list)
              PROVE  IsInjective(Append(q, x))
            <4>1. ASSUME x \in Range(q)
                  PROVE  FALSE
                <5>1. x \in {list[j] : j \in 1..i}
                    BY <2>1, <4>1 DEF q
                <5>2. PICK j \in 1..i : list[j] = x
                    BY <5>1
                <5>3. j \in DOMAIN list /\ i + 1 \in DOMAIN list /\ j # i + 1
                    BY <1>1, <2>2
                <5> QED
                    BY <3>4, <5>2, <5>3 DEF IsInjective
            <4>2. \A j \in 1..Len(q) : q[j] # x
                BY <4>1, <3>1 DEF Range
            <4>3. IsInjective(q)
                BY <2>1, <3>4 DEF q
            <4> QED
                BY <3>1, <3>2, <4>2, <4>3 DEF IsInjective
        <3> QED
            BY <2>1, <2>3, <2>4, <2>6, <3>2, <3>3, <3>4 DEF q
    <2> QED
        BY <2>5, <2>6
<1> HIDE DEF T
<1>5. n \in T
    BY <1>1, <1>3, <1>4, StepInduction
<1>6. Picked(p[n], n)
    BY <1>1, <1>5 DEF T
<1>7. Range(list) = {list[j] : j \in 1..n}
    BY <1>1 DEF Range
<1> QED
    BY <1>2, <1>6, <1>7

-----------------------------------------------------------------------------
(* Lists of peers *)

\* A list that repeats nothing has as many members as places.
LEMMA InjectiveCount ==
    ASSUME NEW V, NEW s \in Seq(V), IsInjective(s)
    PROVE  Cardinality(Range(s)) = Len(s)
<1>1. Len(s) \in Nat /\ DOMAIN s = 1..Len(s) /\ s \in [1..Len(s) -> Range(s)]
    BY DEF Range
<1>2. s \in Bijection(1..Len(s), Range(s))
    BY <1>1 DEF Bijection, Injection, Surjection, Range
<1> QED
    BY <1>1, <1>2, FS_CountingElements DEF ExistsBijection

\* The members of a concatenation, and when it repeats none.
LEMMA ConcatMembers ==
    ASSUME NEW V, NEW a \in Seq(V), NEW b \in Seq(V)
    PROVE  /\ a \o b \in Seq(V) /\ Len(a \o b) = Len(a) + Len(b)
           /\ Range(a \o b) = Range(a) \cup Range(b)
           /\ IsInjective(a) /\ IsInjective(b) /\ Range(a) \cap Range(b) = {}
                => IsInjective(a \o b)
<1> DEFINE c == a \o b
<1>1. /\ Len(a) \in Nat /\ DOMAIN a = 1..Len(a)
      /\ Len(b) \in Nat /\ DOMAIN b = 1..Len(b)
    OBVIOUS
<1>2. /\ c \in Seq(V) /\ Len(c) = Len(a) + Len(b)
      /\ DOMAIN c = 1..(Len(a) + Len(b))
      /\ \A i \in 1..Len(a) : c[i] = a[i]
      /\ \A i \in 1..Len(b) : c[Len(a) + i] = b[i]
    OBVIOUS
<1> HIDE DEF c
<1>3. \A i \in DOMAIN c : i \in 1..Len(a) \/ i - Len(a) \in 1..Len(b)
    BY <1>1, <1>2
<1>4. \A i \in DOMAIN c : i - Len(a) \in 1..Len(b) => c[i] = b[i - Len(a)]
    <2> SUFFICES ASSUME NEW i \in DOMAIN c, i - Len(a) \in 1..Len(b)
                 PROVE  c[i] = b[i - Len(a)]
        OBVIOUS
    <2>1. i = Len(a) + (i - Len(a))
        BY <1>1, <1>2
    <2> QED
        BY <1>2, <2>1
<1>5. Range(c) = Range(a) \cup Range(b)
    <2>1. Range(c) \subseteq Range(a) \cup Range(b)
        BY <1>1, <1>2, <1>3, <1>4 DEF Range
    <2>2. Range(a) \subseteq Range(c)
        BY <1>1, <1>2 DEF Range
    <2>3. Range(b) \subseteq Range(c)
        <3>1. \A i \in 1..Len(b) : Len(a) + i \in DOMAIN c
            BY <1>1, <1>2
        <3> QED
            BY <1>1, <1>2, <3>1 DEF Range
    <2> QED
        BY <2>1, <2>2, <2>3
<1>6. ASSUME IsInjective(a), IsInjective(b), Range(a) \cap Range(b) = {}
      PROVE  IsInjective(c)
    <2> SUFFICES ASSUME NEW i \in DOMAIN c, NEW j \in DOMAIN c, c[i] = c[j]
                 PROVE  i = j
        BY DEF IsInjective
    <2>0. i \in Int /\ j \in Int
        BY <1>1, <1>2
    <2>1. CASE i \in 1..Len(a) /\ j \in 1..Len(a)
        BY <1>1, <1>2, <1>6, <2>1 DEF IsInjective
    <2>2. CASE i - Len(a) \in 1..Len(b) /\ j - Len(a) \in 1..Len(b)
        <3>1. i - Len(a) = j - Len(a)
            BY <1>1, <1>4, <1>6, <2>2 DEF IsInjective
        <3> QED
            BY <1>1, <2>0, <3>1
    <2>3. CASE i \in 1..Len(a) /\ j - Len(a) \in 1..Len(b)
        BY <1>1, <1>2, <1>4, <1>6, <2>3 DEF Range
    <2>4. CASE i - Len(a) \in 1..Len(b) /\ j \in 1..Len(a)
        BY <1>1, <1>2, <1>4, <1>6, <2>4 DEF Range
    <2> QED
        BY <1>3, <2>1, <2>2, <2>3, <2>4
<1> QED
    BY <1>2, <1>5, <1>6 DEF c

\* A list cut in two: its members are those of the parts, and the parts of one that
\* repeats nothing repeat nothing and share nothing.
LEMMA SplitMembers ==
    ASSUME NEW V, NEW s \in Seq(V), NEW k \in 0..Len(s)
    PROVE  LET a == SubSeq(s, 1, k)
               b == SubSeq(s, k + 1, Len(s))
           IN  /\ a \in Seq(V) /\ b \in Seq(V)
               /\ Len(a) = k /\ Len(b) = Len(s) - k
               /\ Range(a) \cup Range(b) = Range(s)
               /\ IsInjective(s) => /\ IsInjective(a) /\ IsInjective(b)
                                    /\ Range(a) \cap Range(b) = {}
<1> DEFINE a == SubSeq(s, 1, k)
           b == SubSeq(s, k + 1, Len(s))
<1>1. Len(s) \in Nat /\ DOMAIN s = 1..Len(s) /\ k \in Nat /\ k <= Len(s)
    OBVIOUS
<1>2. /\ a \in Seq(V) /\ Len(a) = k /\ DOMAIN a = 1..k
      /\ \A i \in 1..k : a[i] = s[i]
    BY <1>1
<1>3. /\ b \in Seq(V) /\ Len(b) = Len(s) - k /\ DOMAIN b = 1..(Len(s) - k)
      /\ \A i \in 1..(Len(s) - k) : b[i] = s[k + i]
    <2>1. \A i \in (k + 1)..Len(s) : s[i] \in V
        BY <1>1
    <2>2. /\ b \in Seq(V)
          /\ Len(b) = IF k + 1 <= Len(s) THEN Len(s) - (k + 1) + 1 ELSE 0
          /\ \A i \in 1..(Len(s) - (k + 1) + 1) : b[i] = s[(k + 1) + i - 1]
        BY <1>1, <2>1, SubSeqProperties
    <2> HIDE DEF b
    <2>3. Len(b) = Len(s) - k
        <3>1. CASE k = Len(s)
            BY <1>1, <2>2, <3>1
        <3>2. CASE k < Len(s)
            <4>1. k + 1 <= Len(s) /\ Len(s) - (k + 1) + 1 = Len(s) - k
                BY <1>1, <3>2
            <4> QED
                BY <2>2, <4>1
        <3>3. \A x, y \in Nat : x <= y => x = y \/ x < y
            OBVIOUS
        <3> QED
            BY <1>1, <3>1, <3>2, <3>3
    <2>4. DOMAIN b = 1..(Len(s) - k)
        BY <2>2, <2>3
    <2>5. Len(s) - (k + 1) + 1 = Len(s) - k
        BY <1>1
    <2>6. ASSUME NEW i \in 1..(Len(s) - k)
          PROVE  b[i] = s[k + i]
        <3>1. (k + 1) + i - 1 = k + i
            BY <1>1
        <3> QED
            BY <2>2, <2>5, <3>1
    <2> QED
        BY <2>2, <2>3, <2>4, <2>6
<1> HIDE DEF a, b
<1>4. Range(a) = {s[i] : i \in 1..k}
    BY <1>2 DEF Range
<1>5. Range(b) = {s[i] : i \in (k + 1)..Len(s)}
    <2>1. \A i \in 1..(Len(s) - k) : k + i \in (k + 1)..Len(s)
        BY <1>1
    <2>2. \A i \in (k + 1)..Len(s) : i - k \in 1..(Len(s) - k) /\ k + (i - k) = i
        BY <1>1
    <2>3. \A i \in (k + 1)..Len(s) : b[i - k] = s[i]
        BY <1>3, <2>2
    <2> QED
        BY <1>3, <2>1, <2>2, <2>3 DEF Range
<1>6. Range(a) \cup Range(b) = Range(s)
    <2>1. 1..Len(s) = (1..k) \cup ((k + 1)..Len(s))
        BY <1>1
    <2> QED
        BY <1>1, <1>4, <1>5, <2>1 DEF Range
<1>7. ASSUME IsInjective(s)
      PROVE  /\ IsInjective(a) /\ IsInjective(b)
             /\ Range(a) \cap Range(b) = {}
    <2>1. IsInjective(a)
        BY <1>1, <1>2, <1>7 DEF IsInjective
    <2>2. IsInjective(b)
        <3> SUFFICES ASSUME NEW i \in DOMAIN b, NEW j \in DOMAIN b, b[i] = b[j]
                     PROVE  i = j
            BY DEF IsInjective
        <3>1. k + i \in DOMAIN s /\ k + j \in DOMAIN s /\ s[k + i] = s[k + j]
            BY <1>1, <1>3
        <3>2. k + i = k + j
            BY <1>7, <3>1 DEF IsInjective
        <3> QED
            BY <1>1, <1>3, <3>2
    <2>3. \A i \in 1..k, j \in (k + 1)..Len(s) : s[i] # s[j]
        BY <1>1, <1>7 DEF IsInjective
    <2> QED
        BY <1>4, <1>5, <2>1, <2>2, <2>3
<1> QED
    BY <1>2, <1>3, <1>6, <1>7 DEF a, b

-----------------------------------------------------------------------------
(* What a Byzantine fault does to a list of peers *)

\* What is kept and what is cut off make up the list.
LEMMA KeptAndCutOff ==
    ASSUME NEW V, NEW all \in Seq(V), IsInjective(all),
           NEW list, list \in Seq(Range(list))
    PROVE  /\ Kept(all, list) \in Seq(V) /\ IsInjective(Kept(all, list))
           /\ CutOff(all, list) \in Seq(Range(all))
           /\ Range(Kept(all, list)) \cup Range(CutOff(all, list)) = Range(all)
           /\ Range(Kept(all, list)) \cap Range(CutOff(all, list)) = {}
           /\ IsInjective(list) => IsInjective(CutOff(all, list))
<1>1. all \in Seq(Range(all)) /\ Range(all) \subseteq V
    <2>1. DOMAIN all = 1..Len(all) /\ Len(all) \in Nat
        OBVIOUS
    <2>2. \A i \in 1..Len(all) : all[i] \in Range(all) /\ all[i] \in V
        BY <2>1 DEF Range
    <2> QED
        BY <2>1, <2>2 DEF Range
<1>2. CASE list = <<>>
    <2> DEFINE half == Len(all) \div 2
    <2>1. half \in 0..Len(all)
        <3>1. Len(all) \in Nat
            OBVIOUS
        <3> HIDE DEF half
        <3> QED
            BY <3>1 DEF half
    <2> HIDE DEF half
    <2>2. Kept(all, list) = SubSeq(all, 1, half)
        BY <1>2 DEF Kept, half
    <2>3. CutOff(all, list) = SubSeq(all, half + 1, Len(all))
        BY <1>2 DEF CutOff, half
    <2>4. Kept(all, list) \in Seq(V)
        BY <2>1, <2>2, SplitMembers
    <2> QED
        BY <1>1, <2>1, <2>2, <2>3, <2>4, SplitMembers
<1>3. CASE list # <<>>
    <2> DEFINE chosen == Chosen(all, list)
               rest == Range(all) \ Range(chosen)
    <2>1. Kept(all, list) = Only(all, rest) /\ CutOff(all, list) = chosen
        BY <1>3 DEF Kept, CutOff
    <2>2. /\ chosen \in Seq(Range(list))
          /\ Range(chosen) = Range(list) \cap Range(all)
          /\ IsInjective(list) => IsInjective(chosen)
        BY OnlyKeeps DEF Chosen
    <2> HIDE DEF chosen
    <2>3. chosen \in Seq(Range(all))
        <3>1. DOMAIN chosen = 1..Len(chosen) /\ Len(chosen) \in Nat
            BY <2>2
        <3>2. \A i \in 1..Len(chosen) : chosen[i] \in Range(all)
            BY <2>2, <3>1 DEF Range
        <3>3. chosen = [i \in 1..Len(chosen) |-> chosen[i]]
            BY <2>2
        <3> QED
            BY <3>1, <3>2, <3>3
    <2>4. /\ Only(all, rest) \in Seq(V) /\ IsInjective(Only(all, rest))
          /\ Range(Only(all, rest)) = Range(all) \cap rest
        BY OnlyKeeps
    <2> QED
        BY <2>1, <2>2, <2>3, <2>4
<1> QED
    BY <1>2, <1>3

\* How many are taken back, and what is left cut off.
LEMMA TakenAndStillCut ==
    ASSUME NEW V, NEW all \in Seq(V), IsInjective(all),
           NEW list, list \in Seq(Range(list))
    PROVE  LET cut == CutOff(all, list)
               taken == TakenBack(all, list)
               still == StillCut(all, list)
           IN  /\ taken \in Seq(Range(all)) /\ still \in Seq(Range(all))
               /\ Range(taken) \cup Range(still) = Range(cut)
               /\ IsInjective(cut) => /\ IsInjective(taken)
                                      /\ Range(taken) \cap Range(still) = {}
               /\ \/ Len(Kept(all, list)) + Len(taken) >= Required(all)
                  \/ Len(taken) = Len(cut)
<1> DEFINE cut == CutOff(all, list)
           n == Shortfall(all, list)
           kept == Len(Kept(all, list))
           k == IF n < Len(cut) THEN n ELSE Len(cut)
<1>1. cut \in Seq(Range(all)) /\ Len(cut) \in Nat /\ kept \in Nat
    BY KeptAndCutOff
<1>2. Required(all) \in Int
    <2>1. Len(all) \in Nat
        OBVIOUS
    <2> QED
        BY <2>1 DEF Required, MaxFaulty
<1>3. n = IF kept < Required(all) THEN Required(all) - kept ELSE 0
    BY DEF Shortfall
<1>4. TakenBack(all, list) = SubSeq(cut, 1, k)
    BY DEF TakenBack
<1>5. StillCut(all, list) = SubSeq(cut, n + 1, Len(cut))
    BY DEF StillCut
<1> HIDE DEF cut, n, kept
<1>6. n \in Nat /\ k \in 0..Len(cut)
    BY <1>1, <1>2, <1>3
<1>7. StillCut(all, list) = SubSeq(cut, k + 1, Len(cut))
    <2>1. CASE n < Len(cut)
        BY <1>5, <2>1
    <2>2. CASE ~(n < Len(cut))
        <3>1. SubSeq(cut, n + 1, Len(cut)) = <<>>
            BY <1>1, <1>6, <2>2, SubSeqEmpty
        <3>2. SubSeq(cut, k + 1, Len(cut)) = <<>>
            BY <1>1, <1>6, <2>2, SubSeqEmpty
        <3> QED
            BY <1>5, <3>1, <3>2
    <2> QED
        BY <2>1, <2>2
<1>8. kept + k >= Required(all) \/ k = Len(cut)
    BY <1>1, <1>2, <1>3, <1>6
<1> HIDE DEF k
<1>9. Len(TakenBack(all, list)) = k
    BY <1>1, <1>4, <1>6, SplitMembers
<1> QED
    BY <1>1, <1>4, <1>6, <1>7, <1>8, <1>9, SplitMembers DEF cut, kept

\* A Byzantine fault loses no peer; unless a target is named twice, none is both
\* active and cut off, and f + 1 stay active.
LEMMA FaultSplits ==
    ASSUME NEW V, NEW all \in Seq(V), IsInjective(all),
           NEW list, list \in Seq(Range(list))
    PROVE  LET active == Kept(all, list) \o TakenBack(all, list)
               still == StillCut(all, list)
           IN  /\ active \in Seq(Range(all)) /\ still \in Seq(Range(all))
               /\ Range(active) \cup Range(still) = Range(all)
               /\ IsInjective(list) =>
                    /\ Range(active) \cap Range(still) = {}
                    /\ Cardinality(Range(active)) >= MaxFaulty(Len(all)) + 1
<1> DEFINE kept == Kept(all, list)
           cut == CutOff(all, list)
           taken == TakenBack(all, list)
           still == StillCut(all, list)
<1>1. /\ kept \in Seq(V) /\ IsInjective(kept)
      /\ cut \in Seq(Range(all))
      /\ Range(kept) \cup Range(cut) = Range(all)
      /\ Range(kept) \cap Range(cut) = {}
      /\ IsInjective(list) => IsInjective(cut)
    BY KeptAndCutOff
<1>2. /\ taken \in Seq(Range(all)) /\ still \in Seq(Range(all))
      /\ Range(taken) \cup Range(still) = Range(cut)
      /\ IsInjective(cut) => /\ IsInjective(taken)
                             /\ Range(taken) \cap Range(still) = {}
      /\ Len(kept) + Len(taken) >= Required(all) \/ Len(taken) = Len(cut)
    BY TakenAndStillCut
<1> HIDE DEF kept, cut, taken, still
<1>3. all \in Seq(Range(all)) /\ kept \in Seq(Range(all))
    <2>1. \A s \in Seq(V) : Range(s) \subseteq Range(all) => s \in Seq(Range(all))
        <3> SUFFICES ASSUME NEW s \in Seq(V), Range(s) \subseteq Range(all)
                     PROVE  s \in Seq(Range(all))
            OBVIOUS
        <3>1. DOMAIN s = 1..Len(s) /\ Len(s) \in Nat /\ s = [i \in 1..Len(s) |-> s[i]]
            OBVIOUS
        <3>2. \A i \in 1..Len(s) : s[i] \in Range(all)
            BY <3>1 DEF Range
        <3> QED
            BY <3>1, <3>2
    <2> QED
        BY <1>1, <2>1
<1>4. /\ kept \o taken \in Seq(Range(all))
      /\ Range(kept \o taken) = Range(kept) \cup Range(taken)
      /\ Len(kept \o taken) = Len(kept) + Len(taken)
    BY <1>2, <1>3, ConcatMembers
<1>5. ASSUME IsInjective(list)
      PROVE  /\ Range(kept \o taken) \cap Range(still) = {}
             /\ Cardinality(Range(kept \o taken)) >= MaxFaulty(Len(all)) + 1
    <2>1. Range(kept) \cap Range(taken) = {}
        BY <1>1, <1>2
    <2>2. IsInjective(kept \o taken)
        BY <1>1, <1>2, <1>3, <1>5, <2>1, ConcatMembers
    <2>3. Cardinality(Range(kept \o taken)) = Len(kept) + Len(taken)
        BY <1>4, <2>2, InjectiveCount
    <2>4. Len(kept) + Len(cut) = Len(all)
        <3>1. /\ kept \o cut \in Seq(Range(all)) /\ IsInjective(kept \o cut)
              /\ Range(kept \o cut) = Range(all)
              /\ Len(kept \o cut) = Len(kept) + Len(cut)
            <4>1. IsInjective(cut)
                BY <1>1, <1>5
            <4>2. /\ kept \o cut \in Seq(Range(all))
                  /\ Len(kept \o cut) = Len(kept) + Len(cut)
                  /\ Range(kept \o cut) = Range(kept) \cup Range(cut)
                BY <1>1, <1>3, ConcatMembers
            <4>3. IsInjective(kept \o cut)
                BY <1>1, <1>3, <4>1, ConcatMembers
            <4> QED
                BY <1>1, <4>2, <4>3
        <3>2. Cardinality(Range(all)) = Len(all)
            BY InjectiveCount
        <3> QED
            BY <3>1, <3>2, InjectiveCount
    <2>5. Len(kept) \in Nat /\ Len(taken) \in Nat /\ Len(cut) \in Nat /\ Len(all) \in Nat
        BY <1>1, <1>2
    <2>6. Required(all) = MaxFaulty(Len(all)) + 1 /\ Required(all) <= Len(all)
        BY <2>5 DEF Required, MaxFaulty
    <2>7. MaxFaulty(Len(all)) \in Int
        BY <2>5 DEF MaxFaulty
    <2>8. Len(kept) + Len(taken) >= MaxFaulty(Len(all)) + 1
        BY <1>2, <2>4, <2>5, <2>6, <2>7
    <2> QED
        BY <1>1, <1>2, <1>4, <1>5, <2>3, <2>8
<1> QED
    BY <1>1, <1>2, <1>4, <1>5 DEF kept, cut, taken, still

-----------------------------------------------------------------------------
(* Faults are undone *)

SavedIsFull == original = <<>> \/ original = <<Cluster>>
UncutUntilSaved == original = <<>> => mode = "NONE" /\ peers = Cluster

PeersInv == FullUnlessByzantine /\ SavedIsFull /\ UncutUntilSaved

\* What a fault works on and a reset restores is the full list.
LEMMA SavedFull ==
    ASSUME SavedIsFull, UncutUntilSaved
    PROVE  Saved = Cluster
<1>1. CASE original = <<>>
    BY <1>1 DEF Saved, UncutUntilSaved
<1>2. CASE original = <<Cluster>>
    <2>1. original # <<>> /\ original[1] = Cluster
        BY <1>2
    <2> QED
        BY <2>1 DEF Saved
<1> QED
    BY <1>1, <1>2 DEF SavedIsFull

\* A node starts with the full list and nothing saved.
LEMMA PeersInvInit == Init => PeersInv
BY DEF Init, PeersInv, FullUnlessByzantine, SavedIsFull, UncutUntilSaved, Byzantine

\* Every fault, reset, restart and request keeps the invariant.
LEMMA PeersInvStep == PeersInv /\ [Next]_vars => PeersInv'
<1> SUFFICES ASSUME PeersInv, [Next]_vars PROVE PeersInv'
    OBVIOUS
<1> USE DEF PeersInv, FullUnlessByzantine, SavedIsFull, UncutUntilSaved, Byzantine
<1>1. ASSUME NEW m \in Mode, NEW list \in TargetLists, SetFault(m, list)
      PROVE  PeersInv'
    <2>1. original' = <<Cluster>> /\ mode' = m
        BY <1>1, SavedFull DEF SetFault
    <2>2. original' # <<>>
        BY <2>1
    <2>3. m # Byzantine => peers' = Cluster /\ drop' = <<>>
        BY <1>1, SavedFull DEF SetFault, NoDrop
    <2> QED
        BY <2>1, <2>2, <2>3
<1>2. CASE Reset
    <2>1. peers' = Cluster /\ drop' = <<>>
        BY <1>2, SavedFull DEF Reset, NoDrop
    <2> QED
        BY <1>2, <2>1 DEF Reset
<1>3. CASE Restart
    BY <1>3 DEF Restart
<1>4. ASSUME \/ \E path \in {"pre-prepare", "prepare", "other"} : Arrive(path)
             \/ \E r \in Request, accepted \in BOOLEAN : Respond(r, accepted)
             \/ \E f \in Forgery : PostForged(f)
             \/ UNCHANGED vars
      PROVE  PeersInv'
    <2>1. UNCHANGED config
        BY <1>4 DEF Arrive, Respond, PostForged, vars, config
    <2> QED
        BY <2>1 DEF config
<1> QED
    BY <1>1, <1>2, <1>3, <1>4 DEF Next

\* Without a Byzantine fault a node has all its peers and cuts none off, for
\* every cluster and every history of faults, resets and restarts (chaos.py
\* 39-63, 95-103).
THEOREM FaultsAreUndone == Spec => []FullUnlessByzantine
<1>1. PeersInv => FullUnlessByzantine
    BY DEF PeersInv
<1> QED
    BY PeersInvInit, PeersInvStep, <1>1, PTL DEF Spec

-----------------------------------------------------------------------------
(* The peer lists of a Byzantine node *)

ByzantineSplits ==
    mode = Byzantine =>
        /\ peers = Kept(Cluster, targets) \o TakenBack(Cluster, targets)
        /\ drop = StillCut(Cluster, targets)

FaultInv == TypeOK /\ PeersInv /\ ByzantineSplits

\* The lists a node can have are lists.
LEMMA TargetsListed ==
    ASSUME NEW list \in TargetLists \cup {<<>>}
    PROVE  list \in Seq(Range(list))
<1>1. <<>> \in Seq(Range(<<>>))
    OBVIOUS
<1> QED
    BY <1>1, ClusterAssumption

\* What a fault makes of the full list.
LEMMA ClusterSplits ==
    ASSUME NEW list \in TargetLists \cup {<<>>}
    PROVE  LET active == Kept(Cluster, list) \o TakenBack(Cluster, list)
               still == StillCut(Cluster, list)
           IN  /\ active \in Seq(Range(Cluster)) /\ still \in Seq(Range(Cluster))
               /\ Range(active) \cup Range(still) = Range(Cluster)
               /\ IsInjective(list) =>
                    /\ Range(active) \cap Range(still) = {}
                    /\ Cardinality(Range(active)) >= MaxFaulty(Len(Cluster)) + 1
BY TargetsListed, FaultSplits, ClusterAssumption

\* The number of places of a list that hold a value.
LEMMA OccurrencesCounted ==
    ASSUME NEW V, NEW s \in Seq(V), NEW x
    PROVE  /\ Cardinality({i \in DOMAIN s : s[i] = x}) \in Nat
           /\ Cardinality({i \in DOMAIN s : s[i] = x}) # 0 => x \in Range(s)
<1> DEFINE P == {i \in DOMAIN s : s[i] = x}
<1>1. P \subseteq 1..Len(s) /\ Len(s) \in Nat
    OBVIOUS
<1>2. IsFiniteSet(1..Len(s))
    BY <1>1, FS_Interval
<1>3. IsFiniteSet(P)
    BY <1>1, <1>2, FS_Subset
<1>4. P # {} => x \in Range(s)
    BY DEF Range
<1> HIDE DEF P
<1>5. Cardinality(P) \in Nat /\ (P = {} => Cardinality(P) = 0)
    BY <1>3, FS_CardinalityType, FS_EmptySet
<1> QED
    BY <1>4, <1>5 DEF P

\* A node starts with the full list and no requests.
LEMMA FaultInvInit == Init => FaultInv
<1> SUFFICES ASSUME Init PROVE FaultInv
    OBVIOUS
<1>1. PeersInv
    BY PeersInvInit
<1>2. TypeOK
    <2>1. <<>> \in Seq(Range(Cluster))
        OBVIOUS
    <2>2. "NONE" \in Mode
        BY DEF Mode
    <2> QED
        BY <2>1, <2>2, ClusterAssumption DEF Init, TypeOK
<1>3. ByzantineSplits
    BY DEF Init, ByzantineSplits, Byzantine
<1> QED
    BY <1>1, <1>2, <1>3 DEF FaultInv

\* Every fault, reset, restart and request keeps the lists as a fault leaves them.
LEMMA FaultInvStep == FaultInv /\ [Next]_vars => FaultInv'
<1> SUFFICES ASSUME FaultInv, [Next]_vars PROVE FaultInv'
    OBVIOUS
<1>0. TypeOK /\ PeersInv /\ ByzantineSplits /\ PeersInv'
    BY PeersInvStep DEF FaultInv
<1>1. ASSUME NEW m \in Mode, NEW list \in TargetLists, SetFault(m, list)
      PROVE  TypeOK' /\ ByzantineSplits'
    <2>1. Saved = Cluster
        BY <1>0, SavedFull DEF PeersInv
    <2>2. /\ mode' = m
          /\ original' = <<Cluster>>
          /\ targets' = IF m = "NONE" THEN <<>> ELSE list
          /\ m = Byzantine => /\ peers' = Kept(Cluster, list) \o TakenBack(Cluster, list)
                              /\ drop' = StillCut(Cluster, list)
          /\ m # Byzantine => peers' = Cluster /\ drop' = <<>>
          /\ changes' = changes + 1 /\ UNCHANGED <<inflight, forging, arrivals>>
        BY <1>1, <2>1 DEF SetFault, Changed, NoDrop
    <2>3. peers' \in Seq(Range(Cluster)) /\ drop' \in Seq(Range(Cluster))
        <3>1. CASE m = Byzantine
            BY <2>2, <3>1, ClusterSplits
        <3>2. CASE m # Byzantine
            <4>1. <<>> \in Seq(Range(Cluster))
                OBVIOUS
            <4> QED
                BY <2>2, <3>2, <4>1, ClusterAssumption
        <3> QED
            BY <3>1, <3>2
    <2>4. original' \in [{1} -> Seq(Range(Cluster))]
        BY <2>2, ClusterAssumption
    <2>5. targets' \in TargetLists \cup {<<>>}
        BY <2>2
    <2>6. TypeOK'
        BY <1>0, <2>2, <2>3, <2>4, <2>5 DEF TypeOK
    <2>7. ByzantineSplits'
        <3>1. Byzantine # "NONE"
            BY DEF Byzantine
        <3> QED
            BY <2>2, <3>1 DEF ByzantineSplits
    <2> QED
        BY <2>6, <2>7
<1>2. ASSUME \/ Reset
             \/ Restart
      PROVE  TypeOK' /\ ByzantineSplits'
    <2>1. /\ mode' = "NONE" /\ targets' = <<>>
          /\ peers' = Cluster /\ drop' = <<>>
          /\ changes' = changes + 1 /\ arrivals' = arrivals
          /\ original' = original \/ original' = <<>>
          /\ \/ inflight' = inflight /\ forging' = forging
             \/ /\ inflight' = [r \in Request |-> 0]
                /\ forging' = [f \in Forgery |-> 0]
        BY <1>0, <1>2, SavedFull DEF PeersInv, Reset, Restart, Changed, NoDrop
    <2>2. <<>> \in Seq(Range(Cluster)) /\ "NONE" \in Mode
        BY DEF Mode
    <2>3. TypeOK'
        BY <1>0, <2>1, <2>2, ClusterAssumption DEF TypeOK
    <2>4. ByzantineSplits'
        BY <2>1 DEF ByzantineSplits, Byzantine
    <2> QED
        BY <2>3, <2>4
<1>3. ASSUME NEW path \in {"pre-prepare", "prepare", "other"}, Arrive(path)
      PROVE  TypeOK' /\ ByzantineSplits'
    <2>1. UNCHANGED <<config, forging, changes>> /\ arrivals' = arrivals + 1
        BY <1>3 DEF Arrive
    <2>2. inflight' \in [Request -> Nat]
        <3> DEFINE r == [seen |-> mode, path |-> path]
        <3>1. r \in Request
            BY <1>0, <1>3 DEF Arrive, TypeOK, Request
        <3>2. inflight' = [inflight EXCEPT ![r] = @ + 1]
            BY <1>3 DEF Arrive
        <3> HIDE DEF r
        <3> QED
            BY <1>0, <3>1, <3>2 DEF TypeOK
    <2> QED
        BY <1>0, <2>1, <2>2 DEF TypeOK, config, ByzantineSplits
<1>4. ASSUME NEW r \in Request, NEW accepted \in BOOLEAN, Respond(r, accepted)
      PROVE  TypeOK' /\ ByzantineSplits'
    <2>1. UNCHANGED <<config, arrivals, changes>>
        BY <1>4 DEF Respond
    <2>2. inflight' \in [Request -> Nat]
        <3>1. inflight[r] \in Nat /\ inflight[r] > 0 /\ inflight' = [inflight EXCEPT ![r] = @ - 1]
            BY <1>0, <1>4 DEF Respond, TypeOK
        <3>2. inflight[r] - 1 \in Nat
            BY <3>1
        <3> QED
            BY <1>0, <3>1, <3>2 DEF TypeOK
    <2>3. forging' \in [Forgery -> Nat]
        <3>1. CASE ~Forges(r, accepted)
            BY <1>0, <1>4, <3>1 DEF Respond, TypeOK
        <3>2. CASE Forges(r, accepted)
            <4> DEFINE places(f) == Cardinality({i \in DOMAIN drop : drop[i] = f.to})
            <4>1. \A f \in Forgery : places(f) \in Nat
                BY <1>0, OccurrencesCounted DEF TypeOK
            <4>2. forging' = [f \in Forgery |->
                                IF f.phase = PhaseAfter(r.path)
                                THEN forging[f] + places(f) ELSE forging[f]]
                BY <1>4, <3>2 DEF Respond
            <4> HIDE DEF places
            <4> QED
                BY <1>0, <4>1, <4>2 DEF TypeOK
        <3> QED
            BY <3>1, <3>2
    <2> QED
        BY <1>0, <2>1, <2>2, <2>3 DEF TypeOK, config, ByzantineSplits
<1>5. ASSUME NEW f \in Forgery, PostForged(f)
      PROVE  TypeOK' /\ ByzantineSplits'
    <2>1. UNCHANGED <<config, inflight, arrivals, changes>>
        BY <1>5 DEF PostForged
    <2>2. forging[f] \in Nat /\ forging[f] > 0 /\ forging' = [forging EXCEPT ![f] = @ - 1]
        BY <1>0, <1>5 DEF PostForged, TypeOK
    <2>3. forging[f] - 1 \in Nat
        BY <2>2
    <2>4. forging' \in [Forgery -> Nat]
        BY <1>0, <2>2, <2>3 DEF TypeOK
    <2> QED
        BY <1>0, <2>1, <2>4 DEF TypeOK, config, ByzantineSplits
<1>6. ASSUME UNCHANGED vars
      PROVE  TypeOK' /\ ByzantineSplits'
    BY <1>0, <1>6 DEF vars, TypeOK, ByzantineSplits
<1> QED
    BY <1>0, <1>1, <1>2, <1>3, <1>4, <1>5, <1>6 DEF Next, FaultInv

\* The lists of a node, whatever its mode, and what they promise.
LEMMA ListsSplit ==
    ASSUME FaultInv
    PROVE  Partitioned /\ EnoughPeers
<1>1. /\ targets \in TargetLists \cup {<<>>}
      /\ mode # Byzantine => peers = Cluster /\ drop = <<>>
      /\ mode = Byzantine => /\ peers = Kept(Cluster, targets) \o TakenBack(Cluster, targets)
                             /\ drop = StillCut(Cluster, targets)
    BY DEF FaultInv, TypeOK, PeersInv, FullUnlessByzantine, ByzantineSplits
<1>2. CASE mode = Byzantine
    BY <1>1, <1>2, ClusterSplits DEF Partitioned, EnoughPeers
<1>3. CASE mode # Byzantine
    <2>1. Range(<<>>) = {}
        BY DEF Range
    <2>2. Cardinality(Range(Cluster)) = Len(Cluster)
        BY ClusterAssumption, InjectiveCount
    <2>3. Len(Cluster) \in Nat
        BY ClusterAssumption
    <2>4. Len(Cluster) >= MaxFaulty(Len(Cluster)) + 1
        BY <2>3 DEF MaxFaulty
    <2> QED
        BY <1>1, <1>3, <2>1, <2>2, <2>4 DEF Partitioned, EnoughPeers
<1> QED
    BY <1>2, <1>3

\* Only an answer under a Byzantine fault schedules a forged vote.
LEMMA ForgeryStep ==
    ASSUME FaultInv, [Next]_vars,
           NEW f \in Forgery, forging'[f] > forging[f]
    PROVE  /\ mode = Byzantine
           /\ IsInjective(targets) => f.to \notin Range(peers)
<1>0. /\ forging \in [Forgery -> Nat] /\ drop \in Seq(Range(Cluster))
      /\ Partitioned /\ FullUnlessByzantine
    BY ListsSplit DEF FaultInv, TypeOK, PeersInv
<1>1. forging[f] \in Nat
    BY <1>0
<1>2. ASSUME NEW r \in Request, NEW accepted \in BOOLEAN, Respond(r, accepted)
      PROVE  /\ mode = Byzantine
             /\ IsInjective(targets) => f.to \notin Range(peers)
    <2>1. Forges(r, accepted)
        BY <1>1, <1>2 DEF Respond
    <2>2. mode = Byzantine
        BY <1>0, <2>1 DEF Forges, FullUnlessByzantine
    <2> DEFINE places == Cardinality({i \in DOMAIN drop : drop[i] = f.to})
    <2>3. forging'[f] = forging[f] \/ forging'[f] = forging[f] + places
        BY <1>2, <2>1 DEF Respond
    <2>4. places \in Nat /\ (places # 0 => f.to \in Range(drop))
        BY <1>0, OccurrencesCounted
    <2> HIDE DEF places
    <2>5. places # 0
        BY <1>1, <2>3, <2>4
    <2> QED
        BY <1>0, <2>2, <2>4, <2>5 DEF Partitioned
<1>3. ASSUME \/ \E m \in Mode, list \in TargetLists : SetFault(m, list)
             \/ Reset
             \/ \E path \in {"pre-prepare", "prepare", "other"} : Arrive(path)
             \/ UNCHANGED vars
      PROVE  FALSE
    <2>1. forging' = forging
        BY <1>3 DEF SetFault, Reset, Arrive, vars
    <2> QED
        BY <1>1, <2>1
<1>4. ASSUME NEW g \in Forgery, PostForged(g)
      PROVE  FALSE
    <2>1. forging' = [forging EXCEPT ![g] = @ - 1] /\ forging[g] \in Nat
        BY <1>0, <1>4 DEF PostForged
    <2>2. forging'[f] = forging[f] \/ forging'[f] = forging[f] - 1
        BY <1>0, <2>1
    <2> QED
        BY <1>1, <2>2
<1>5. CASE Restart
    <2>1. forging'[f] = 0
        BY <1>5 DEF Restart
    <2> QED
        BY <1>1, <2>1
<1> QED
    BY <1>2, <1>3, <1>4, <1>5 DEF Next

\* The variables keep their types: no counter goes below zero, and what is active,
\* cut off or saved is a list of peers (chaos.py 39-103, 109-155).
THEOREM FaultsTyped == Spec => []TypeOK
<1>1. FaultInv => TypeOK
    BY DEF FaultInv
<1> QED
    BY FaultInvInit, FaultInvStep, <1>1, PTL DEF Spec

\* Whatever faults follow each other, every peer is active or cut off, and none is
\* both unless a client names a target twice, for every cluster and every list of
\* targets (chaos.py 67-85).
THEOREM NoPeerLost == Spec => []Partitioned
<1>1. FaultInv => Partitioned
    BY ListsSplit
<1> QED
    BY FaultInvInit, FaultInvStep, <1>1, PTL DEF Spec

\* However many targets are named, if none twice, f + 1 peers stay active, for
\* every cluster (chaos.py 77-85).
THEOREM EnoughStayActive == Spec => []EnoughPeers
<1>1. FaultInv => EnoughPeers
    BY ListsSplit
<1> QED
    BY FaultInvInit, FaultInvStep, <1>1, PTL DEF Spec

\* A forged vote is scheduled only while the Byzantine fault is on, and never for
\* an active peer, however the fault changes while requests are being handled
\* (chaos.py 109-155).
THEOREM ForgeriesUnderFault == Spec => ForgesUnderFault
<1>1. FaultInv /\ [Next]_vars =>
        [\A f \in Forgery : forging'[f] > forging[f] =>
            /\ mode = Byzantine
            /\ IsInjective(targets) => f.to \notin Range(peers)]_vars
    BY ForgeryStep
<1> QED
    BY FaultInvInit, FaultInvStep, <1>1, PTL DEF Spec, ForgesUnderFault
==============================================================================
