----------------------------- MODULE ChaosFaults -----------------------------
(***************************************************************************)
(* Fault injection on one node (node_app/routers/chaos.py): the peer list  *)
(* that /chaos/fault cuts and /chaos/reset restores, and the middleware    *)
(* every request passes.  The middleware reads fault_mode when a request   *)
(* arrives and the drop list when it has been answered; the configuration  *)
(* may change any number of times in between.                              *)
(***************************************************************************)
EXTENDS Naturals, Sequences, FiniteSets, Functions, Quorums

CONSTANTS
    Cluster,      \* state.peers as main.py sets it: a sequence of names
    TargetLists,  \* the byzantine_targets a client passes; <<>> stands for none
    MaxRequests,  \* bound: requests that pass the middleware
    MaxChanges    \* bound: calls of /chaos/fault and /chaos/reset

ASSUME ClusterAssumption ==
    /\ Cluster \in Seq(Range(Cluster)) /\ IsInjective(Cluster)
    /\ \A t \in TargetLists : t \in Seq(Range(t))
ASSUME ChaosBounds == MaxRequests \in Nat /\ MaxChanges \in Nat

Byzantine == "MALICIOUS_BYZANTINE"
\* Any other string is stored too, and has no effect.
Mode == {"NONE", "OFFLINE", Byzantine, "UNKNOWN"}

\* A POST in flight: the mode it met and its path.  Exempt paths and other
\* methods are only passed on.
Request == [seen : Mode \ {"OFFLINE"}, path : {"pre-prepare", "prepare", "other"}]

\* A signed vote for a tx_id nobody proposed.
Forgery == [phase : {"PREPARE", "COMMIT"}, to : Range(Cluster)]

VARIABLES
    mode,      \* state.fault_mode
    targets,   \* state._fault_config's byzantine_targets
    original,  \* state._original_peers: <<>>, or <<l>> once l has been saved
    peers,     \* state.peers
    drop,      \* state._byzantine_drop
    inflight,  \* the number of requests being handled, of each kind
    forging,   \* the number of forged posts scheduled and not yet made
    arrivals, changes

config == <<mode, targets, original, peers, drop>>
vars == <<mode, targets, original, peers, drop, inflight, forging, arrivals, changes>>

TypeOK ==
    /\ mode \in Mode
    /\ targets \in TargetLists \cup {<<>>}
    /\ original = <<>> \/ original \in [{1} -> Seq(Range(Cluster))]
    /\ peers \in Seq(Range(Cluster)) /\ drop \in Seq(Range(Cluster))
    /\ inflight \in [Request -> Nat] /\ forging \in [Forgery -> Nat]
    /\ arrivals \in Nat /\ changes \in Nat

Init ==
    /\ mode = "NONE" /\ targets = <<>>
    /\ original = <<>> /\ peers = Cluster /\ drop = <<>>
    /\ inflight = [r \in Request |-> 0]
    /\ forging = [f \in Forgery |-> 0]
    /\ arrivals = 0 /\ changes = 0

-----------------------------------------------------------------------------
(* POST /chaos/fault and POST /chaos/reset *)

\* Faulty variant: the list saved anew by every call.
SavedAlways == peers

\* The full list, saved by the first /chaos/fault.
Saved == IF original = <<>> THEN peers ELSE original[1]

\* Faulty variant: targets that are no peers of this node are kept.
ChosenUnfiltered(all, list) == list

\* The members of a list that are in S, in their order.  (A SelectSeq, as a function
\* on the prefixes of the list, which proofs can go through.)
Only(list, S) ==
    LET only[i \in 0..Len(list)] ==
            IF i = 0 THEN <<>>
            ELSE IF list[i] \in S THEN Append(only[i - 1], list[i]) ELSE only[i - 1]
    IN  only[Len(list)]

\* The requested targets that are peers, in the order of the request.
Chosen(all, list) == Only(list, Range(all))

\* Without targets the second half is cut off.
Kept(all, list) ==
    IF list = <<>> THEN SubSeq(all, 1, Len(all) \div 2)
    ELSE Only(all, Range(all) \ Range(Chosen(all, list)))
CutOff(all, list) ==
    IF list = <<>> THEN SubSeq(all, (Len(all) \div 2) + 1, Len(all))
    ELSE Chosen(all, list)

\* Faulty variant: f peers for f + 1.
RequiredShort(all) == MaxFaulty(Len(all))

\* How many peers stay active at least, and how many that takes back.
Required(all) == MaxFaulty(Len(all)) + 1
Shortfall(all, list) ==
    LET kept == Len(Kept(all, list)) IN
    IF kept < Required(all) THEN Required(all) - kept ELSE 0

TakenBack(all, list) ==
    LET cut == CutOff(all, list)
        n == Shortfall(all, list)
    IN  SubSeq(cut, 1, IF n < Len(cut) THEN n ELSE Len(cut))
StillCut(all, list) ==
    LET cut == CutOff(all, list) IN
    SubSeq(cut, Shortfall(all, list) + 1, Len(cut))

\* Faulty variant: the drop list outlives the fault.
DropKept == drop

\* The drop list of a node without a Byzantine fault.
NoDrop == <<>>

Changed == changes < MaxChanges /\ changes' = changes + 1

SetFault(m, list) ==
    /\ Changed
    /\ original' = <<Saved>> /\ mode' = m
    /\ targets' = IF m = "NONE" THEN <<>> ELSE list
    /\ peers' = IF m = Byzantine
                THEN Kept(Saved, list) \o TakenBack(Saved, list) ELSE Saved
    /\ drop' = IF m = Byzantine THEN StillCut(Saved, list) ELSE NoDrop
    /\ UNCHANGED <<inflight, forging, arrivals>>

Reset ==
    /\ Changed
    /\ mode' = "NONE" /\ targets' = <<>>
    /\ peers' = Saved /\ drop' = NoDrop
    /\ UNCHANGED <<original, inflight, forging, arrivals>>

-----------------------------------------------------------------------------
(* ChaosMiddleware *)

\* A request arrives and is handed on; an offline node answers 503 instead.
Arrive(path) ==
    /\ mode # "OFFLINE"
    /\ arrivals < MaxRequests /\ arrivals' = arrivals + 1
    /\ inflight' = [inflight EXCEPT ![[seen |-> mode, path |-> path]] = @ + 1]
    /\ UNCHANGED <<config, forging, changes>>

\* A forged PREPARE follows a pre-prepare, a forged COMMIT a prepare.
PhaseAfter(path) == IF path = "pre-prepare" THEN "PREPARE" ELSE "COMMIT"

\* Whether answering r starts forged posts to the peers then cut off.
Forges(r, accepted) == /\ r.seen = Byzantine /\ r.path # "other"
                       /\ accepted /\ drop # <<>>

\* The handler has answered r, with a status of 2xx or not.
Respond(r, accepted) ==
    /\ inflight[r] > 0
    /\ inflight' = [inflight EXCEPT ![r] = @ - 1]
    /\ forging' = IF Forges(r, accepted)
                  THEN [f \in Forgery |->
                          IF f.phase = PhaseAfter(r.path)
                          THEN forging[f] + Cardinality({i \in DOMAIN drop : drop[i] = f.to})
                          ELSE forging[f]]
                  ELSE forging
    /\ UNCHANGED <<config, arrivals, changes>>

\* One of the scheduled posts is made.
PostForged(f) ==
    /\ forging[f] > 0
    /\ forging' = [forging EXCEPT ![f] = @ - 1]
    /\ UNCHANGED <<config, inflight, arrivals, changes>>

\* The node starts again, without a fault.
Restart ==
    /\ Changed
    /\ mode' = "NONE" /\ targets' = <<>>
    /\ original' = <<>> /\ peers' = Cluster /\ drop' = <<>>
    /\ inflight' = [r \in Request |-> 0]
    /\ forging' = [f \in Forgery |-> 0]
    /\ UNCHANGED arrivals

Next ==
    \/ \E m \in Mode, list \in TargetLists : SetFault(m, list)
    \/ Reset
    \/ \E path \in {"pre-prepare", "prepare", "other"} : Arrive(path)
    \/ \E r \in Request, accepted \in BOOLEAN : Respond(r, accepted)
    \/ \E f \in Forgery : PostForged(f)
    \/ Restart

Spec == Init /\ [][Next]_vars

-----------------------------------------------------------------------------
(* Properties *)

\* Whatever the history of faults, a node without a Byzantine fault has all its
\* peers again and nobody on its drop list (the copies and resets at the top of
\* set_fault and in reset_fault).
FullUnlessByzantine ==
    mode # Byzantine => peers = Cluster /\ drop = <<>>

\* A Byzantine fault loses no peer, and none is both active and cut off unless
\* the client names a target twice (set_fault 67-85).
Partitioned ==
    /\ Range(peers) \cup Range(drop) = Range(Cluster)
    /\ IsInjective(targets) => Range(peers) \cap Range(drop) = {}

\* However many targets a client names, if none twice, f + 1 peers stay active,
\* f being what that many nodes tolerate (set_fault 77-85).
EnoughPeers ==
    IsInjective(targets) =>
        Cardinality(Range(peers)) >= MaxFaulty(Len(Cluster)) + 1

\* A forged vote is scheduled only while the Byzantine fault is on, and never
\* for an active peer: a request that outlives its fault forges nothing, and
\* one that meets another fault when it is answered forges for that one (the
\* mode read before the handler, the drop list after, dispatch 109-155).
ForgesUnderFault ==
    [][\A f \in Forgery : forging'[f] > forging[f] =>
          /\ mode = Byzantine
          /\ IsInjective(targets) => f.to \notin Range(peers)]_vars
==============================================================================
