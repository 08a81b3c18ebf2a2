----------------------------- MODULE Deployment -----------------------------
(***************************************************************************)
(* orchestrate.py and the scripts that call it: `up' makes the keys of a   *)
(* cluster or takes those it finds and starts one container per node,      *)
(* `down' removes the containers and, with --clean, the keys.              *)
(* run_benchmark.py sets up a cluster, puts one node under a fault and     *)
(* calls profiler.py, whose execute_scenario sets up another one with its  *)
(* own faults.  The fault on --target is gone by then.                     *)
(*                                                                         *)
(* The keys are in two files, written and removed one after the other, and *)
(* any command can stop half-way: it is interrupted, or Docker fails.      *)
(***************************************************************************)
EXTENDS Naturals, FiniteSets

CONSTANTS
    Sizes,      \* the cluster sizes asked for
    MaxStops,   \* bound: commands that stop half-way
    MaxMade     \* bound: key pairs made

ASSUME DeploymentAssumption ==
    Sizes \subseteq Nat \ {0} /\ MaxStops \in Nat /\ MaxMade \in Nat

\* The profiler sorts names, which is the order of the numbers up to node_9; only
\* Assigned below needs it.
ASSUME NamesSortAssumption == Sizes \subseteq 1..9

Index == UNION {1..n : n \in Sizes}

\* A file holds the keys of one generation, for a number of nodes.
Missing == [made |-> 0, size |-> 0]
Torn == [made |-> 0, size |-> 1]
Held(file) == file.made > 0

\* A container: the generation of its private key, and of the public keys it read.
Absent == [key |-> 0, registry |-> 0, faulty |-> FALSE]

VARIABLES
    topology, keys,   \* topology.json and keys.json
    node,             \* the container of each index
    cmd,              \* what orchestrate.py is doing
    size,             \* its -n, or the one its script gives it
    clean,            \* its --clean
    inHand,           \* the generation sync_topology returned or is writing
    made,             \* the number of generations made
    next,             \* the node that deploy_cluster comes to
    stage,            \* where the calling script is; "shell": there is none
    outer,            \* run_benchmark.py is the script, and not profiler.py alone
    mode,             \* the scenario's mode: NONE, or FAULT for OFFLINE and
                      \* MALICIOUS_BYZANTINE, which set and clear alike
    faults,           \* the scenario's fault count
    serving,          \* the size of the cluster if the last command was an `up'
                      \* that went through, else 0
    stops             \* history: commands that stopped half-way

files == <<topology, keys>>
scenario == <<outer, mode, faults>>
script == <<stage, outer, mode, faults>>
orders == <<size, clean, inHand, made, next>>
vars == <<topology, keys, node, cmd, size, clean, inHand, made, next, stage, outer,
          mode, faults, serving, stops>>

Init ==
    /\ topology = Missing /\ keys = Missing
    /\ node = [i \in Index |-> Absent]
    /\ cmd = "none" /\ size \in Sizes /\ clean = FALSE
    /\ inHand = 0 /\ made = 0 /\ next = 1
    /\ stage = "shell" /\ outer = FALSE /\ mode = "NONE" /\ faults = 0
    /\ serving = 0 /\ stops = 0

-----------------------------------------------------------------------------
(* The scripts *)

\* main of run_benchmark.py, and from "down_2" on execute_scenario of profiler.py.
Following(st) ==
    CASE st = "down_1" -> "up_1"
      [] st = "up_1"   -> "inject"
      [] st = "inject" -> "down_2"
      [] st = "down_2" -> "up_2"
      [] st = "up_2"   -> "fault"
      [] st = "fault"  -> "batches"
      [] st = "batches" -> "clear"
      [] st = "clear"  -> "down_3"
      [] st \in {"down_3", "rescue"} /\ outer -> "down_4"
      [] OTHER -> "shell"

\* The exception handlers: main of profiler.py takes the cluster down whatever step
\* of the scenario failed, its last teardown included, and run_benchmark does so in
\* its finally clause, where a failure is swallowed.
Handler(st) ==
    CASE st \in {"down_2", "up_2", "fault", "batches", "clear", "down_3"} -> "rescue"
      [] st \in {"down_1", "up_1", "inject"} -> "down_4"
      [] st = "rescue" /\ outer -> "down_4"
      [] OTHER -> "shell"

Downs == {"down_1", "down_2", "down_3", "rescue", "down_4"}

\* orchestrate.py is called, from the shell or by a script.
Call ==
    /\ cmd = "none"
    /\ \/ /\ stage = "shell" /\ cmd' \in {"sync", "purge"}
          /\ size' \in Sizes /\ clean' \in BOOLEAN
       \/ stage \in Downs /\ cmd' = "purge" /\ clean' = TRUE /\ UNCHANGED size
       \/ stage \in {"up_1", "up_2"} /\ cmd' = "sync" /\ UNCHANGED <<size, clean>>
    /\ serving' = 0
    /\ UNCHANGED <<files, node, inHand, made, next, script, stops>>

\* A benchmark is started, with a fault, or a scenario by itself with any mode and
\* fault count.
Benchmark ==
    /\ cmd = "none" /\ stage = "shell"
    /\ size' \in Sizes
    /\ \/ stage' = "down_1" /\ outer' = TRUE /\ mode' = "FAULT" /\ faults' = 1
       \/ /\ stage' = "down_2" /\ outer' = FALSE
          /\ mode' \in {"NONE", "FAULT"} /\ faults' \in 0..size'
    /\ UNCHANGED <<files, node, cmd, clean, inHand, made, next, serving, stops>>

\* The nodes that a scenario assigns a fault, the first ones but node_1, and those
\* it sends one to: none in mode NONE.
Assigned == {i \in 2..size : i <= faults + 1}
UnderFault == IF mode = "NONE" THEN {} ELSE Assigned

WithFault(nodes, faulty) ==
    [i \in Index |-> IF i \in nodes THEN [node[i] EXCEPT !.faulty = faulty] ELSE node[i]]

\* A script acts on the cluster: run_benchmark faults its --target, any node, the
\* profiler the nodes it has assigned.
Act ==
    /\ cmd = "none" /\ stage' = Following(stage)
    /\ \/ stage = "inject" /\ \E t \in 1..size : node' = WithFault({t}, TRUE)
       \/ stage = "fault" /\ node' = WithFault(UnderFault, TRUE)
       \/ stage = "batches" /\ UNCHANGED node
       \/ stage = "clear" /\ node' = WithFault(UnderFault, FALSE)
    /\ UNCHANGED <<files, cmd, orders, scenario, serving, stops>>

\* A node does not answer: an exception.  Nodes are told one after the other, and
\* the one that does not answer may have been told.
ActFails ==
    /\ cmd = "none" /\ stage' = Handler(stage)
    /\ \/ stage \in {"inject", "batches"} /\ UNCHANGED node
       \/ stage = "inject" /\ \E t \in 1..size : node' = WithFault({t}, TRUE)
       \/ /\ stage \in {"fault", "clear"}
          /\ \E k \in 0..size :
                node' = WithFault({i \in UnderFault : i <= k}, stage = "fault")
    /\ UNCHANGED <<files, cmd, orders, scenario, serving, stops>>

-----------------------------------------------------------------------------
(* orchestrate.py *)

Finish(cluster) == cmd' = "none" /\ serving' = cluster /\ stage' = Following(stage)

\* Faulty variant: only topology.json is counted.
ReusableUncounted(n) == Held(topology) /\ Held(keys) /\ topology.size = n

\* Both files are there and are for this number of nodes.
Reusable(n) == /\ Held(topology) /\ Held(keys)
               /\ topology.size = n /\ keys.size = n

Unreadable == Torn \in {topology, keys} /\ Missing \notin {topology, keys}

\* sync_topology: keys are taken or made.
Sync ==
    /\ cmd = "sync" /\ ~Unreadable
    /\ IF Reusable(size)
       THEN cmd' = "deploy" /\ inHand' = keys.made /\ UNCHANGED made
       ELSE /\ cmd' = "write_topology" /\ made < MaxMade
            /\ made' = made + 1 /\ inHand' = made + 1
    /\ next' = 1
    /\ UNCHANGED <<files, node, size, clean, script, serving, stops>>

\* sync_topology raises: both files are there and one is not JSON.
SyncRaises ==
    /\ cmd = "sync" /\ Unreadable
    /\ cmd' = "none" /\ stage' = Handler(stage)
    /\ UNCHANGED <<files, node, orders, scenario, serving, stops>>

WriteTopology ==
    /\ cmd = "write_topology" /\ cmd' = "write_keys"
    /\ topology' = [made |-> inHand, size |-> size]
    /\ UNCHANGED <<keys, node, orders, script, serving, stops>>

WriteKeys ==
    /\ cmd = "write_keys" /\ cmd' = "deploy"
    /\ keys' = [made |-> inHand, size |-> size]
    /\ UNCHANGED <<topology, node, orders, script, serving, stops>>

\* deploy_cluster, one node: a container of its name goes first.  The key is given
\* to it, topology.json it reads itself.
Deploy ==
    /\ cmd = "deploy" /\ next' = next + 1
    /\ node' = [node EXCEPT ![next] =
           [key |-> inHand, registry |-> topology.made, faulty |-> FALSE]]
    /\ IF next = size THEN Finish(size) ELSE UNCHANGED <<cmd, serving, stage>>
    /\ UNCHANGED <<files, size, clean, inHand, made, scenario, stops>>

\* Faulty variant: only the nodes that topology.json names.
PurgedOfTopology == [i \in Index |-> IF i <= topology.size THEN Absent ELSE node[i]]

\* purge_environment: whatever is called node_...
Purged == [i \in Index |-> Absent]

Purge ==
    /\ cmd = "purge" /\ node' = Purged
    /\ IF clean THEN cmd' = "drop_topology" /\ UNCHANGED <<serving, stage>> ELSE Finish(0)
    /\ UNCHANGED <<files, orders, scenario, stops>>

DropTopology ==
    /\ cmd = "drop_topology" /\ cmd' = "drop_keys" /\ topology' = Missing
    /\ UNCHANGED <<keys, node, orders, script, serving, stops>>

DropKeys ==
    /\ cmd = "drop_keys" /\ keys' = Missing /\ Finish(0)
    /\ UNCHANGED <<topology, node, orders, scenario, stops>>

\* A command stops where it is, in the middle of a write perhaps.  Its script runs
\* its exception handlers, unless it is stopped as well.
Stop ==
    /\ cmd # "none" /\ stops < MaxStops
    /\ topology' \in {topology} \cup IF cmd = "write_topology" THEN {Torn} ELSE {}
    /\ keys' \in {keys} \cup IF cmd = "write_keys" THEN {Torn} ELSE {}
    /\ node' \in {node} \cup IF cmd = "purge"
                             THEN {[i \in Index |-> IF i \in gone THEN Absent ELSE node[i]] :
                                   gone \in SUBSET Index}
                             ELSE {}
    /\ cmd' = "none" /\ stops' = stops + 1
    /\ stage' \in {Handler(stage), "shell"} \cup IF outer THEN {"down_4"} ELSE {}
    /\ UNCHANGED <<orders, scenario, serving>>

Next == \/ Call \/ Benchmark \/ Act \/ ActFails
        \/ Sync \/ SyncRaises \/ WriteTopology \/ WriteKeys \/ Deploy
        \/ Purge \/ DropTopology \/ DropKeys \/ Stop

Spec == Init /\ [][Next]_vars

-----------------------------------------------------------------------------
(* Properties *)

\* Files, containers and counters are what they should be.
TypeOK ==
    /\ topology \in [made : Nat, size : Nat] /\ keys \in [made : Nat, size : Nat]
    /\ node \in [Index -> [key : Nat, registry : Nat, faulty : BOOLEAN]]
    /\ size \in Sizes /\ clean \in BOOLEAN /\ faults \in Nat /\ stops \in Nat
    /\ inHand \in Nat /\ made \in Nat /\ next \in Nat
    /\ outer \in BOOLEAN /\ mode \in {"NONE", "FAULT"}
    /\ serving \in {0} \cup Sizes

\* In a cluster that came up, every node signs with the key the other nodes know,
\* whatever was left by one command that stopped between or inside the two files.
\* Two such commands can leave files of one size and of different keys.
KeysMatch ==
    stops <= 1 => \A i, j \in 1..serving : node[i].key = node[j].registry

\* While records are measured there are the nodes of the scenario and no others, and
\* the faulty ones are those the scenario sends a fault to: nothing is left of another
\* cluster, whatever was started, failed or stopped before.  It follows that the node
\* run_benchmark puts under a fault is not faulty then unless it is node_2, although
\* run_benchmark.py:2 has the cluster profiled after "inject Byzantine fault" and :94
\* calls --target the "Target node for error simulation".
MeasuredAsAssigned ==
    stage = "batches" =>
        /\ {i \in Index : node[i] # Absent} = 1..size
        /\ {i \in Index : node[i].faulty} = UnderFault
=============================================================================
