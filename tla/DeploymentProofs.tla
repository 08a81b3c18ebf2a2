-------------------------- MODULE DeploymentProofs --------------------------
(***************************************************************************)
(* Deployment, for every set of cluster sizes and every bound: the keys of *)
(* a cluster that came up match unless two commands have stopped half-way, *)
(* and what is measured is a cluster with the scenario's faults only.      *)
(***************************************************************************)
EXTENDS Deployment, TLAPS

-----------------------------------------------------------------------------
(* Types *)

File == [made : Nat, size : Nat]
Container == [key : Nat, registry : Nat, faulty : BOOLEAN]

\* A cluster of a size asked for has its nodes among the indexes.
LEMMA SizesIndexed ==
    ASSUME NEW n \in Sizes
    PROVE  n \in Nat \ {0} /\ 1..n \subseteq Index
  BY DeploymentAssumption DEF Index

\* Faults change neither the types nor the keys of the nodes.
LEMMA FaultTyped ==
    ASSUME node \in [Index -> Container], NEW S, NEW b \in BOOLEAN
    PROVE  /\ WithFault(S, b) \in [Index -> Container]
           /\ \A i \in Index :
                 /\ WithFault(S, b)[i].key = node[i].key
                 /\ WithFault(S, b)[i].registry = node[i].registry
                 /\ WithFault(S, b)[i].faulty = IF i \in S THEN b ELSE node[i].faulty
  BY DEF WithFault, Container

\* Whoever acts on the cluster only sets and clears faults.
LEMMA ActFaults ==
    ASSUME Act \/ ActFails
    PROVE  \E S, b : b \in BOOLEAN /\ node' \in {node, WithFault(S, b)}
  <1>1. CASE Act
    BY <1>1, Zenon DEF Act
  <1>2. CASE ActFails
    <2>1. \/ node' = node
          \/ \E t \in 1..size : node' = WithFault({t}, TRUE)
          \/ \E k \in 0..size :
                node' = WithFault({i \in UnderFault : i <= k}, stage = "fault")
      BY <1>2, Zenon DEF ActFails
    <2>2. (stage = "fault") \in BOOLEAN /\ TRUE \in BOOLEAN
      OBVIOUS
    <2> QED
      BY <2>1, <2>2, Zenon
  <1> QED
    BY <1>1, <1>2, Zenon

\* Nothing is there at first.
LEMMA InitTyped == Init => TypeOK
  <1>1. Init => clean \in BOOLEAN /\ outer \in BOOLEAN /\ mode \in {"NONE", "FAULT"}
    BY Zenon DEF Init
  <1>2. Init => /\ topology \in File /\ keys \in File
                /\ node \in [Index -> Container]
                /\ size \in Sizes /\ faults \in Nat /\ stops \in Nat
                /\ inHand \in Nat /\ made \in Nat /\ next \in Nat
                /\ serving \in {0} \cup Sizes
    BY DEF Init, Missing, Absent, File, Container
  <1> QED
    BY <1>1, <1>2, Zenon DEF TypeOK, File, Container

\* Every action keeps the containers typed.
LEMMA NodeTyped == TypeOK /\ [Next]_vars => node' \in [Index -> Container]
  <1> SUFFICES ASSUME TypeOK, [Next]_vars
               PROVE  node' \in [Index -> Container]
    OBVIOUS
  <1>0. node \in [Index -> Container]
    BY DEF TypeOK, Container
  <1>1. CASE Act \/ ActFails
    BY <1>0, <1>1, ActFaults, FaultTyped
  <1>2. CASE Deploy
    <2>1. [key |-> inHand, registry |-> topology.made, faulty |-> FALSE] \in Container
      BY DEF TypeOK, Container
    <2> QED
      BY <1>0, <1>2, <2>1 DEF Deploy
  <1>3. Absent \in Container
    BY DEF Absent, Container
  <1>4. CASE Purge
    BY <1>3, <1>4 DEF Purge, Purged
  <1>5. CASE Stop
    BY <1>0, <1>3, <1>5 DEF Stop
  <1>6. CASE UNCHANGED node
    BY <1>0, <1>6
  <1> QED
    BY <1>1, <1>2, <1>4, <1>5, <1>6
    DEF Next, vars, Call, Benchmark, Sync, SyncRaises, WriteTopology, WriteKeys,
        DropTopology, DropKeys

\* Every action keeps the files typed.
LEMMA FilesTyped == TypeOK /\ [Next]_vars => topology' \in File /\ keys' \in File
  <1> SUFFICES ASSUME TypeOK, [Next]_vars
               PROVE  topology' \in File /\ keys' \in File
    OBVIOUS
  <1>0. topology \in File /\ keys \in File /\ Missing \in File /\ Torn \in File
    BY DEF TypeOK, File, Missing, Torn
  <1>1. [made |-> inHand, size |-> size] \in File
    BY DeploymentAssumption DEF TypeOK, File
  <1>2. CASE UNCHANGED files
    BY <1>0, <1>2 DEF files
  <1> QED
    BY <1>0, <1>1, <1>2
    DEF Next, vars, Call, Benchmark, Act, ActFails, Sync, SyncRaises, WriteTopology,
        WriteKeys, Deploy, Purge, DropTopology, DropKeys, Stop, files

\* Every action keeps the flags typed.
LEMMA FlagsTyped ==
    TypeOK /\ [Next]_vars
        => clean' \in BOOLEAN /\ outer' \in BOOLEAN /\ mode' \in {"NONE", "FAULT"}
  BY Zenon DEF TypeOK, Next, vars, Call, Benchmark, Act, ActFails, Sync, SyncRaises,
     WriteTopology, WriteKeys, Deploy, Purge, DropTopology, DropKeys, Stop, orders,
     scenario, script

\* Every action keeps the counters typed.
LEMMA CountersTyped ==
    TypeOK /\ [Next]_vars
        => /\ size' \in Sizes /\ faults' \in Nat /\ stops' \in Nat /\ inHand' \in Nat
           /\ made' \in Nat /\ next' \in Nat /\ serving' \in {0} \cup Sizes
  <1> SUFFICES ASSUME TypeOK, [Next]_vars
               PROVE  /\ size' \in Sizes /\ faults' \in Nat /\ stops' \in Nat
                      /\ inHand' \in Nat /\ made' \in Nat /\ next' \in Nat
                      /\ serving' \in {0} \cup Sizes
    OBVIOUS
  <1> USE DEF TypeOK, orders, scenario, script
  <1>1. CASE Call
    BY <1>1 DEF Call
  <1>2. CASE Act
    BY <1>2 DEF Act
  <1>3. CASE ActFails
    BY <1>3 DEF ActFails
  <1>4. CASE Benchmark
    <2>1. size' \in Sizes /\ faults' \in {1} \cup (0..size')
      BY <1>4, Zenon DEF Benchmark
    <2>2. UNCHANGED <<stops, inHand, made, next, serving>>
      BY <1>4 DEF Benchmark
    <2> QED
      BY <2>1, <2>2, DeploymentAssumption
  <1>5. CASE Sync
    <2>1. /\ inHand' \in {keys.made, made + 1} /\ made' \in {made, made + 1}
          /\ next' = 1
          /\ UNCHANGED <<size, faults, stops, serving>>
      BY <1>5, Zenon DEF Sync
    <2> QED
      BY <2>1
  <1>6. CASE SyncRaises
    BY <1>6 DEF SyncRaises
  <1>7. CASE WriteTopology
    BY <1>7 DEF WriteTopology
  <1>8. CASE WriteKeys
    BY <1>8 DEF WriteKeys
  <1>9. CASE DropTopology
    BY <1>9 DEF DropTopology
  <1>10. CASE Deploy
    BY <1>10 DEF Deploy, Finish
  <1>11. CASE Purge
    BY <1>11 DEF Purge, Finish
  <1>12. CASE DropKeys
    BY <1>12 DEF DropKeys, Finish
  <1>13. CASE Stop
    <2>1. stops' = stops + 1 /\ UNCHANGED <<size, inHand, made, next, faults, serving>>
      BY <1>13, Zenon DEF Stop
    <2> QED
      BY <2>1
  <1>14. CASE UNCHANGED vars
    BY <1>14 DEF vars
  <1> QED
    BY <1>1, <1>2, <1>3, <1>4, <1>5, <1>6, <1>7, <1>8,
       <1>9, <1>10, <1>11, <1>12, <1>13, <1>14 DEF Next

\* Every action keeps the types.
LEMMA NextTyped == TypeOK /\ [Next]_vars => TypeOK'
  BY NodeTyped, FilesTyped, FlagsTyped, CountersTyped DEF TypeOK, File, Container

\* For any sizes and bounds, files, containers and counters are what they should be.
THEOREM DeploymentTyped == Spec => []TypeOK
  BY InitTyped, NextTyped, PTL DEF Spec

-----------------------------------------------------------------------------
(* The two files *)

Between == cmd \notin {"write_keys", "drop_keys"}

\* Until a command has stopped half-way the files are of one generation, and new
\* keys are made only for a size the old ones are not of.
Whole == stops = 0 =>
    /\ Between => topology = keys
    /\ cmd \in {"write_topology", "write_keys"} => ~(Held(keys) /\ keys.size = size)

\* Until two have, keys of the size of the topology are of its generation.
Paired == /\ stops <= 1 /\ Between
          /\ Held(topology) /\ Held(keys) /\ topology.size = keys.size
          => topology.made = keys.made

\* Between its two steps a command leaves the first file as it wants both.
HalfDone == /\ cmd = "write_keys" => topology = [made |-> inHand, size |-> size]
            /\ cmd = "drop_keys" => topology = Missing

FilesInv == Whole /\ Paired /\ HalfDone

\* Every action keeps the files paired.
LEMMA FilesInvStep == TypeOK /\ FilesInv /\ [Next]_vars => FilesInv'
  <1> SUFFICES ASSUME TypeOK, FilesInv, [Next]_vars
               PROVE  FilesInv'
    OBVIOUS
  <1> USE DEF FilesInv, Whole, Paired, HalfDone, Between, Held, Missing, Torn
  <1>0. /\ stops \in Nat
        /\ topology \in [made : Nat, size : Nat] /\ keys \in [made : Nat, size : Nat]
    BY DEF TypeOK
  <1>1. CASE /\ UNCHANGED <<topology, keys, stops>>
             /\ Between /\ cmd' \in {"none", "sync", "purge", "deploy", "drop_topology"}
    BY <1>1
  <1>2. ASSUME Call \/ Benchmark \/ Act \/ ActFails \/ SyncRaises \/ Deploy \/ Purge
        PROVE  /\ UNCHANGED <<topology, keys, stops>>
               /\ Between /\ cmd' \in {"none", "sync", "purge", "deploy", "drop_topology"}
    BY <1>2 DEF Call, Benchmark, Act, ActFails, SyncRaises, Deploy, Purge, files,
                orders, script, Finish
  <1>3. CASE Sync
    <2>1. /\ UNCHANGED <<topology, keys, stops, size>> /\ cmd = "sync"
          /\ \/ cmd' = "deploy"
             \/ cmd' = "write_topology" /\ ~Reusable(size)
      BY <1>3 DEF Sync, files
    <2> QED
      BY <1>0, <2>1 DEF Reusable
  <1>4. CASE WriteTopology
    <2>1. /\ UNCHANGED <<keys, stops, size, inHand>>
          /\ cmd = "write_topology" /\ cmd' = "write_keys"
          /\ topology' = [made |-> inHand, size |-> size]
      BY <1>4 DEF WriteTopology, orders
    <2> QED
      BY <1>0, <2>1
  <1>5. CASE WriteKeys
    <2>1. /\ UNCHANGED <<topology, stops>>
          /\ cmd = "write_keys" /\ cmd' = "deploy"
          /\ keys' = [made |-> inHand, size |-> size]
      BY <1>5 DEF WriteKeys
    <2> QED
      BY <1>0, <2>1
  <1>6. CASE DropTopology
    BY <1>6 DEF DropTopology
  <1>7. CASE DropKeys
    BY <1>7 DEF DropKeys, Finish
  <1>8. CASE Stop
    <2>0. /\ stops' = stops + 1 /\ cmd' = "none"
          /\ topology' \in {topology} \cup IF cmd = "write_topology" THEN {Torn} ELSE {}
          /\ keys' \in {keys} \cup IF cmd = "write_keys" THEN {Torn} ELSE {}
      BY <1>8, Zenon DEF Stop
    <2>1. /\ stops' = stops + 1 /\ cmd' = "none"
          /\ topology' = topology \/ (cmd = "write_topology" /\ topology' = Torn)
          /\ keys' = keys \/ (cmd = "write_keys" /\ keys' = Torn)
      BY <2>0
    <2> HIDE DEF FilesInv, Whole, Paired, HalfDone, Between, Held, Missing, Torn
    <2>2. ~(stops' = 0) /\ cmd' = "none" /\ (stops' <= 1 => stops = 0)
      BY <1>0, <2>1
    <2>3. Whole' /\ HalfDone'
      BY <2>2 DEF Whole, HalfDone
    <2>4. Paired'
      <3> SUFFICES ASSUME stops = 0, Held(topology)', Held(keys)',
                          topology'.size = keys'.size
                   PROVE  topology'.made = keys'.made
        BY <2>2 DEF Paired
      <3>1. topology' = topology /\ keys' = keys
        BY <2>1 DEF Held, Torn
      <3>2. CASE Between
        BY <3>1, <3>2 DEF FilesInv, Whole
      <3>3. CASE cmd = "write_keys"
        <4>1. topology.size = size
          BY <3>3 DEF FilesInv, HalfDone
        <4>2. ~(Held(keys) /\ keys.size = size)
          BY <3>3 DEF FilesInv, Whole
        <4> QED
          BY <3>1, <4>1, <4>2 DEF Held
      <3>4. CASE cmd = "drop_keys"
        BY <3>1, <3>4 DEF FilesInv, HalfDone, Held, Missing
      <3> QED
        BY <3>2, <3>3, <3>4 DEF Between
    <2> QED
      BY <2>3, <2>4 DEF FilesInv
  <1>9. CASE UNCHANGED vars
    BY <1>9 DEF vars
  <1> QED
    BY <1>1, <1>2, <1>3, <1>4, <1>5, <1>6, <1>7, <1>8, <1>9 DEF Next

-----------------------------------------------------------------------------
(* The cluster that comes up *)

\* The first node is the first to be deployed.
AtFirst == cmd \in {"write_topology", "write_keys"} => next = 1

\* The nodes deployed so far have the keys in hand, and the others know them.
Deploying == cmd = "deploy" =>
    /\ next \in 1..size
    /\ stops <= 1 => /\ topology.made = inHand
                     /\ \A i \in 1..size :
                           i < next => node[i].key = inHand /\ node[i].registry = inHand

\* No cluster serves while a command runs.
Quiet == cmd # "none" => serving = 0

KeysInv == TypeOK /\ FilesInv /\ AtFirst /\ Deploying /\ Quiet /\ KeysMatch

\* Every action keeps the nodes deployed alike.
LEMMA DeployingStep == KeysInv /\ [Next]_vars => Deploying'
  <1> SUFFICES ASSUME KeysInv, [Next]_vars, cmd' = "deploy"
               PROVE  /\ next' \in 1..size'
                      /\ stops' <= 1 =>
                            /\ topology'.made = inHand'
                            /\ \A i \in 1..size' : i < next' =>
                                 node'[i].key = inHand' /\ node'[i].registry = inHand'
    BY DEF Deploying
  <1> USE DEF KeysInv
  <1>0. /\ size \in Sizes /\ 1..size \subseteq Index /\ size \in Nat \ {0}
        /\ node \in [Index -> Container] /\ stops \in Nat /\ next \in Nat
    BY SizesIndexed DEF TypeOK, Container
  <1>1. CASE Sync
    <2>1. /\ inHand' = keys.made /\ next' = 1 /\ Reusable(size)
          /\ UNCHANGED <<topology, stops, size>> /\ cmd = "sync"
      BY <1>1 DEF Sync, files
    <2>2. stops <= 1 => topology.made = keys.made
      BY <2>1 DEF Reusable, FilesInv, Paired, Between
    <2> QED
      BY <1>0, <2>1, <2>2
  <1>2. CASE WriteKeys
    <2>0. cmd = "write_keys"
      BY <1>2 DEF WriteKeys
    <2>a. HalfDone /\ AtFirst
      BY DEF FilesInv
    <2>b. topology = [made |-> inHand, size |-> size] /\ next = 1
      BY <2>0, <2>a DEF HalfDone, AtFirst
    <2>1. topology.made = inHand /\ next = 1
      BY <2>b
    <2>2. UNCHANGED <<topology, inHand, next, size>>
      BY <1>2 DEF WriteKeys, orders
    <2>3. \A i \in 1..size : ~(i < 1)
      BY <1>0
    <2> QED
      BY <1>0, <2>1, <2>2, <2>3
  <1>3. CASE Deploy
    <2>1. /\ cmd = "deploy" /\ next' = next + 1 /\ next # size
          /\ node' = [node EXCEPT ![next] =
                [key |-> inHand, registry |-> topology.made, faulty |-> FALSE]]
          /\ UNCHANGED <<topology, stops, size, inHand>>
      BY <1>3 DEF Deploy, Finish, files
    <2>2. next \in 1..size
      BY <2>1 DEF Deploying
    <2>3. next' \in 1..size
      BY <1>0, <2>1, <2>2
    <2>4. ASSUME stops <= 1, NEW i \in 1..size, i < next + 1
          PROVE  node'[i].key = inHand /\ node'[i].registry = inHand
      <3>1. CASE i = next
        BY <1>0, <2>1, <2>2, <2>4, <3>1 DEF Deploying
      <3>2. CASE i # next
        <4>1. i < next /\ i \in Index /\ node'[i] = node[i]
          BY <1>0, <2>1, <2>2, <2>4, <3>2
        <4> QED
          BY <2>1, <2>4, <4>1 DEF Deploying
      <3> QED
        BY <3>1, <3>2
    <2> QED
      BY <2>1, <2>3, <2>4 DEF Deploying
  <1>4. ~Benchmark /\ ~Act /\ ~ActFails /\ ~Call
    BY DEF Call, Benchmark, Act, ActFails
  <1>5. ~SyncRaises /\ ~WriteTopology /\ ~Purge /\ ~DropTopology /\ ~DropKeys /\ ~Stop
    BY DEF SyncRaises, WriteTopology, Purge, DropTopology, DropKeys, Stop, Finish
  <1>6. CASE UNCHANGED vars
    BY <1>6 DEF vars, Deploying
  <1> QED
    BY <1>1, <1>2, <1>3, <1>4, <1>5, <1>6 DEF Next

\* New keys are made before the first node is deployed.
LEMMA AtFirstStep == AtFirst /\ [Next]_vars => AtFirst'
  <1> SUFFICES ASSUME AtFirst, [Next]_vars, cmd' \in {"write_topology", "write_keys"}
               PROVE  next' = 1
    BY DEF AtFirst
  <1>1. CASE Sync
    BY <1>1 DEF Sync
  <1>2. CASE WriteTopology
    BY <1>2 DEF WriteTopology, orders, AtFirst
  <1>3. CASE UNCHANGED vars
    BY <1>3 DEF vars, AtFirst
  <1>4. ~Call /\ ~Benchmark /\ ~Act /\ ~ActFails
    <2>1. ASSUME cmd = "none", cmd' = cmd
          PROVE  FALSE
      BY <2>1
    <2> QED
      BY <2>1 DEF Call, Benchmark, Act, ActFails
  <1>5. ~SyncRaises /\ ~WriteKeys /\ ~Purge /\ ~DropTopology /\ ~DropKeys /\ ~Stop
    BY DEF SyncRaises, WriteKeys, Purge, DropTopology, DropKeys, Stop, Finish, AtFirst
  <1>6. ~Deploy
    BY DEF Deploy, Finish
  <1> QED
    BY <1>1, <1>2, <1>3, <1>4, <1>5, <1>6 DEF Next

\* A command that begins stops the serving, and only its end resumes it.
LEMMA QuietStep == Quiet /\ [Next]_vars => Quiet'
  <1> SUFFICES ASSUME Quiet, [Next]_vars, cmd' # "none"
               PROVE  serving' = 0
    BY DEF Quiet
  <1>1. CASE Call
    BY <1>1 DEF Call
  <1>2. ~Benchmark /\ ~Act /\ ~ActFails
    BY DEF Benchmark, Act, ActFails
  <1>3. ASSUME Sync \/ WriteTopology \/ WriteKeys \/ DropTopology \/ Deploy \/ Purge
        PROVE  cmd # "none" /\ serving' = serving
    BY <1>3 DEF Sync, WriteTopology, WriteKeys, DropTopology, Deploy, Purge, Finish
  <1>4. ~SyncRaises /\ ~DropKeys /\ ~Stop
    BY DEF SyncRaises, DropKeys, Stop, Finish
  <1>5. CASE UNCHANGED vars
    BY <1>5 DEF vars, Quiet
  <1> QED
    BY <1>1, <1>2, <1>3, <1>4, <1>5 DEF Next, Quiet

\* The last node deployed completes a cluster of one generation; what acts on the
\* cluster later leaves its keys.
LEMMA KeysMatchStep == KeysInv /\ [Next]_vars => KeysMatch'
  <1> SUFFICES ASSUME KeysInv, [Next]_vars, stops' <= 1,
                      NEW i \in 1..serving', NEW j \in 1..serving'
               PROVE  node'[i].key = node'[j].registry
    BY DEF KeysMatch
  <1> USE DEF KeysInv
  <1>0. /\ size \in Sizes /\ 1..size \subseteq Index /\ size \in Nat \ {0}
        /\ node \in [Index -> Container] /\ stops \in Nat /\ next \in Nat
        /\ serving \in {0} \cup Sizes
    BY SizesIndexed DEF TypeOK, Container
  <1>1. ASSUME serving' = serving, stops' = stops,
               \A k \in Index : /\ node'[k].key = node[k].key
                                /\ node'[k].registry = node[k].registry
        PROVE  node'[i].key = node'[j].registry
    <2>1. serving \in Sizes
      BY <1>0, <1>1
    <2>2. i \in Index /\ j \in Index
      BY <1>1, <2>1, SizesIndexed
    <2> QED
      BY <1>1, <2>2 DEF KeysMatch
  <1>2. ASSUME serving' = 0
        PROVE  FALSE
    BY <1>2
  <1>3. CASE Benchmark
    BY <1>1, <1>3 DEF Benchmark
  <1>4. CASE Act \/ ActFails
    <2>1. PICK S, b : b \in BOOLEAN /\ node' \in {node, WithFault(S, b)}
      BY <1>4, ActFaults
    <2>2. \A k \in Index : /\ node'[k].key = node[k].key
                           /\ node'[k].registry = node[k].registry
      BY <1>0, <2>1, FaultTyped
    <2>3. serving' = serving /\ stops' = stops
      BY <1>4 DEF Act, ActFails
    <2> QED
      BY <1>1, <2>2, <2>3
  <1>5. CASE Deploy
    <2>1. /\ cmd = "deploy" /\ stops' = stops
          /\ node' = [node EXCEPT ![next] =
                [key |-> inHand, registry |-> topology.made, faulty |-> FALSE]]
      BY <1>5 DEF Deploy
    <2>2. next = size /\ serving' = size
      BY <1>2, <1>5, <2>1 DEF Deploy, Finish, Quiet
    <2>3. topology.made = inHand
      BY <2>1 DEF Deploying
    <2>4. ASSUME NEW k \in 1..size
          PROVE  node'[k].key = inHand /\ node'[k].registry = inHand
      <3>1. CASE k = next
        BY <1>0, <2>1, <2>3, <3>1
      <3>2. CASE k # next
        <4>1. k < next /\ k \in Index /\ node'[k] = node[k]
          BY <1>0, <2>1, <2>2, <3>2
        <4> QED
          BY <2>1, <4>1 DEF Deploying
      <3> QED
        BY <3>1, <3>2
    <2> QED
      BY <2>2, <2>4
  <1>6. CASE Call
    BY <1>2, <1>6 DEF Call
  <1>7. ASSUME \/ Sync \/ SyncRaises \/ WriteTopology \/ WriteKeys
               \/ DropTopology \/ Stop
        PROVE  cmd # "none" /\ serving' = serving
    BY <1>7 DEF Sync, SyncRaises, WriteTopology, WriteKeys, DropTopology, Stop
  <1>8. CASE Purge \/ DropKeys
    <2>1. cmd # "none" /\ serving' \in {0, serving}
      BY <1>8 DEF Purge, DropKeys, Finish
    <2> QED
      BY <1>2, <2>1 DEF Quiet
  <1>9. CASE UNCHANGED vars
    BY <1>1, <1>9 DEF vars
  <1> QED
    BY <1>2, <1>3, <1>4, <1>5, <1>6, <1>7, <1>8, <1>9 DEF Next, Quiet

\* KeysInv holds initially.
LEMMA InitKeysInv == Init => KeysInv
  <1> SUFFICES ASSUME Init
               PROVE  KeysInv
    OBVIOUS
  <1>1. cmd = "none" /\ serving = 0 /\ topology = Missing /\ keys = Missing
    BY Zenon DEF Init
  <1>2. FilesInv
    BY <1>1 DEF FilesInv, Whole, Paired, HalfDone, Between, Held, Missing
  <1> QED
    BY <1>1, <1>2, InitTyped DEF KeysInv, AtFirst, Deploying, Quiet, KeysMatch

\* KeysInv is inductive.
LEMMA KeysInvStep == KeysInv /\ [Next]_vars => KeysInv'
  BY NextTyped, FilesInvStep, AtFirstStep, DeployingStep, QuietStep, KeysMatchStep
  DEF KeysInv

\* For any sizes and any use of the scripts, the nodes of a cluster that came up can
\* verify each other, unless two commands have stopped half-way.
THEOREM ClusterKeysMatch == Spec => []KeysMatch
  <1>1. KeysInv => KeysMatch
    BY DEF KeysInv
  <1> QED
    BY <1>1, InitKeysInv, KeysInvStep, PTL DEF Spec

-----------------------------------------------------------------------------
(* The faults of a scenario *)

Empty == \A i \in Index : node[i] = Absent

\* The first k nodes are there, and none has a fault.
UpTo(k) == \A i \in Index : /\ node[i] # Absent <=> i <= k
                            /\ node[i].faulty = FALSE

\* What a scenario has cleared away and set up when it comes to its batches.
Cleared == stage = "down_2" =>
    /\ cmd \in {"none", "purge", "drop_topology", "drop_keys"}
    /\ cmd \in {"drop_topology", "drop_keys"} => Empty
Rebuilt == stage = "up_2" =>
    /\ cmd \in {"none", "sync", "write_topology", "write_keys", "deploy"}
    /\ IF cmd = "deploy" THEN UpTo(next - 1) ELSE Empty
Healthy == stage = "fault" => cmd = "none" /\ UpTo(size)
Measured == stage = "batches" =>
    /\ cmd = "none"
    /\ \A i \in Index : /\ node[i] # Absent <=> i <= size
                        /\ node[i].faulty = IF i \in UnderFault THEN TRUE ELSE FALSE

\* Keys in hand are keys.
InHand == cmd \in {"write_topology", "write_keys", "deploy"} => inHand > 0

FaultInv == KeysInv /\ InHand /\ Cleared /\ Rebuilt /\ Healthy /\ Measured

Measuring == {"down_2", "up_2", "fault", "batches"}

\* The steps of a script that lead to its measurement.
LEMMA FollowingMeasures ==
    /\ Following(stage) = "down_2" => stage = "inject"
    /\ Following(stage) = "up_2" => stage = "down_2"
    /\ Following(stage) = "fault" => stage = "up_2"
    /\ Following(stage) = "batches" => stage = "fault"
  BY DEF Following

\* No exception handler goes on to measure.
LEMMA HandlerLeaves == Handler(stage) \notin Measuring
  BY DEF Handler, Measuring

\* Every action keeps keys in hand.
LEMMA InHandStep == TypeOK /\ InHand /\ [Next]_vars => InHand'
  <1> SUFFICES ASSUME TypeOK, InHand, [Next]_vars,
                      cmd' \in {"write_topology", "write_keys", "deploy"}
               PROVE  inHand' > 0
    BY DEF InHand
  <1>1. CASE Sync
    <2>1. (keys.made > 0 /\ inHand' = keys.made) \/ inHand' = made + 1
      BY <1>1 DEF Sync, Reusable, Held
    <2> QED
      BY <2>1 DEF TypeOK
  <1>2. ASSUME WriteTopology \/ WriteKeys \/ Deploy
        PROVE  /\ inHand' = inHand
               /\ cmd \in {"write_topology", "write_keys", "deploy"}
    BY <1>2 DEF WriteTopology, WriteKeys, Deploy, orders
  <1>3. ~Call /\ ~Benchmark /\ ~Act /\ ~ActFails
    <2>1. ASSUME cmd = "none", cmd' = cmd
          PROVE  FALSE
      BY <2>1
    <2> QED
      BY <2>1 DEF Call, Benchmark, Act, ActFails
  <1>4. ~SyncRaises /\ ~Purge /\ ~DropTopology /\ ~DropKeys /\ ~Stop
    BY DEF SyncRaises, Purge, DropTopology, DropKeys, Stop, Finish
  <1>5. CASE UNCHANGED vars
    BY <1>5 DEF vars, InHand
  <1> QED
    BY <1>1, <1>2, <1>3, <1>4, <1>5 DEF Next, InHand

\* Nothing is left of an earlier cluster when a scenario builds its own.
LEMMA ClearedStep ==
    FaultInv /\ [Next]_vars => Cleared'
  <1> SUFFICES ASSUME FaultInv, [Next]_vars, stage' = "down_2"
               PROVE  /\ cmd' \in {"none", "purge", "drop_topology", "drop_keys"}
                      /\ cmd' \in {"drop_topology", "drop_keys"} => Empty'
    BY DEF Cleared, Empty
  <1> USE DEF FaultInv, Cleared, Empty
  <1>1. ASSUME cmd' = "none"
        PROVE  cmd' \notin {"drop_topology", "drop_keys"}
    BY <1>1
  <1>2. CASE Call
    BY <1>2 DEF Call, script, Downs
  <1>3. CASE Benchmark \/ Act \/ ActFails
    BY <1>1, <1>3 DEF Benchmark, Act, ActFails
  <1>4. CASE Purge
    <2>1. node' = [i \in Index |-> Absent] /\ cmd' \in {"none", "drop_topology"}
      BY <1>4 DEF Purge, Purged, Finish
    <2> QED
      BY <2>1
  <1>5. CASE DropTopology
    BY <1>5 DEF DropTopology, script
  <1>6. CASE DropKeys \/ Stop \/ SyncRaises
    BY <1>1, <1>6 DEF DropKeys, Stop, SyncRaises, Finish
  <1>7. ASSUME Sync \/ WriteTopology \/ WriteKeys
        PROVE  stage' = stage /\ cmd \in {"sync", "write_topology", "write_keys"}
    BY <1>7 DEF Sync, WriteTopology, WriteKeys, script
  <1>8. CASE Deploy
    BY <1>1, <1>8 DEF Deploy, Finish
  <1>9. CASE UNCHANGED vars
    BY <1>9 DEF vars
  <1> QED
    BY <1>2, <1>3, <1>4, <1>5, <1>6, <1>7, <1>8, <1>9 DEF Next

\* A node deployed is there, without a fault, and the others are as they were.
LEMMA DeployAdds ==
    ASSUME FaultInv, Deploy, stage = "up_2"
    PROVE  /\ next \in 1..size /\ size \in Nat
           /\ \A i \in Index : /\ node'[i] # Absent <=> i <= next
                               /\ node'[i].faulty = FALSE
  <1> USE DEF FaultInv, KeysInv
  <1> DEFINE new == [key |-> inHand, registry |-> topology.made, faulty |-> FALSE]
  <1>1. /\ cmd = "deploy" /\ node' = [node EXCEPT ![next] = new]
    BY DEF Deploy
  <1>2. /\ next \in 1..size /\ size \in Nat /\ next \in Index /\ next \in Nat
        /\ node \in [Index -> Container] /\ Index \subseteq Nat
    BY <1>1, SizesIndexed, DeploymentAssumption DEF Deploying, TypeOK, Container, Index
  <1>3. new # Absent /\ new.faulty = FALSE
    BY <1>1 DEF InHand, Absent
  <1>4. UpTo(next - 1)
    BY <1>1 DEF Rebuilt
  <1>5. ASSUME NEW i \in Index
        PROVE  /\ node'[i] # Absent <=> i <= next
               /\ node'[i].faulty = FALSE
    <2>1. CASE i = next
      BY <1>1, <1>2, <1>3, <2>1
    <2>2. CASE i # next
      <3>1. node'[i] = node[i] /\ (i <= next <=> i <= next - 1)
        BY <1>1, <1>2, <2>2
      <3> QED
        BY <1>4, <3>1 DEF UpTo
    <2> QED
      BY <2>1, <2>2
  <1> QED
    BY <1>2, <1>5

\* A cluster is built from nothing, one node after the other.
LEMMA RebuiltStep == FaultInv /\ [Next]_vars => Rebuilt'
  <1> SUFFICES ASSUME FaultInv, [Next]_vars, stage' = "up_2"
               PROVE  /\ cmd' \in {"none", "sync", "write_topology", "write_keys", "deploy"}
                      /\ IF cmd' = "deploy" THEN UpTo(next - 1)' ELSE Empty'
    BY DEF Rebuilt
  <1> USE DEF FaultInv, Rebuilt, Empty
  <1>1. CASE Call
    BY <1>1 DEF Call, script, Downs
  <1>2. CASE Benchmark
    BY <1>2 DEF Benchmark
  <1>3. ~Act /\ ~ActFails
    BY FollowingMeasures, HandlerLeaves DEF Act, ActFails, Measuring
  <1>4. CASE Sync
    <2>1. /\ cmd = "sync" /\ stage = "up_2" /\ node' = node /\ next' = 1
          /\ cmd' \in {"deploy", "write_topology"}
      BY <1>4 DEF Sync, script
    <2>2. \A i \in Index : ~(i <= 0) /\ node[i].faulty = FALSE /\ node[i] = Absent
      BY <2>1, DeploymentAssumption DEF Absent, Index
    <2> QED
      BY <2>1, <2>2 DEF UpTo
  <1>5. CASE WriteTopology
    BY <1>5 DEF WriteTopology, script
  <1>6. CASE WriteKeys
    <2>1. /\ cmd = "write_keys" /\ stage = "up_2" /\ node' = node /\ next' = next
          /\ cmd' = "deploy"
      BY <1>6 DEF WriteKeys, script, orders
    <2>2. next = 1
      BY <2>1 DEF KeysInv, AtFirst
    <2>3. \A i \in Index : ~(i <= 0) /\ node[i].faulty = FALSE /\ node[i] = Absent
      BY <2>1, DeploymentAssumption DEF Absent, Index
    <2> QED
      BY <2>1, <2>2, <2>3 DEF UpTo
  <1>7. CASE Deploy
    <2>1. stage = "up_2" /\ cmd' = "deploy" /\ next' = next + 1 /\ cmd = "deploy"
      BY <1>7, FollowingMeasures DEF Deploy, Finish, Cleared
    <2>2. next' - 1 = next
      BY <2>1 DEF KeysInv, TypeOK
    <2> QED
      BY <1>7, <2>1, <2>2, DeployAdds DEF UpTo
  <1>8. CASE Purge
    BY <1>8 DEF Purge, Purged, Finish
  <1>9. CASE DropTopology
    BY <1>9 DEF DropTopology, script
  <1>10. CASE DropKeys
    <2>1. cmd = "drop_keys" /\ cmd' = "none" /\ node' = node /\ stage = "down_2"
      BY <1>10, FollowingMeasures DEF DropKeys, Finish
    <2> QED
      BY <2>1 DEF Cleared
  <1>11. ~SyncRaises /\ ~Stop
    BY HandlerLeaves DEF SyncRaises, Stop, Measuring
  <1>12. CASE UNCHANGED vars
    BY <1>12 DEF vars, UpTo
  <1> QED
    BY <1>1, <1>2, <1>3, <1>4, <1>5, <1>6, <1>7, <1>8, <1>9, <1>10, <1>11, <1>12
    DEF Next

\* Only the end of the deployment leads to the faults, and all nodes are there then.
LEMMA HealthyStep == FaultInv /\ [Next]_vars => Healthy'
  <1> SUFFICES ASSUME FaultInv, [Next]_vars, stage' = "fault"
               PROVE  cmd' = "none" /\ UpTo(size)'
    BY DEF Healthy
  <1> USE DEF FaultInv, Healthy
  <1>1. CASE Deploy
    <2>1. stage = "up_2" /\ cmd' = "none" /\ next = size /\ size' = size
      BY <1>1, FollowingMeasures DEF Deploy, Finish
    <2> QED
      BY <1>1, <2>1, DeployAdds DEF UpTo
  <1>2. ~Purge /\ ~DropKeys
    BY FollowingMeasures DEF Purge, DropKeys, Finish, Rebuilt
  <1>3. ~Benchmark /\ ~Act /\ ~ActFails /\ ~SyncRaises /\ ~Stop
    BY FollowingMeasures, HandlerLeaves
    DEF Benchmark, Act, ActFails, SyncRaises, Stop, Measuring
  <1>4. ~Call /\ ~Sync /\ ~WriteTopology /\ ~WriteKeys /\ ~DropTopology
    BY DEF Call, Sync, WriteTopology, WriteKeys, DropTopology, script, Downs
  <1>5. CASE UNCHANGED vars
    BY <1>5 DEF vars, UpTo
  <1> QED
    BY <1>1, <1>2, <1>3, <1>4, <1>5 DEF Next

\* The nodes assigned, and no others, have a fault once it has been set.
LEMMA MeasuredStep == FaultInv /\ [Next]_vars => Measured'
  <1> SUFFICES ASSUME FaultInv, [Next]_vars, stage' = "batches"
               PROVE  Measured'
    BY DEF Measured
  <1> USE DEF FaultInv, Measured
  <1>1. CASE Act
    <2>1. stage = "fault"
      BY <1>1, FollowingMeasures DEF Act
    <2>2. /\ node' = WithFault(UnderFault, TRUE) /\ cmd' = "none"
          /\ size' = size /\ UnderFault' = UnderFault
      BY <1>1, <2>1 DEF Act, orders, scenario, UnderFault, Assigned
    <2>3. node \in [Index -> Container] /\ UpTo(size)
      BY <2>1 DEF KeysInv, TypeOK, Container, Healthy
    <2>4. ASSUME NEW i \in Index
          PROVE  /\ node'[i] # Absent <=> i <= size
                 /\ node'[i].faulty = IF i \in UnderFault THEN TRUE ELSE FALSE
      <3>1. CASE i \in UnderFault
        <4>0. node'[i] = [node[i] EXCEPT !.faulty = TRUE] /\ node[i] \in Container
          BY <2>2, <2>3, <3>1 DEF WithFault
        <4>1. node'[i].faulty = TRUE
          BY <4>0 DEF Container
        <4>2. node'[i] # Absent
          BY <4>1 DEF Absent
        <4>3. i <= size
          BY <3>1 DEF UnderFault, Assigned
        <4> QED
          BY <3>1, <4>1, <4>2, <4>3
      <3>2. CASE i \notin UnderFault
        <4>1. node'[i] = node[i]
          BY <2>2, <2>3, <3>2 DEF WithFault
        <4> QED
          BY <2>3, <3>2, <4>1 DEF UpTo
      <3> QED
        BY <3>1, <3>2
    <2> QED
      BY <2>2, <2>4
  <1>2. ~Purge /\ ~DropKeys /\ ~Deploy
    <2>1. ASSUME cmd # "none", stage \in {"fault", "batches"}
          PROVE  FALSE
      BY <2>1 DEF Healthy
    <2> QED
      BY <2>1, FollowingMeasures DEF Purge, DropKeys, Deploy, Finish
  <1>3. ~Benchmark /\ ~ActFails /\ ~SyncRaises /\ ~Stop
    BY HandlerLeaves DEF Benchmark, ActFails, SyncRaises, Stop, Measuring
  <1>4. ~Call /\ ~Sync /\ ~WriteTopology /\ ~WriteKeys /\ ~DropTopology
    BY DEF Call, Sync, WriteTopology, WriteKeys, DropTopology, script, Downs
  <1>5. CASE UNCHANGED vars
    BY <1>5 DEF vars, UnderFault, Assigned
  <1> QED
    BY <1>1, <1>2, <1>3, <1>4, <1>5 DEF Next

\* For any sizes, faults and interruptions, records are measured on a cluster of the
\* size asked for, of which the nodes assigned and no others have a fault.
THEOREM ScenarioFaults == Spec => []MeasuredAsAssigned
  <1>1. Init => FaultInv
    <2>1. Init => stage = "shell" /\ cmd = "none"
      BY Zenon DEF Init
    <2> QED
      BY <2>1, InitKeysInv DEF FaultInv, InHand, Cleared, Rebuilt, Healthy, Measured
  <1>2. FaultInv /\ [Next]_vars => FaultInv'
    BY KeysInvStep, InHandStep, ClearedStep, RebuiltStep, HealthyStep, MeasuredStep
    DEF FaultInv, KeysInv
  <1>3. FaultInv => MeasuredAsAssigned
    <2> SUFFICES ASSUME FaultInv, stage = "batches"
                 PROVE  /\ {i \in Index : node[i] # Absent} = 1..size
                        /\ {i \in Index : node[i].faulty} = UnderFault
      BY DEF MeasuredAsAssigned
    <2>0. size \in Sizes
      BY DEF FaultInv, KeysInv, TypeOK
    <2>a. 1..size \subseteq Index /\ size \in Nat
      BY <2>0, SizesIndexed
    <2>b. Index \subseteq Nat \ {0}
      BY DeploymentAssumption DEF Index
    <2>c. UnderFault \subseteq 1..size
      BY <2>a DEF UnderFault, Assigned
    <2>1. /\ 1..size \subseteq Index /\ UnderFault \subseteq 1..size
          /\ Index \subseteq Nat \ {0} /\ size \in Nat
      BY <2>a, <2>b, <2>c
    <2>2. \A i \in Index : /\ node[i] # Absent <=> i <= size
                          /\ node[i].faulty = IF i \in UnderFault THEN TRUE ELSE FALSE
      BY DEF FaultInv, Measured
    <2>3. {i \in Index : node[i] # Absent} = 1..size
      <3>1. \A i \in Index : node[i] # Absent <=> i <= size
        BY <2>2, Zenon
      <3>2. \A i \in Index : i <= size <=> i \in 1..size
        BY <2>1
      <3>3. 1..size \subseteq Index
        BY <2>1
      <3> QED
        BY <3>1, <3>2, <3>3, Zenon
    <2>4. {i \in Index : node[i].faulty} = UnderFault
      <3>1. \A i \in Index : node[i].faulty <=> i \in UnderFault
        BY <2>2, Zenon
      <3>2. UnderFault \subseteq Index
        BY <2>1
      <3> QED
        BY <3>1, <3>2, Zenon
    <2> QED
      BY <2>3, <2>4
  <1> QED
    BY <1>1, <1>2, <1>3, PTL DEF Spec
=============================================================================
