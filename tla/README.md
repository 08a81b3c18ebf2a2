# A verification project for AgentConsensus

AgentConsensus is a PBFT-like consensus service for small clusters of Docker
containers. A client posts a signed transaction envelope to every node
(`/pre-prepare`); the nodes exchange signed PREPARE and COMMIT votes over HTTP,
and a node that counts a quorum of both writes the transaction to its
`ledger.json`. A chaos router makes a node fail on purpose and a profiler drives
the cluster and measures it.

This directory holds TLA+ modules that model the nodes, the client that drives
them, the faults injected into them and the scripts that set them up, TLC
configurations that check these models on small instances, and proofs for TLAPS.
`PROJECT.json` lists the runs, the source lines of every definition, the hazards and
the findings.

Run a configuration with `tlc -config AC_retry_pair.cfg MCAgentConsensus.tla`
and a proof with `tlapm AgentConsensusProofs.tla`. All modules need only the
standard and community modules and the libraries of TLAPS.

## Inventory

| Component | Source (`src/`) | State | Operations | What is hard |
|---|---|---|---|---|
| Consensus routers | `node_app/routers/consensus.py` | the tracker, the background lists of requests in progress | `/pre-prepare`, `/prepare`, `/commit`, `/reset-head`, `/verify-tx`, watchdog, two broadcasts | order of votes and record, slots posted again, old watchdogs, fast-forward over open slots |
| ConsensusTracker | `node_app/core/consensus_tracker.py` | `local_head`, `pre_prepares`, `prepare_votes`, `commit_votes`, `local_stage`, thresholds | `force_garbage_collection`; the other methods have no caller | the check under the lock repeats one made before it |
| Mesh | `node_app/core/mesh.py` | none | one post per peer, two seconds each | posts are lost and late, nothing is retried |
| Ledger store | `node_app/main.py`, `routers/consensus.py` | `ledger.json` | two writers, one reader | truncate-then-write, the fallback for unreadable files |
| Chaos router | `node_app/routers/chaos.py` | `fault_mode`, `peers`, `_original_peers`, `_byzantine_drop` | `/chaos/fault`, `/chaos/reset`, middleware, forged posts | mode read before the handler, drop list after it |
| Node start-up, `/transaction` | `node_app/main.py` | application state | start, restart, submission | restart loses votes and tasks, keeps the ledger |
| Envelope validation | `schemas/*.py`, `core/invariants.py`, `core/crypto.py` | none | checks of one request | truncation to eight decimals, ids hashed without separators, which entry point checks which signature |
| Benchmark driver | `benchmarks/profiler.py` | `_current_leader_idx`, the batch's records | post a batch, replace a leader, verify, reset heads; run a scenario | posts that time out and still arrive, answers of different moments, resets racing with watchdogs |
| Deployment scripts | `orchestrate.py`, `run_benchmark.py` | `topology.json`, `keys.json`, the containers | `up`, `down`, `--clean`, one benchmark | two files that belong together, commands stopped half-way, a cluster replaced under a fault |
| Plots | `benchmarks/plot_results.py` | none | charts from a CSV file | not modelled: output only |

How they interact: clients and peers call the routers over HTTP; every request
passes the chaos middleware; the routers and the watchdogs of a node share its
tracker, under a lock no holder awaits in; `/transaction` and `/commit` share
the ledger file under another lock; a broadcast is a list of HTTP posts. The
profiler is a client of `/pre-prepare`, `/verify-tx`, `/reset-head` and
`/chaos/*`, and calls `orchestrate.py` before and after each scenario.

What makes the components correct: an open slot is always closed in the end and
a quorum is never overlooked (routers); a vote is counted only if its sender signed
it for that slot and phase (routers); a decision rests on two signed quorums, and on the ledger of
the node that reports it (routers, ledger); each accepted proposal is written at
most once (routers); the ledger grows by one entry or is lost as a whole (ledger
store); an id names one transaction and an amount is never inflated
(validation); a fault can be taken back entirely and schedules no forged vote once it
is over, though those already scheduled are still posted (chaos); a benchmark ends, and its OK has votes behind it (driver); nodes
that were set up together can verify each other (deployment).

## Modules

| Module | What it is |
|---|---|
| `Quorums` | `max_faulty` and `quorum_threshold` |
| `AgentConsensus` | the cluster: handlers, background tasks, network, restarts |
| `SlotLife` | what a node promises about one slot (abstract); `AgentConsensus` refines it for every node and slot |
| `BatchDriver` | `AgentConsensus` with the profiler as its client |
| `ChaosCluster` | `AgentConsensus` with nodes that forge votes |
| `ChaosFaults` | fault injection on one node |
| `LossyLog` | what `ledger.json` promises (abstract) |
| `LedgerStore` | the file and its two writers; refines `LossyLog` |
| `Submission` | `LedgerStore` with the requests that write to it and their checks; refines `LossyLog` |
| `Deployment` | key files, containers and the scripts |
| `Unwired` | `AgentConsensus` with the handlers as committed, which raise |
| `MC...` | the instances: small sets, symmetry, the bounds of the larger runs |
| `...Proofs` | theorems about the module of that name; `SlotLifeProofs` also holds those that follow from the life cycle, `SubmissionProofs` those about `LedgerStore` |
| `InductionLemmas` | least numbers and induction, for the proofs about recursive functions and for `LowerEnds` |

`BatchDriver` and `ChaosCluster` take every action of `AgentConsensus` as it is
and add variables of their own, so its properties and much of its proofs carry
over. `Submission` does the same with `LedgerStore`.

### AgentConsensus

The variables `local_head`, `pre_prepares`, `prepare_votes`, `commit_votes` and
`local_stage` are the tracker's, one per node; an absent key is `NoEnvelope`,
`{}` or `"NONE"`. `ledger` is the file as a list of envelopes. `jobs` counts the
requests of a node whose response is out and whose background list is being
run: Starlette runs the list in order, so a `/pre-prepare` goes through
`early_commits` (when there was an early quorum), `watchdog`, `prepares`, and a
`/prepare` that completes a quorum through `commits`. `net` counts the copies of
each post still under way. `signed`, `posts` and `restarts` are history: they
guard nothing but the bounds.

Each handler is one action: between its first and last access to the tracker it
awaits only an uncontended lock, so nothing interleaves. `PrePrepare` includes
the fast-forward, the early quorum and the scheduling; `ReceiveCommit` includes
the ledger write. A post that is lost is a message never delivered. The 422
answers (an unknown validator, a malformed body) change nothing and are left out.

A vote arrives with a signature, which is a pair of what was signed and by whom, and
`Verifies` is the check of the handlers: the key is the sender's, and the message is
transaction, slot and phase. With the right signature a vote is one of the posts of its
sender's broadcast (`Arrives`). The votes in `Strays` can also come, at any time and any
number of times, with every signature ever made (of another phase, transaction or
node) or with one that is nobody's; the handler answers them 202 and drops them. What is
left out is a second delivery of a correctly signed vote by somebody else: each post
of a broadcast arrives once at most.

Two things belong to `Submission` instead: the append of `/commit` always succeeds
here, and `ledger` holds the entries of `/commit` only, not those of
`POST /transaction`.

A transaction id stands for its contents: `SeqOf` gives its sequence number. A
vote names a transaction and its slot together, as `build_signed_message` signs
them together.

**The order of the background list matters.** `consensus_watchdog` is added
before `_broadcast_prepares`, and it sleeps two seconds. A node therefore posts
its PREPAREs after it has evicted the slot. `CommitNeedsRepost` states the
consequence: while every node is given a slot once at most, nobody decides it,
except in a cluster of three nodes, whose quorum is one vote. The records in
`benchmarks/results.csv` (four nodes) are all FAIL. A slot posted again can
commit: the late PREPAREs of the first attempt are counted for the second.

**Wiring.** `main.py:52` passes `n=` to a constructor whose parameter is
`node_count`, and the routers read `tracker.quorum` where the tracker has
`quorum_threshold`. As committed, no node starts. `AgentConsensus` models the
protocol with these names resolved; `Unwired` resolves only the first and shows
what the second does.

### SlotLife

The stage of one slot on one node, the number of pre-prepares accepted for it
and the number of its ledger entries. Commits come from PREPARED alone, an
eviction from an open stage, and a decided slot is left by another post or a
restart only. `LifePerSlot` instantiates it for every node and slot with the
mapping `stage <- local_stage[n][s]`, `posts <- posts[n][s]` and `copies` the
ledger entries of `n` for `s`.

### LedgerStore and LossyLog

`disk` is what the file looks like to `read_text` and `json.loads`: missing, a
whole list, a cut one that is not JSON, or one cut inside a character. A writer
is two steps, `BeginWrite` (read, build, truncate) and `EndWrite`; in between the
process can die (`CrashWriting`) or the write can fail (`WriteFails`). The
mapping to `LossyLog` takes the readable history as the log and a write in
progress as an append in progress.

### Submission

The two ways onto the ledger of one node. `Submit` is `POST /transaction` with
its checks in the order of the code; a request that is refused leaves no state
and is left out. `Commit` is the end of `/commit`: the stage is set before the
file is touched and stays when the append fails. How a slot gets prepared is
`AgentConsensus`'s subject, so here it may be prepared, evicted or robbed of its
record at any time. `hit` records the slots whose append, or a later one, failed:
a failed append empties the file for all.

An amount is a number in units of the ninth decimal, which stands for every
digit beyond the eighth; `Truncated` cuts it towards zero as
`quantize(..., ROUND_DOWN)` does. A proposer is a number and a spelling (`NODE_1`,
` node_1`): the id is made of the name stripped and in lower case (`Cleaned`), and
`/transaction` never asks whether the proposer is a node. An id is its preimage:
`Digits` gives the digits of the cleaned name, sequence number and timestamp, and these
are joined without separators; action and amount follow as JSON, which is one
element. SHA-256 and Ed25519 are taken as perfect, so `valid` and `invalid` name
the identities whose signatures in the body are right and wrong.

The checks differ by entry point. `/transaction` applies limit, clock and
signatures; `/pre-prepare` asks for an amount that is not negative, a digest that
fits and the proposer's signature. The properties about amounts and ids are therefore about what
`/transaction` admits. `IdsIdentify` also stops at nodes with one digit in their
names: node_1 with slot 12 and node_11 with slot 2 share a preimage. It gives the proposer up
to its spelling, and says nothing of what the id leaves out: the signatures and
`llm_reasoning_hash`.

### ChaosCluster

A Byzantine node runs the ordinary handlers and owes one forged vote for each
request it answers (`owed`), which `Forge` broadcasts. The middleware looks at the
status alone, so a vote that the handler has dropped, answered 202 as well, makes
it forge a COMMIT too. The fault may come and go,
so a broadcast of a forged vote may follow at any later time or never. A node that
is offline, a peer that has been cut off, a peer list captured before a fault
ended: each means that some post does not arrive, and every post of
`AgentConsensus` may be lost. The lists themselves are `ChaosFaults`.

### BatchDriver

`execute_batch_run`, one record after another: `Propose` posts to all recipients
at once, `TimeOut` is a post that gives up after two seconds, `EndRound` the end of
`asyncio.gather` with the change of leader, `Ask` one `/verify-tx`, `Judge` the
verdict, `Recover` the head resets after a stalled batch. A post that has timed out
stays in `offered` (or `resetting`), and its node may handle it at any later
moment, also in a later batch. `_current_leader_idx` is a global of the profiler, so
a scenario starts with any leader. `OkNodes` is the three of `profiler.py`, a constant
so that two nodes can be checked.

`Mode` is `NONE` or `OFFLINE` (`ModeAssumption`): a node that is faulty says nothing, or
takes part after all once its fault is over. In a `MALICIOUS_BYZANTINE` scenario the
faulty nodes forge votes as well; that is `ChaosCluster`, and `BatchDriver` is not
composed with it. There an OK means less: with eight nodes, whose quorum is five votes,
and three forgers, the forged votes can help both quorums over the line in the first
round. The convergence report and the CSV file are output.

### ChaosFaults

One node: the lists `set_fault` computes, and the requests in flight, each with
the mode it met. `Respond` reads the drop list at that time. Lists are sequences,
as in the code, since halves and top-ups depend on their order.

### Deployment

`topology.json` and `keys.json` as the generation of keys each holds and the number
of nodes it names, or missing, or cut; a container as the generation of its
private key and of the public keys it has read. `orchestrate.py` is a sequence of
steps (`Sync`, the two writes, one `Deploy` per node, `Purge`, the two removals), and
`Stop` interrupts it at any of them. `stage` is the place in `run_benchmark.py` and
`profiler.py` from which it was called; their exception handlers are `Handler`:
`rescue` is the teardown of `profiler.py:383`, which also follows a failed teardown, and
`down_4` the one in the `finally` of `run_benchmark.py`. Each scenario of
`--run-matrix` is a `Benchmark` of its own. `mode` is that of the scenario, `OFFLINE` and
`MALICIOUS_BYZANTINE` being set and cleared alike; `Assigned` are the nodes it assigns a
fault, `UnderFault` those it sends one to, which in mode `NONE` is nobody. `Assigned`
takes the nodes in the order of their numbers; the scripts sort names as strings,
which differs from ten nodes on (`NamesSortAssumption`). Networks, images and health polls hold no state the properties tell apart.

Two observations. `run_benchmark.py:2` announces a cluster that is started, put under a
Byzantine fault and profiled, and `:94` calls `--target` the "Target node for error
simulation". But the profiler tears that cluster down and sets up one of its own, in
which it faults node_2: the fault on `--target` is gone when records are measured, and
a `--target` other than node_2 is healthy then. `MeasuredAsAssigned` is about what the
code does do: while records are measured, nodes and faults are those of the scenario
and nothing is left of another cluster. And two commands that stop between the key
files, for clusters of one size, leave files that the next `up` accepts and whose
nodes cannot verify each other. `KeysMatch` is therefore about one such stop.

## Runs

| Run | Instance | Question |
|---|---|---|
| `retry_pair` | 2 nodes, 2 proposals for one slot, 2 posts per node, 1 restart per node, wrongly signed votes | do re-posts, old watchdogs, late votes and restarts keep the safety properties and the life cycle of a slot |
| `fast_forward` | 3 nodes, slots 1 and 2, 1 post per node and slot, heads reset to 0 | do fast-forwards and resets leave a slot unguarded, a quorum idle, a record unwritten |
| `retry_four` | 4 nodes (f = 1, quorum 3), one Byzantine, 2 posts, one wrongly signed vote | the same certificates where the quorum is more than one vote and some votes are forged |
| `liveness` | 2 nodes, 4 envelopes, one batch or two, 1 restart, no symmetry | does every open slot close and every benchmark end, with less left to do after each step of the driver; what an OK means; where heads may be |
| `submission` | 11 bodies, 2 slots, 3 appends, 2 faults, 3 times of day | both ways onto the ledger together, ids and amounts |
| `chaos_middleware` | 4 peers, 6 target lists, 4 changes, 3 requests | peer lists, minimum size, forged votes only under a fault |
| `deployment` | sizes 2 and 3, 2 stops, 4 generations of keys | matching keys, nothing of another cluster in what is measured |
| `early_votes` | 4 nodes, 2 proposals | finding: votes for one proposal prepare another |
| `lost_record` | 3 nodes, slots 1 and 2 | finding: committed, and not on the ledger |
| `unwired_stuck` | 2 nodes | finding: an open slot without a watchdog |
| `ledger_append_only`, `ledger_fallback` | 2 transactions, 5 requests, 3 faults | findings: entries lost; a cut the fallback does not catch |

Bounds.

- `MaxPosts` bounds the accepted pre-prepares per node and slot: two let an old
  watchdog meet a new attempt and old votes prepare it; a third attempt meets the
  same mixture of one older attempt and itself. `MaxRestarts` = 1 is a restart at every
  point of an attempt.
- `Strays` bounds the votes that come with a wrong signature. In `retry_pair` these are all
  votes for one of the two proposals, of both phases and in both directions, at any
  time; in `retry_four` a PREPARE of an honest node to the Byzantine one, between its
  eviction and its first forged COMMIT, which is there to be answered and dropped. In
  the other runs there are none: their questions are about votes that count.
- `fast_forward` adds `SecondSlotBound` (the second slot is given to one node only) and
  `ResetBound` (heads are reset only where an older slot is open to be discarded); the
  effect under test is local to one node.
- `retry_four` uses `RetrySpec`: a slot is posted again only once every node has evicted
  the first attempt and received a quorum of late PREPAREs; the Byzantine node forges
  each vote once, for one receiver, and of the second attempt the votes of two
  receivers and one watchdog are followed. It reaches COMMITTED states, and, in the
  first attempt, states in which forged votes fill a quorum.
- `liveness` uses `BoundedSpec`: with one batch of one record everything may happen to
  that record but the loss of its second PREPAREs and the head resets; with two
  batches the votes are lost, and what is left is between heads, resets, watchdogs
  and late posts. The first leader is n1. The run needs `OkNodes` = 2, as the cluster
  has two nodes.
- `submission` takes bodies around the edges: ids whose digits can be divided in two
  ways, two spellings of a proposer, amounts at the limit and around zero, right and
  wrong signatures. Its
  timestamps have two digits, so that one of the bodies has fewer.
- `deployment` allows two stops although `KeysMatch` is about one: the second is what
  its guard and `MeasuredAsAssigned` are checked against. `MaxMade` only ends the run.

The restrictions remove behaviours of clients, of the network and of timing, never a
branch of a handler, and the proofs do without them. Deadlock is not checked:
the bounds stop every instance.

The runs of `MCAgentConsensus` use `Permutations(Node)` as symmetry, for invariants and
action properties only. Each passing property has a mutant in `PROJECT.json`, a
plausible slip in the code (the watchdog left out, `>` for `>=`, the node among its
peers, a signature on no phase, only the files of one kind counted) under which the same run refutes it. The
mutated operators stand in the modules under "Faulty variant" and nothing uses them.

Fairness (`liveness` only) is weak fairness of each background task and of the
driver. The event loop runs every task to its end: the watchdog sleeps for a fixed
time and each post gives up after two seconds. The driver always goes on: posts and
resets give up after two seconds and questions after half a second, so its
`gather` returns and its loops are finite. Nothing is assumed of the network, which
may lose everything, of the nodes' answers, or of restarts.

## Findings

1. `tracker.quorum` does not exist; a pre-prepare raises after opening the slot
   and before scheduling its watchdog (`unwired_stuck`).
2. Votes stored before the record are counted for any transaction
   (`early_votes`).
3. A fast-forward drops the record of an open slot and keeps its stage, so that
   a slot is reported committed and never written (`lost_record`).
4. A write that stops early empties the "append-only" ledger
   (`ledger_append_only`), and one that stops inside a character blocks both
   writers (`ledger_fallback`).

## Proofs

All theorems hold for every finite set of nodes, all sets of slots and
envelopes and all bounds; the only assumptions are the named ASSUMEs of the
modules (the set of nodes is finite and not empty, slots are natural numbers,
each transaction id has a slot, every planned batch has its slots, the driver's mode
is `NONE` or `OFFLINE`, ...), which TLC
evaluates in the runs. The theorems are about `Spec`, `ChaosSpec`, `DriverSpec` and
`SubmissionSpec` and not about their bounded instances.

Two of the assumptions say something about the world. `ClockAssumption` (`Submission`): the
timestamps that the clock check can let through have one length, which is true of
Unix times from 2001 to 2286. `ResetAssumption` (`BatchDriver`): the driver is one of the
clients of `/reset-head`, so the arbitrary clients of `AgentConsensus` may send what it
sends.

The library's induction theorems take the induction hypothesis as an operator, which
the provers cannot instantiate. `InductionLemmas` states induction for the membership
of a set instead and derives it from the library's fact that a non-empty set of natural
numbers has a least member, which needs no operator. What a recursive function
computes is then proved in three steps, here for `Only` (`ChaosFaults`) and `Digits`
(`Submission`): by induction, tables that satisfy the equation up to n exist (and, for
`Digits`, which needs tables of every length, agree); so the function that `CHOOSE`
picks satisfies it; a second induction shows what it returns.

Consensus (`AgentConsensusProofs`):

- `TypeCorrect`: the type invariant is inductive. It includes that no missing
  record reaches a ledger.
- `StallsAreGuarded`: inductive with the types alone. A step that takes a task
  away is the watchdog, which closes the slot, or moves on to the watchdog.
- `QuorumsAreNotIdle`: inductive with the types; the promotion is tried on both
  sides of the race between votes and record.
- `CountedVotesAreSigned`: a vote counts with its sender's signature on that transaction
  and phase and is then a post under way (`OwnSignature`); with any other it changes
  nothing (`WrongSignature`). `NetSigned` adds that every post under way was signed by its
  sender and goes to another node. The other proofs start from the same fact, put
  together in `EffectiveStep`.
- `DecisionsAreCertified`: `CertInv` adds `RecordInSlot` (a record is stored under
  its own number, so a ledger entry belongs to the slot that was decided) and
  `PreparedCertified` (a prepared slot has its quorum of signed PREPAREs,
  even after the votes have been discarded, because signatures are history).
- `FirstAttemptsNeverCommit`: `RepostInv` adds `TasksPosted`, `LateClosed` (a node
  that has posted PREPAREs for its only attempt is no longer in PRE_PREPARED) and
  `QuorumOut` (once any node is promoted, a quorum of nodes can no longer be). A
  decision also needs a quorum of COMMITs from promoted nodes other than the
  decider, so the cluster holds two disjoint quorums and one more node; with
  2(2f + 1) + 1 <= n this is n = 3 only (`TwoQuorumsAndOne`).

One slot (`SlotLifeProofs`):

- `SlotsLive`: the refinement of `SlotLife`, one lemma per step, under `LifeInv` (`RepostInv`
  and the stages a slot may be in while a task of it waits). A commit appends at
  most one entry, and of the slot it decides, because a record is stored under its
  own number (`RecordInSlot`).
- `EntriesArePosted` follows from the refinement and `WrittenOncePerPost`, the
  invariant of the abstract machine; `CommittedStay` from the watchdog's stage check.
- `CommittedAreWritten`: a record held by a decided slot was there when it was
  decided, since a new record opens the slot again.
- `DecisionsHaveAudience`: with `PartPosted` (whoever signed a vote, or holds an open
  slot, was given it), the decider and the signers it counted are more than a quorum.

Faults (`ChaosClusterProofs`, `ChaosFaultsProofs`):

- `ChaosDecisionsAreCertified`: a forged vote is signed with the sender's own key and names
  another transaction of the same slot, so it passes the check and `CertInv` survives
  it; `OwedByByzantine` says who forges.
- `HonestCommitsCost`: `RepostInv` restricted to the honest nodes (`ChaosRepostInv`).
  The quorum of PREPAREs behind an honest promotion and the quorum of COMMITs behind
  the decision share no honest node, so |Byzantine| + n >= 2Q + 1 (`DecisionCost`). For
  Byzantine = {} this is `FirstAttemptsNeverCommit`.
- `NodesKeepOrder`, `ChaosSlotsLive`, `ChaosCommittedStay`: what holds of a node's own
  slots holds under any number of Byzantine nodes (`NodeInv`). A forged vote changes
  nothing at a node until it is received, and the handlers treat it as they treat any
  vote. `NodeInv` does without `RepostInv`, which is not true here.
- `DecisionsHaveHonestAudience`: the counterpart of `DecisionsHaveAudience`. `PartPosted` of the
  honest nodes survives forged votes, so the decider and the signers it counted are
  Byzantine or were given the slot. No run lists its property: within the bounds of
  `retry_four` a slot is posted again only after every node has been given it, and no
  slip in the code could break it there.
- `FaultsAreUndone`: the list saved by the first fault is the full one, and until then
  nothing was cut.
- `FaultsTyped`, `NoPeerLost`, `EnoughStayActive`: under `FaultInv`, which adds to the types
  that a fault always starts from the full list (`PeersInv`) and that the two lists of a
  Byzantine node are the ones `set_fault` computes from it (`ByzantineSplits`). They rest on what `Only` does to a list: it keeps exactly the members asked for
  (`OnlyKeeps`), so that the active and the cut-off peers share the list between them,
  and a list that names nobody twice has as many members as entries
  (`InjectiveCount`), so that the top-up is large enough.
- `ForgeriesUnderFault`: the drop list read after the answer is empty, or, by
  `ByzantineSplits`, the cut-off part of the list, which shares no peer with the active
  one.

The driver (`BatchDriverProofs`), under `VerdictInv`:

- `DriverTyped`: with `Position` (where the driver is among the batches, the slots and
  the rounds of the current record).
- `OkTakesTwoRounds`, for the modes `NONE` and `OFFLINE`: a node is given a slot once per round at most (`Offers`), so an
  OK after one round is a decision of a slot posted once, and `RepostInv` leaves only
  n = 3.
- `OkIsOutvoted`: each node that said yes has a quorum of signers other than itself
  behind it, and signatures do not go away between two questions. If the signers were
  no more than a quorum, none of the confirmed nodes could be one of them, and both
  sets together would outnumber the cluster.
- `HeadsStayBehind`: what is still under way, a post or a reset, names slots that have
  been posted.
- `DriverGoesOn`: the variant behind `BatchRunEnds`. Each step of the driver
  lowers `Left` (batches, stages of the batch, records, rounds, answers, nodes to ask)
  lexicographically, no step of a node raises it, and a set of such values has a lowest
  one (`LowerEnds`, a fact about the order). So the driver takes finitely many steps in any behaviour, fair or not; that it
  takes the next one is the fairness that TLC's run assumes.
- `DriverImplementsCluster`: a driven cluster is a cluster of `AgentConsensus`, because the
  heads it is told to take are slots of its batches (`ResetsInSlot`). `DrivenClusterKeeps`
  carries the theorems about `Spec` over.

The ledger (`SubmissionProofs`):

- `StoreIsLossyLog`: the inductive invariant says that the list being written extends
  the readable history by one entry; each step then maps to a step of `LossyLog` or to
  a stutter. `SubmissionsKeepLog`: every step of `Submission` is one of `LedgerStore`.
- `CommittedReachLedger`: `SettledInv` says that a committed record outside `hit` is in
  the list being written, or in the readable one; an append keeps what was there, and a
  failure puts every slot into `hit`.
- `NothingIsInflated`: arithmetic of the truncation and the checks that admitted
  the body.
- `IdsAreUnique`: what is hashed in common gives the cleaned proposer, slot, timestamp,
  action and amount. A numeral determines its number (`DigitsInjective`). What follows the
  digits is one element, the timestamps before it have one length, and a proposer below
  ten has one digit; so both preimages divide at the same places and their parts are
  equal in turn (`ConcatSplits`, `PreimageRead`). Everything admitted was within the drift
  of some time of the clock (`AdmittedFresh`), which is where `ClockAssumption` applies.

Deployment (`DeploymentProofs`):

- `ClusterKeysMatch`: `FilesInv` says that the files are of one generation until a
  command stops half-way (`Whole`), and that after one such stop files of one size
  still are (`Paired`), because new keys are made only for a size the old ones are
  not of; `Deploying` that the nodes deployed so far agree.
- `ScenarioFaults` (`MeasuredAsAssigned`): `FaultInv` follows the script from its `down` to
  its batches: the cluster was emptied, rebuilt and faulted in this order, or the
  handler ran.

Only model-checked: `OpenSlotsClose` and `BatchRunEnds`, which are liveness under
fairness. Every other property of a passing run is a theorem. The violated properties
are shown by the traces of their runs.

## Not claimed

Agreement. Two nodes may commit different transactions in a slot when it is
posted more than once (votes of one attempt count in the next, and a node holds
one record at a time), and with three nodes a single vote is a quorum. Nothing in
the repository promises agreement in these cases; the certificates above are
what the code does guarantee.

## Not modelled

- Cryptography itself, the form of digests and dates, HTTP framing and the 422
  answers, which change no state.
- The tracker methods that nothing calls (`add_pre_prepare`, `add_prepare_vote`,
  `add_commit_vote`, `has_pre_prepare`): no state of the program comes from them.
- Docker networks, images and health polls; the convergence report, the CSV file and
  the charts made from it.
- The order of node names as strings from ten nodes on, for leaders and faults.
- The driver over nodes that forge votes (`MALICIOUS_BYZANTINE`).
- A correctly signed vote delivered a second time by somebody who recorded it.
- Two profilers, or two `orchestrate.py`, at the same time.
