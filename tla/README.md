# ict-rs, verified

TLA+ models of `ict-rs`, a Rust framework that runs blockchain integration tests: it creates
containers for chains, relayers and helpers, drives them with commands, and takes them down
again. The models are translated from the code under `ict-rs/src`; paths below are relative to
that directory. TLC checks them on small instances, TLAPS proves most of the results for every
value of the constants.

    tlc -workers 2 -config MCChain.cfg MCChain      # a run: MC module and its cfg
    tlapm CosmosChainProofs.tla                     # a proof

## 1. The system

Everything `ict-rs` does to the world goes through a container runtime (`RuntimeBackend`), an
asynchronous interface of some twenty calls, each of which may fail. What the library keeps in
memory are handles: container ids, network ids, names. Its correctness is mostly about
the agreement of these handles with what exists in the runtime, over failures, retries,
cancellation and the death of the process, and about the order of commands to the nodes.

| component | state it keeps | operations | what is hard, and what makes it correct |
|---|---|---|---|
| Cosmos chain (`chain/cosmos.rs`, `cosmos/node.rs`) | node and sidecar structs with a `container_id` each, `network_id`, `initialized`; in the runtime containers, home volumes, a network | initialize, start, stop, stop_all_nodes / upgrade_version / start_all_nodes, pause, sidecar calls | every await may fail and calls may be repeated; a killed run leaves resources under the same names. Handles agree with containers, success means complete, homes survive an upgrade, nothing is lost silently |
| Genesis pipeline (same files) | files on private volumes: keys, gentxs, genesis, config | one exec per step, inside `start` | exit codes checked for some commands and not for others; `start` repeated over the files of a failed one. What is launched is consistent |
| Sidecars (`sidecar/mod.rs`) | a `container_id` each | create, start, health wait, stop | before or after the chain, within the chain's calls |
| Interchain (`cosmos/interchain.rs`) | `built`, chains, relayers, links | build in phases, close, mark_built | failure or cancellation between any two steps; one network nobody owns. close leaves nothing, build is up |
| Docker relayer (`relayer/docker_relayer.rs`, `rly.rs`) | a home volume, `running_container` | one-off containers, start, stop | a container may exist without a handle |
| Hermes (`relayer/hermes.rs`) | the map of paths: identifiers parsed from command output | clients, connections, channels, link, flush | output that cannot be parsed, retries. A recorded path is a real one |
| Transactions (`cosmos/node.rs`, `chain/mod.rs`, `cosmos/tx*.rs`, `cosmos/governance.rs`, `cosmos/cosmwasm.rs`) | none: the sequence is on the chain | signed commands, block waits | concurrent tasks, blocks proposed before a transaction arrives, waits that give up. Ok means accepted, a wait means committed |
| Test harness (`testing/mod.rs`) | the chain, `cleaned_up` | setup, cleanup, Drop | cancellation, panics, a Drop that blocks a runtime thread. A dropped test leaves nothing, and Drop returns |
| Single-container nodes (`chain/ethereum.rs`, `chain/zakura.rs`, `nostr/relayer_manager.rs`) | one handle each | start, stop, reuse of a node that answers | names shared by two owners. No orphans, no theft of one's own container |
| Files and queries of a node (`cosmos/node.rs`) | files in the container, at fixed paths | write_file, create_snapshot, wipe_data, apply_config_override; queries | sequences of commands that stop anywhere and that two tasks may be in at once; answers that make no sense. No signing state is lost, Ok means done, no count is ahead of the chain |
| Governance, contracts (`cosmos/governance.rs`, `cosmos/ibc_wasm.rs`, `cosmos/cosmwasm.rs`) | none: ids are read from command output | propose, vote, wait; store, instantiate, execute | the answer comes before the block and rarely has the id; the id 1 is guessed. A success is one's own |
| Relayer configuration (`relayer/hermes.rs`, `relayer/docker_relayer.rs`, `relayer/rly.rs`) | config file, phrase files, keyring on a volume; chains in memory | add_chain_configuration, add_key, restore_key | concurrent tasks, clones, repeated calls. What was accepted is in the file, the wallet is the key |
| Event watcher (`cosmos/event_watcher.rs`) | a task, a channel of 256, a shutdown signal | connect, shutdown, drop, receive | a full channel, a lost connection. No event is lost or out of order, a shutdown ends the task |
| Quickspawn (`quickspawn/`) | three files per snapshot; a set of spawned nodes | save, load, exists; Drop of the set | a crash between two writes, two savers; a Drop that may not block (`manager.rs` is commented out) |
| Runtime backends (`runtime/`) | Docker, a mock, Kuasar | the trait; create_network with its search for a subnet | whether a test on the mock stands for one on Docker; tests that collide |
| Examples (`examples/`, `ict-rs-cw-orch/examples/`) | what each has made and seen | the programs themselves, step by step | errors that are passed over, waits without end, shutdowns that miss what was made. Ok means the goal was seen, nothing stays |
| Data and wrappers | none | configuration, encoding, module commands, code generation, CLI | pure, or one command each |

How they interact: a test calls the harness or the `Interchain`; those call the chains, through
the `Chain` trait, and the relayers; all call the runtime. Chains of one `Interchain` share a
network. Relayers and tests sign transactions with the same keys. Nothing is persisted by
the library itself: what survives a crash are containers, volumes and networks.

`PROJECT.json` lists every component with its status, and the hazards, each at the line where it
bites with the properties that cover it.

## 2. Modules

| module | models | state |
|---|---|---|
| `CosmosChain` | one chain over Docker | per name: status of the container, is the binary running, is the image current, volume; per struct: `held`; the call in progress: `pc`, `todo` |
| `ResourceLedger` | the abstract promise: each container name is free, held or lost, and lost only by a crash or with a report | `owner`, `reported` |
| `GenesisPipeline` | `start` before the launch | keys, gentxs, genesis, config and peers of each node's volume |
| `NodeFiles` | file operations of a node by concurrent tasks | the files, the signing state and its backup, per task the call and its place in it |
| `ChainReads` | what readers make of an answer | how far the chain is, per task its last two readings |
| `HermesPaths` | paths and the IBC objects they name | the chains' lists of clients, connections, channels; `paths` |
| `RelayerSetup` | what a Hermes or a Go relayer is told before it relays | config file, phrase files, keyring, memory of each clone |
| `TxSequence` | transactions of concurrent tasks on one chain | committed sequence, mempool, a block being decided; per task the call |
| `Governance` | proposals of concurrent tasks | proposals, ballots, mempool; per task the id it read or guessed |
| `Contracts` | codes and contracts of concurrent tasks | codes, contracts, what was executed; per task its ids |
| `TestTeardown` | harness of a `TestChain` and a `TestEthChain` on a tokio runtime | what is left and held per chain, the thread that is blocked |
| `RuntimeBackends` | the Docker and the mock backend, given the same calls | containers, volumes and networks in both worlds |
| `NetworkCreation` | `create_network` of several tests at once | networks with their subnets; per caller its attempt |
| `SpawnedSet` | Drop of a spawned set | containers and network, how far the Drop is |
| `ChainCalls` | what initialize, start and stop of one chain may come to, for who calls them | constants: the outcomes of a call |
| `CosmosChainCalls` | `CosmosChain` with its caller's memory of the chain | `known`, `netKnown`: the chain and its network as the last call left them |
| `Interchain` | build and close with one-off and relaying containers | network, chains, relayers, plan of the call |
| `StandaloneNodes` | Anvil, Zakura and Nostr relay owners that share a container name | the container, the handles, the steps of the owners |
| `EventWatcher` | the watcher's task and its channel | subscription, task, channel, receiver, signal |
| `SnapshotStore` | saves of one snapshot | contents of the three files, the savers |
| `ExampleSteps`, `ExamplePrograms` | vocabulary of the examples; how a program runs | facts that hold, pending transactions, place in the program |
| `IbcExamples`, `NodeExamples`, `LeanExamples`, `AppExamples`, `ExampleCatalogue` | the programs and their goals | constants |

The `MC` modules instantiate the others for TLC. The proofs are in eight modules: `TxSequenceProofs`,
`CosmosChainProofs` and `CosmosChainLedger` extend the component they are about (the last two
`CosmosChain`, and `CosmosChainLedger` also `CosmosChainCalls`); `ChainUseProofs`, `NodesProofs`, `RuntimesProofs`, `RelayersProofs` and
`ProgramsProofs` extend the MC module that puts several components into one run, and their
theorems are about its instances, so that they state the very properties the run checks.

How they compose: `CosmosChain` implements `ResourceLedger` (property `NeverLostSilently`,
theorem `ChainKeepsLedger`). `Interchain` takes each call of a chain as one step, with the outcomes
that `ChainCalls` lists; that `CosmosChain`, request by request, has no others is proved
(`CallsAlwaysAgree`, `CutsAlwaysAgree`), so the two modules meet at one contract. The others take
their neighbours as environments with every
outcome: `GenesisPipeline` is the single step `GenesisPhase` of `CosmosChain`; what a one-off command does on the chains is in
`HermesPaths`, its waits and fundings in `TxSequence`; a call of the library is one step of
an example program, and the examples add what a program does with the outcomes.

An MC module extends one component and instantiates others that share no state with it. Each
behaviour is about one of them, chosen by `part` in the initial state, while the others keep
theirs: one run then answers for several components at the cost of their sum, and nothing is
lost, because no step of one could change or enable a step of another.

Conventions. One action per await, with the guard of the code before it and every assignment
up to the next await. A call that runs is a program counter (`pc`); a loop over nodes is the set
of items still to visit (`todo`). Loops run in the order of the code where a property can tell;
otherwise the worklist is visited in any order, which covers it. The steps of a call that
fail without an effect are one action (`StepFails`, `Fail`) or one disjunct. Docker is external:
names are unique, ids are never used again, a volume in use and a network with a running
container cannot be removed, a removal may fail before or after the container was stopped.
Definitions marked (Mutant) are wrong on purpose: each replaces the definition after it in a
test that a property can fail, and nothing else uses them.

Correspondence by module:

- `CosmosChain`. `held[n][c]` is the `container_id` of the c-th struct of name n: "none",
  "live" (the container that carries the name now) or "dead". A second `initialize` after
  a failed one pushes the structs again, which is why there are copies. `reported` is whether
  the call in progress logged or returned a failure. Groups of actions: `InitSteps` (pre-cleanup,
  network, pull, create, start, init home), `SidecarSteps`, `StartSteps`, `StopSteps`,
  `UpgradeSteps`; `Crash` ends the process anywhere and keeps the runtime.
- `GenesisPipeline`. `Checked` and `Unchecked` are the two treatments of an exec. `carried` is
  the genesis on its way through the process from the primary to the others. A key is
  identified by the attempt that made it.
- `NodeFiles`. The calls take `&self`, so two tasks may be in them; their temporaries, archive
  and backup have fixed names. A command that exits with a failure ends a call only where the
  code looks at the exit code; `unseen` remembers that one was not looked at, `met` that
  another task was on the same paths.
- `ChainReads`. Six kinds of answers, and one operator per reader that says what becomes of
  each: a value, an error, or text taken for a value.
- `HermesPaths`. An identifier is a position in a chain's list, 0 is the empty string;
  `guessed` remembers that one fell back to number 0.
- `RelayerSetup`. `mem` is what a clone of the Hermes relayer has in memory, from which it
  rewrites the whole config; the Go relayer keeps it all in its volume.
- `TxSequence`. `local` holds what a call read before an await; a block is decided in two
  steps (`Propose`, `Commit`), so a transaction may miss the next one.
- `Governance`, `Contracts`. A command answers before its transaction is in a block: `tells` is
  whether the answer has the events, and `guessed` that the id fell back to 1.
- `TestTeardown`. `CanRun` and `CanDoIo` are tokio: which threads poll tasks and which drive
  I/O while one of them is blocked in a join.
- `RuntimeBackends`. The k-th container a caller was given is the k-th in both worlds. `agree`
  ends the comparison at the first call with two different answers, which `last` holds.
- `NetworkCreation`. `hash` of a name and the sum that makes the next subnet are unsigned of
  width `Width`; whether a build wraps or panics at the overflow is chosen at the start.
- `SpawnedSet`. `ctx` is the thread the set is dropped on: `Handle::block_on` panics in a task.
- `ChainCalls`. A chain is a record of what its owner knows of it; `up` is whether it was started
  and not stopped since, which no field of the code says. `Left` is what a stop may leave.
- `CosmosChainCalls`. `Remembers` renews the memory in every step after which no call is in
  progress; the memory constrains no step.
- `Interchain`. `plan` is the list of phases left; `spoiled` is set when a container or volume
  got out of reach of every handle.
- `StandaloneNodes`. `kind` chooses which of the three owners the two are; `told` and
  `swallowed` remember that a failure was reported or ignored.
- `EventWatcher`. While the task is in `send` it looks neither at the subscription nor at the
  signal; `rx` is who holds the receiver, a public field that may be moved out.
- `SnapshotStore`. A write truncates its file and then fills it; a content is who wrote it and
  whether it is torn.
- Examples. A step is a call with what it needs, what it gives, and what its failure does (`?`,
  panic, logged, recorded for a verdict); a program is its segments in order, with its
  shutdown as the last. `good` is a world in which a call fails only when what it needs is
  missing; otherwise every call may fail. `ExamplePrograms` runs them; the other modules
  are the programs, translated line by line.

## 3. Runs

| run | question | result |
|---|---|---|
| `chain` | the life of one chain with failures, retries and crashes | holds: `HandlesSound`, `InitializeIsFresh`, `HomeKept`, `StartIsComplete`, `QuietStopIsClean`, `NeverLostSilently` |
| `chain_stale` | does initialize remove all stale containers, as its comment says? | violated: the sidecars of a killed run stay |
| `genesis` | what a test does to a chain: is what `start` launches consistent? does a file operation do its work, a proposal or a contract turn out one's own, a reader tell the truth? | holds: `ValidatorsBacked`, `LaunchConsistent`; `SigningStateKept`, `OkIsWhole`; `PassedIsOwn`; `RunsOwnCode`; `NeverAhead` |
| `genesis_copy` | does every node get the primary's genesis when `start` is Ok? | violated: exit codes of the copy are ignored |
| `hermes_paths` | are the recorded identifiers real? does a relayer work with what it was told? | holds: `LinkedPathIsSound`, `FlushReachesBothEnds`; `ToldIsKept` |
| `hermes_fallback` | are there no silent defaults, as the README of ict-rs says? | violated: an unparsable id becomes `connection-0` |
| `tx_sequence` | what does Ok of a transaction or of a wait mean? | holds: `OkIsAccepted`, `TwoBlocksConfirm`, `CallsReturn` |
| `tx_visible` | has the transaction `exec_tx_with` waited for been committed? | violated: any higher block satisfies the wait |
| `teardown` | is a dropped test or spawned set clean, and does Drop return? where do the mock and Docker part? does `create_network` try enough? | holds: `GoneIsClean`, `SpareDropReturns`; `SetGoneIsClean`; `FirstDifference`; `GivesUpAfterFour` |
| `drop_current_thread` | does Drop always return? | violated on a current-thread runtime with Docker |
| `interchain` | build, close and their retries; do the examples show what they claim? | holds: `CloseIsClean`, `BuildIsUp`, `CallsEnd`; `OkIsRight`, `CleanExit` |
| `standalone` | two owners with one container name; is the watcher complete, and does it end? does a saved snapshot stand? | holds: `NoOrphan`; `NothingLost`, `ShutdownEnds`; `LastSaveStands` |

A violated run checks what a comment or document says of the code; the finding in
`PROJECT.json` quotes it. Every property of the other runs has a mutant in `PROJECT.json`:
a plausible bug under which the run fails. Many properties hold under a condition
(`ignored`, `guessed`, `spoiled`, `told`, `met`, `unseen`, `silent`): the condition is what the
code overlooks, guesses or reports, and outside of it the properties say that nothing else can
go wrong.

What the conditions and the readings show of the code, beside the findings:

- An id of a proposal or a code that cannot be read is taken to be 1. That is right for the
  first one on a chain where nobody else proposes or stores, and only there.
- A reader turns several failures into 0. A count is never ahead of the chain for it, so no wait
  ends early, but the difference of two counts may show a loss or gain that never was.
- Two tasks in `wipe_data` of one node can lose the signing state.
- The mock refuses two calls that Docker accepts, a copy out of a container and the removal by
  name of stale containers, so a test on the mock never exercises the stale clean-ups.
- A spawned set that is dropped in a task of a runtime (the body of a `#[tokio::test]`) panics
  and leaves everything.
- Among the examples: `ibc_transfer_e2e` and `pfm` assert nothing about the transfer; `no_rick`
  prints PASSED even if its proof was refused; `cosmos_upgrade` as it is by default runs its
  query without the binary and cannot complete; `hashmerchant` and `loyalty_rewards` end with
  Ok whether or not the chain has their root; `trustless_builder` and `loyalty_rewards` keep
  what they made for the shutdown only after a later step, and may leave it.

### Bounds

- `chain`: one validator, one full node, one sidecar (before or after the chain, chosen at
  initialize), two initializes per process, any number of crashes. Two nodes are enough for a
  loop to fail in the middle, and two copies for structs to evict each other. About
  3.7 million states. The theorems remove the bounds for all of the properties.
- `genesis` (2.4 million states): two validators (one whose files travel and one that collects
  them), one wallet, a faucet, two starts; two tasks with two file operations each on files of
  two chunks, which is what it takes to tear one; two tasks with two workflows
  between them (`Begun` is bounded by `MaxCalls`), two validators of which both have to vote,
  two codes; one reader, since readers share nothing, and a chain that grows twice, so that
  two readings may differ.
- `hermes_paths` (2.5 million states): a hub and two spokes, two paths over it, at most two
  objects of a kind per chain: the second object is what a fallback to number 0 confuses with
  the first. Two tasks, two chains and three calls for a relayer that is told of them.
- `tx_sequence` (565 thousand states): two tasks with two calls, one key each or a shared one (the
  accounts are interchangeable, so the key of one task is fixed); the polling limits
  (30 and 5 in the code) are 2, the chain stops at height 2 (3 in `tx_visible`).
- `teardown` (211 thousand states): a Cosmos chain and an Anvil one, three workers: more
  workers than chains. A spawned set of a validator and a full node. Two container handles,
  one network and two names for the comparison of the backends: the properties of a call
  concern one container and the name it may collide with. For the subnets, 256 stands for
  2^64: both are powers of 16 and leave the same remainder by 240, the number of subnets;
  hashes 0, 230 and 255 and process ids 1 and 203 make the sum stay below, wrap, and hit
  subnets that were tried before.
- `interchain` (735 thousand states): two chains, one relayer, one link, three calls: build,
  close, build. The examples are complete programs, without a bound, except that a packet or
  block that a program waits for arrives or does not.
- `standalone` (361 thousand states): two owners, three calls each, three containers. A channel
  of capacity 1 in place of 256, with three events, so that it fills up twice; the theorem
  `NothingEverLost` is for every capacity. Two savers of one snapshot.

`CHECK_DEADLOCK FALSE` stands where a bound on calls, or the end of a test, stops the system.

### Fairness

Where only safety is checked none is assumed. The other modules assume weak fairness of the
code's own steps, and of nothing the environment does to help:

- `TxSequence`: `WF(Step(t))`, a task that is ready is polled by tokio, and its loops are timed.
  No fairness for the chain: `CallsReturn` holds for one that stalls.
- `TestTeardown`: `WF(Stop(c))`, a stop that can run does. That it can run depends on the
  threads, which is the point of the run.
- `Interchain`: `WF(Step)`, requests are answered, with success or failure.
- `EventWatcher`: `WF(Task)`, tokio polls the watcher's task. No fairness for whoever receives:
  `ShutdownEnds` holds although the channel may stay full.

## 4. Proofs

The theorems state every safety property and every action property that the passing runs check,
for every value of the constants. All are of the form
`Spec => []P` or `Spec => [][A]_vars`, and one is a refinement; two more connect `CosmosChain` with
`Interchain`, which no single run could. Where a run looks at a component
through an MC module, the theorem is about that module's instance, with the specification of
the component, and `RunTyped` adds that the whole run is well typed. A proof begins with the invariant, followed by lemmas about
the building blocks of the actions, one lemma per action or group of actions, and the theorem.

Nothing is assumed but named assumptions on constants, which TLC evaluates in the runs:

| assumption | says |
|---|---|
| `ConstAssumption`, `GenesisAssumption` | at least one validator (the code raises 0 to 1), one struct per name, one start; any number of full nodes and sidecars |
| `LinksAssumption`, `InterchainAssumption` | links are between the given chains, in `HermesPaths` between two different ones |
| `RelayersAssumption`, `TxAssumption`, `UseAssumption`, `StandaloneAssumption` | bounds are natural numbers, positive where a call is made at all; tasks are finitely many |
| `WatcherAssumption` | the channel has a capacity |
| `TeardownAssumption` | the Anvil chains are some of the chains |
| `RuntimesAssumption` | a spawned set has a node (its network is removed through a node's runtime); the width is a number that leaves 16 by 240, as 2^64 does |
| `CatalogueAssumption` | the example programs have the shapes `ExamplePrograms` defines: facts about the text of a program, none about its runs |

### One chain (`CosmosChainProofs`, `CosmosChainLedger`)

- `TypeCorrect`. TypeOK alone is not inductive: creating the nodes increments `copies`, which
  stays in range only because an initialize begins while there is room. `Room` says that a call
  on its way to the creation still has room for a copy.
- `InitializeAlwaysFresh`, `StartAlwaysComplete`, `QuietStopAlwaysClean` rest on `CallsInv`, which
  says of each step what the call has reached: which structs its loop has been at and what
  holds of them since. In the loop of an upgrade the node between its removal and its
  creation is the exception (`Upgrading`); that there is only one such node is `OneCurrent`, the
  order of the loop. What was visited stays as it was because a later copy of a struct evicts
  an earlier one only in the loops that create, and these are followed by one that asks every
  struct again.
- `HomeAlwaysKept` needs no invariant but the types: it goes through all the steps that touch a
  volume.
- `HandlesAlwaysSound`: no two structs hold one container, and a held id names one that exists.
  The lemma `SoundAt` reduces a step to the one name it works on.
- `ChainKeepsLedger`: `CosmosChain` implements `ResourceLedger`. With the invariants above, every
  step maps to an action of the ledger (Acquire, Release, Lose, Report, Die) or leaves its
  variables alone. `HandlesSound` is needed when a struct gives up its id: the container is lost
  then and only then, because no other struct holds it.
- `CallsAlwaysAgree`, `CutsAlwaysAgree` (`CosmosChainCalls`): the calls of the chain as `Interchain` takes
  them. When initialize, start or stop returns, what has become of the chain is among the
  outcomes of `ChainCalls`; an upgrade or a sidecar call has changed nothing but which node
  containers there are, and given up no home; a call that is dropped at any of its
  awaits leaves what `Interchain` has for it: the failure of the call, nothing at all, or `StopCut`.
  First come lemmas on what every step does to what a caller sees (`Quiet`, `Kept`, `Fewer`,
  `Housed`); the invariant `Seen` then compares the chain with the memory, step of the call by step.
  The one Ok that needs more is initialize's, which comes only to a chain without
  structs: after it all copies of a node could be run in, and by `HandlesSound` there is one. The
  network is this chain's alone here; in `Interchain` others may keep it, an outcome that
  `StopOutcomes` has anyway. Two outcomes are easy to miss, and were found by comparing the two
  modules: a second initialize may give up a home, and stop may remove the network under a container
  that is left but does not run. The theorems say that there are no other outcomes, not that
  each occurs; a surplus one would only make the properties of `Interchain` harder to hold.

### What a test does to a chain (`ChainUseProofs`)

- `AlwaysBacked`, `LaunchAlwaysConsistent` (`GenesisPipeline`): `GenInv` follows the genesis from step
  to step: who has signed and is backed on the primary, who is in the genesis that is collected,
  which nodes have it (`Signs`, `Collected`, `Paid`, `Spread`, `Overridden`). Everything but the
  backing of the validators holds unless an exit code was ignored, since a second start works on
  the files of the first.
- `SigningStateAlwaysKept` (`NodeFiles`): `WipeInv` ties the place in a wipe to where the signing
  state is: it is missing from the data directory only when it is whole beside it.
  `OkAlwaysWhole`: `FilesInv` adds what a task that met no other has done of its call so far,
  and that two tasks on the same paths know of each other.
- `OwnOnePasses` (`Governance`): `GovInv`; a workflow makes one proposal at most, so an id that was
  read and is the workflow's own (`OneEach`, `OwnIsOwn`, `IdsKnown`) still is when it is polled.
  `OwnCodeRuns` (`Contracts`): `ConInv`, the same for codes, contracts and what is executed.
- `NoReaderAhead` (`ChainReads`): `ReadInv`, reader by reader; the list of timeouts, which is always
  empty, has to be known for the difference of two of its readings.

### Transactions (`TxSequenceProofs`)

- `TxTyped`, `OkAlwaysAccepted`, `TwoBlocksAlwaysConfirm`: `TxInv`. `ChainInv` says that a transaction
  in the mempool has seen at most one block go by without it, and is in the next one when
  that is decided. `Fits` says that a signer with a key of its own still has the right
  sequence number when it broadcasts.

### Relayers (`RelayersProofs`)

- `LinkedAlwaysSound`, `FlushAlwaysReaches` (`HermesPaths`): `HermesInv`. A record that was not guessed
  is sound as far as it goes (`RecordFits`: clients, then the connection over them, then the
  channel over it); the identifiers a call has parsed but not yet recorded are in `CallFits`.
- `ToldAlwaysKept` (`RelayerSetup`): `SetupInv`. The memory of the relayer is the longest of the
  lists its clones and the file have (`Remembered`), so a call that met no other writes
  everything that was accepted before it.

### Tests and the runtime below them (`RuntimesProofs`)

- `GoneAlwaysClean` (`TestTeardown`): `TeardownInv`. Of a chain no removal of which failed, the struct
  has the ids of what is left, a stop under way has still to try all of it, and nothing is left
  once cleanup has noted its end.
- `SetAlwaysGoneClean` (`SpawnedSet`): `Handled`, a node no longer on the Drop's list is gone, or a
  request failed.
- `PartAtKnownCalls` (`RuntimeBackends`): `RunInv`; while the answers agree the two worlds match,
  container by container and network by network. `Fits`, proved for each of the eleven calls from
  its table of moves, says that a call both accept keeps them matching, and that one refuses
  alone only if it is a known difference.
- `AlwaysTriesFour` (`NetworkCreation`): `NetInv`; an attempt asks for the octet that its number says,
  and all earlier ones were refused, over the wrap-around of the sum. At least four of the five
  octets differ (`FourDiffer`), for which the width has to leave 16 by 240.

### Beside the chains (`NodesProofs`)

- `NothingEverLost` (`EventWatcher`): what was received, the channel and the event in the task's hand
  are numbered one after the other, up to the next event to read, and each tells what its
  transaction was.
- `NothingOrphaned` (`StandaloneNodes`): `NodesInv`. Ids are given out once (`Apart`); while no failure
  was told or swallowed, container, volume and networks each have somebody that knows of them or
  is about to (`Reached`).
- `LastSaveAlwaysStands` (`SnapshotStore`): `StoreInv`. Savers that overlap know of it; one that met no
  other has filled the files before its step; after the last step all three are its own.

### The builder and the examples (`ProgramsProofs`)

- `CloseAlwaysClean`, `BuildAlwaysUp` (`Interchain`): `BuilderInv`. A call in progress has an end of its
  plan to do (`PlanFits`); `Closing` and `Building` say what it has reached, as `CallsInv` does for one
  chain. `InReach` is what close relies on: what is not spoiled has a handle, and the network
  is known to a chain. There has to be a relayer, since the initial state names one.
- `ExitAlwaysClean`, `OkAlwaysDone` (`ExamplePrograms`) are about any catalogue of programs of the shapes
  in `CatalogueAssumption`: a program is segments of lanes of steps; each goal is given or required
  by a step that a program cannot pass otherwise and that nothing undoes (`Shown`); all that
  lasts is removed by the shutdown, containers before the network (`Tidy`, but for the two
  programs listed as untidy). TLC evaluates the shapes on all the programs. The shapes do not give
  the theorems by themselves: that a program goes by a step only when it holds, whatever
  failed, was skipped or arrived late, is `ProgInv` (`SeenSoFar`, `RemovalAhead`).
- `OkAlwaysRight` adds to `OkAlwaysDone` that a program ends with Ok where nothing fails of itself and no two
  of its lanes met over one key, from the shape `InOrder`: what a step needs was given before it by a step that cannot have been
  passed over, and was not taken away since (`Served`); a transaction finds its key's
  earlier ones in a block, or else it is one whose failure the program survives
  (`Unrivalled`). `OrderInv` says, for each place that was passed, which facts hold and which
  transactions may be pending. All programs but `cosmos_upgrade` have the shape.

### Only model-checked

- Liveness: `CallsReturn`, `SpareDropReturns`, `CallsEnd`, `ShutdownEnds`. Fairness and ENABLED are
  beyond this prover.

## 5. What is not modelled

- `quickspawn/manager.rs`: 989 lines, commented out as a whole.
- Kuasar (`runtime/kuasar.rs`): the backend does not implement two required methods of the trait
  (`pause_container`, `unpause_container`), so the feature does not compile.
- Examples that do not run: `headstash` does not compile (a value is moved at line 246 and used
  at 403); `polytone_any_norick`, `lean_val`, `lean_waist`, `lean_stwo_dummy`,
  `hashmerchant_ve_oracle`, `suite_wasm_smoke`, `ibc_v2`, `ibc_wasm_lc` and
  `terp_brain_rewards` are no build targets (and some targets of `Cargo.toml` have no file).
  `marketplace_inventory_offline`, `loyalty_rewards_zkjwt` and `svg_mint_cw_orch_runtime` start no
  chain. The switch that keeps an example's containers is taken to be off.
- Encodings and formats (protobuf, JSON edits of the genesis, TOML fields, command lines), key
  derivation, chain specifications, Akash and Terp tables, code generation and macros, the
  cw-orch bridge, the CI command: data and conversions, without state of their own. What
  becomes of a bad answer is in `ChainReads`; the answers a test programs into the mock are
  the test's own.
- Log readers, image pulls, the Nostr client, host ports and addresses: reads of the outside
  world.
- The Merkle trees and hashes some examples compute: their roots are facts.
- Drop of an Anvil chain, a Zakura node or a relay manager used without the harness: the
  first two have none, the third only logs.
- Time: a timeout is a choice to give up after any number of polls.

## 6. Plan

Done, in this order, the most important first: `CosmosChain` with its ledger and proofs,
`GenesisPipeline`, `HermesPaths`, `TxSequence`, `TestTeardown`, `Interchain`, `StandaloneNodes`;
then `EventWatcher`, `SnapshotStore`, `SpawnedSet`, `RuntimeBackends`, `NetworkCreation`,
`NodeFiles`, `ChainReads`, `Governance`, `Contracts`, `RelayerSetup` and the examples; then the
proofs of their safety properties, and the contract between `CosmosChain` and `Interchain`.

Next, theorems: the same contract for the genesis phase and for the one-off commands of the
relayers, which their callers still take as steps with every outcome; abstract specifications of the
relayer configuration (a set of accepted chains) and of the snapshot store (a register of
whole snapshots), with the refinements, which the invariants above nearly give.

Next, models: the Merkle trees of `loyalty_rewards` against a reference definition; the merge
of configuration files.
