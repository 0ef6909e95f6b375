---------------------------- MODULE NodeExamples ----------------------------
(***************************************************************************)
(* The example programs about one chain: basic_cosmos, integration_test,   *)
(* circuit_deposit, no_rick, bulk_memory_gas, circuit_runway_epoch,        *)
(* snapshot, state_sync, bootstrap_mainnet and cosmos_upgrade.             *)
(***************************************************************************)
EXTENDS ExampleSteps, Sequences

NewChain == <<Initialize("t"), Start("t")>>

\* A check of what the host has to hold.
Needs(xs) == Each(xs, LAMBDA x : <<Do({}, {File("host", x)})>>)

-----------------------------------------------------------------------------
(* On the mock runtime, which answers every command.                       *)

BasicMain == NewChain \o <<Ask("t")>>

\* Every transfer is answered, also from a key that no keyring has.
IntegrationMain ==
  NewChain \o <<Ask("t"), Ask("t"), Ask("t"), Do({Up("t")}, {Seen("balance")}),
    Must({Seen("balance")}), Do({Up("t")}, {Seen("validators")}), Must({Seen("validators")}),
    Ask("t"), Ask("t"), Ask("t"), Do({Up("t")}, {Seen("height")}), Must({Seen("height")})>>

\* pay_circuit_deposit, and the answer that it covers.
RunwayMock == <<Ask("t"), Do({Up("t")}, {Seen("covered")}), Check({Seen("covered")})>>

-----------------------------------------------------------------------------
(* no_rick.                                                                *)

\* The key of the test, waited for.
DefaultKey ==
  <<NewKey("t", "default"), KeyAddress("t", "default")>> \o Fund("t", "default") \o <<Wait>>

\* The two files of the host, and the two parts that split_monolithic_circuit
\* makes of the second.
NoRickFiles ==
  <<CopyIn("t", "wasm"), CopyIn("t", "vk"), Check({}), Do({}, {File("host", "parts")}),
    CopyIn("t", "parts"), CopyIn("t", "parts")>>

NoRickStores ==
  <<Sign("t", "default", {File("t", "wasm")}, {Code("t", "1")}), Wait,
    Sign("t", "default", {File("t", "parts")}, {Code("t", "circuit")}), Wait,
    Sign("t", "default", {Code("t", "1")}, {Contract("t", "rick")}), Wait,
    Do({Contract("t", "rick")}, {Seen("rick")})>>

\* The code of the proof's transaction is printed, in CheckTx and in its block.
NoRickProof ==
  Needs(<<"proof">>) \o
  <<Check({}), Sign("t", "default", {Seen("rick"), Code("t", "circuit")}, {Seen("proved")}), Wait,
    Look({Seen("proved")})>>

NoRickTest ==
  Needs(<<"root", "wasm", "vk">>) \o NewChain \o DefaultKey \o NoRickFiles \o NoRickStores
    \o NoRickProof

-----------------------------------------------------------------------------
(* bulk_memory_gas.                                                        *)

\* tx_opts looks for the transaction twenty times; if it never sees it, the code
\* is that of CheckTx.
BulkTx(need, late) == Sent(Tx("t", "validator", need, late)) \o <<Look(late), Check({})>>

\* The first copy is allowed by its code alone; the second has to run out of gas.
BulkTest ==
  Needs(<<"wasm">>) \o NewChain \o <<CopyIn("t", "wasm")>>
    \o BulkTx({File("t", "wasm")}, {Code("t", "meter")}) \o <<Do({Code("t", "meter")}, {})>>
    \o BulkTx({Code("t", "meter")}, {Contract("t", "meter")})
    \o <<Do({Contract("t", "meter")}, {Seen("meter")})>>
    \o BulkTx({Seen("meter")}, {Seen("small")})
    \o BulkTx({Seen("meter")}, {Seen("trap")}) \o <<Check({Seen("trap")})>>

-----------------------------------------------------------------------------
(* circuit_runway_epoch.                                                   *)

\* Deposits are paid out at the end of an epoch, which is slept through; balances
\* that cannot be read are taken as 0.
RunwayDocker ==
  <<Rest, Ask("t"), Tx("t", "validator", {}, {Seen("epoch 1")}), Rest,
    Check({Seen("epoch 1")}), Ask("t"),
    Tx("t", "validator of 3", {}, {Seen("unbonded")}), Rest, Rest,
    Tx("t", "validator", {}, {Seen("epoch 2")}), Rest,
    Check({Seen("unbonded"), Seen("epoch 2")})>>

-----------------------------------------------------------------------------
(* snapshot.                                                               *)

\* A call of the runtime on the containers of the chain.
Runtime(need, give) == Do(need \cup {Box("t")}, give)

\* pause_container, copies of three directories, of which two may be missing,
\* and unpause_container; an error in between leaves the validator paused.
SnapshotTake ==
  <<[Runtime({Up("t")}, {}) EXCEPT !.drop = {Up("t")}],
    Runtime({}, {File("host", "data")}), Try({}, {File("host", "wasm")}), Check({}),
    Must({File("host", "data")}), Runtime({}, {Up("t")}), Ask("t"), Must({Up("t")})>>

\* The full node is stopped, started, emptied and filled from the copies that
\* exist; it is then restarted by hand.
SnapshotRestore ==
  <<Runtime({}, {}), Runtime({}, {}), Runtime({}, {}),
    Runtime({File("host", "data")}, {Seen("restored")}), Check({}),
    Runtime({}, {}), Runtime({}, {}), Runtime({Seen("restored")}, {Seen("synced")}),
    Look({Seen("synced")}), Must({Seen("synced")})>>

SnapshotTest == NewChain \o <<Wait, Ask("t")>> \o SnapshotTake \o SnapshotRestore

-----------------------------------------------------------------------------
(* state_sync.                                                             *)

\* The full node is recreated, its data wiped, its configuration overridden.
StateSyncTest ==
  NewChain \o <<Wait, Ask("t"), Do({Up("t")}, {Seen("trusted")}),
    Runtime({}, {}), Runtime({}, {}), Runtime({}, {}), Runtime({}, {}),
    Runtime({}, {Seen("wiped")}), Runtime({Seen("trusted")}, {Seen("configured")}),
    Runtime({Seen("wiped"), Seen("configured")}, {Seen("synced")}),
    Poll({Seen("synced")}), Ask("t"), Must({Seen("synced")})>>

-----------------------------------------------------------------------------
(* bootstrap_mainnet.                                                      *)

\* main up to the command in the background: an error leaves what there is.
BootstrapSetup ==
  <<Do({}, {}), Do({}, {Net}), Do({Net}, {Proc("node")}), Do({Proc("node")}, {}),
    Do({Proc("node")}, {Seen("height")})>>

\* poll_until_synced.
BootstrapPoll == <<Poll({Seen("height")}), Must({Seen("height")})>>

BootstrapClose == <<Try({}, {}), Drop({Proc("node")}), Drop({Net})>>

-----------------------------------------------------------------------------
(* cosmos_upgrade, with its default workflow.                              *)

\* query_json hands `query ...` to CosmosChain::exec without the name of the
\* binary, which no container can run.
UpgradeQuery == Check({Proc("query")})

UpgradeCore == <<UpgradeQuery, UpgradeQuery, UpgradeQuery, Check({})>>

\* Proposal, votes, the halt, the new image.
UpgradeTest ==
  NewChain \o <<NewKey("t", "testuser"), KeyAddress("t", "testuser")>> \o Fund("t", "testuser")
    \o UpgradeCore \o
  <<Ask("t"), Sign("t", "testuser", {}, {Seen("proposal")}),
    Tx("t", "validator", {Seen("proposal")}, {Seen("passed")}), Rest, Poll({Seen("passed")}),
    Spin({Seen("passed")}),
    [Runtime({}, {}) EXCEPT !.drop = {Up("t")}], Runtime({}, {Up("t")}),
    Ask("t"), Wait, Ask("t"), Check({Seen("passed")})>>
    \o UpgradeCore

-----------------------------------------------------------------------------

\* main of the programs that catch the error of their test, and stop the chain.
Caught(setup, test) == [segs |-> <<<<setup>>, <<test>>, <<<<Stop("t")>>>>>>, from |-> 2]

\* main of those whose question marks skip the stop.
Uncaught(test) == [segs |-> <<<<test>>, <<<<Stop("t")>>>>>>, from |-> 2]

NodePrograms ==
  [basic_cosmos     |-> Uncaught(BasicMain),
   integration_test |-> Uncaught(IntegrationMain),
   circuit_deposit  |-> Uncaught(NewChain \o RunwayMock),
   no_rick          |-> Caught(<<>>, NoRickTest),
   bulk_memory_gas  |-> Caught(<<>>, BulkTest),
   runway           |-> Caught(NewChain, RunwayDocker),
   runway_mock      |-> Caught(NewChain, RunwayMock),
   snapshot         |-> Caught(<<>>, SnapshotTest),
   state_sync       |-> Caught(<<>>, StateSyncTest),
   bootstrap_mainnet |->
     [segs |-> <<<<BootstrapSetup>>, <<BootstrapPoll>>, <<BootstrapClose>>>>, from |-> 2],
   cosmos_upgrade   |-> Caught(<<>>, UpgradeTest)]

\* What each is for and checks before it ends with Ok; no_rick prints "PASSED"
\* also when its proof was refused.
NodeGoals ==
  [basic_cosmos |-> {}, integration_test |-> {Seen("balance"), Seen("validators")},
   circuit_deposit |-> {Seen("covered")}, no_rick |-> {Contract("t", "rick")},
   bulk_memory_gas |-> {Contract("t", "meter"), Seen("trap")},
   runway |-> {Seen("epoch 1"), Seen("unbonded"), Seen("epoch 2")},
   runway_mock |-> {Seen("covered")}, snapshot |-> {Seen("synced")},
   state_sync |-> {Seen("synced")}, bootstrap_mainnet |-> {Seen("height")},
   cosmos_upgrade |-> {Seen("passed")}]
=============================================================================
