----------------------------- MODULE IbcExamples -----------------------------
(***************************************************************************)
(* The example programs about IBC: examples/ibc_transfer.rs,               *)
(* ibc_transfer_e2e.rs, polytone.rs, and ibc_hooks.rs and pfm.rs, which    *)
(* run on the mock runtime with a relayer of their own that does nothing.  *)
(*                                                                         *)
(* A program is its segments in order: each is one sequence of steps, or   *)
(* two that run beside each other; `from` is the first segment whose error *)
(* is kept while the last one, the shutdown, still runs.                   *)
(***************************************************************************)
EXTENDS ExampleSteps, Sequences

AB == <<"a", "b">>

-----------------------------------------------------------------------------
(* ibc_transfer and ibc_transfer_e2e.                                      *)

\* main up to the built environment.
TransferSetup ==
  <<Do({}, {Net}), Do({Net}, {Home})>>
    \o StartChains(AB) \o Configure(AB) \o Link("a", "b", "path") \o StartRelayers

\* Both begin with a funded user on each side.
TransferUsers ==
  <<NewKey("a", "user"), NewKey("b", "user"), KeyAddress("a", "user"), KeyAddress("b", "user")>>
    \o Fund("a", "user") \o Fund("b", "user") \o <<Wait, Wait>>

There == Transfer("a", "user", "path", "there")
Back  == Sent(Sign("b", "user", {Channel("path"), Received("there")}, {Received("back")}))

\* run_ibc_transfer_test: balances are compared after fixed numbers of blocks,
\* and assert! ends the process.
TransferTest ==
  TransferUsers \o <<Must({Funds("a", "user"), Funds("b", "user")})>> \o There
    \o <<Wait, Wait, Must({Received("there")})>> \o Back
    \o <<Wait, Wait, Must({Received("back")})>>

\* run_test of ibc_transfer_e2e prints a warning instead.
TransferE2eTest ==
  TransferUsers \o There \o <<Wait, Wait, Look({Received("there")})>> \o Back
    \o <<Wait, Wait, Look({Received("back")})>>

-----------------------------------------------------------------------------
(* polytone.                                                               *)

\* resolve_terp_core and the files it has to find.
Host == File("host", "polytone")

\* copy_wasm_to_chain, four times at once.
CopyWasm(c) == Do({Up(c), Host}, {File(c, "polytone")})

\* store_contracts_seq and instantiate_contracts_seq: each transaction is looked
\* for with `query tx` (wait_until_tx) before the next is signed.
StoreSeq(c, xs) ==
  Each(xs, LAMBDA x : Included(Sign(c, "user", {File(c, "polytone")}, {Code(c, x)})))

InstantiateSeq(c, xs) ==
  Each(xs, LAMBDA x : Included(Sign(c, "user", {Code(c, x)}, {Contract(c, x)})))

\* deploy_one_chain, with wait_until_funded.
DeployOneChain(c) ==
  <<NewKey(c, "user"), KeyAddress(c, "user")>> \o Fund(c, "user")
    \o <<Poll({Funds(c, "user")}), CopyWasm(c)>> \o StoreSeq(c, <<"note", "voice", "proxy", "tester">>)
    \o InstantiateSeq(c, <<"note", "voice", "tester">>)

PolytoneSetup ==
  <<Do({}, {Net}), Do({Net}, {Home})>> \o StartChains(AB) \o <<Do({}, {Host})>>

\* deploy_polytone_contracts beside configure_relayers_and_paths_without_start;
\* both spend from the key `validator` of chain a.
PolytoneLanes ==
  <<DeployOneChain("a") \o DeployOneChain("b"),
    Configure(AB) \o Link("a", "b", "path")>>

\* The channel between the two contracts; Hermes is started when it is there.
PolytoneChannel ==
  <<Do({Host}, {}),
    Do({Channel("path"), Contract("a", "note"), Contract("b", "voice")}, {Channel("wasm")}),
    Check({Channel("wasm")})>> \o StartRelayers \o <<Wait, Wait>>

\* The execute is looked for, but an answer that never comes leaves the code of
\* CheckTx in its place.
PolytoneExecute ==
  LET late == {Received("hello"), Received("callback")} IN
  <<Sign("a", "user", {Contract("a", "note"), Channel("wasm")}, late),
    Look(late), Do({Home}, {})>>

\* Fifteen attempts, each with a flush and blocks on both sides.
PolytoneWait == <<Do({Home}, {}), Poll({Received("hello"), Received("callback")})>>

-----------------------------------------------------------------------------
(* ibc_hooks and pfm, on the mock runtime: a registered answer is given    *)
(* whatever is asked, also for the key "validator-0", which a real chain   *)
(* does not have.                                                          *)

MockFund(c) == Do({Up(c)}, {Funds(c, "user")})

\* The relayer of both examples lists the chains it is given and returns Ok.
MockBuild(cs) ==
  StartChains(cs) \o Each(cs, LAMBDA c : <<Do({}, {Known(c)})>>) \o <<Rest>>

\* The memo calls a contract on the other chain; a mock's count is there already.
HooksTest ==
  <<MockFund("a"), MockFund("b"), Do({Funds("b", "user")}, {Code("b", "counter")}),
    Do({Code("b", "counter")}, {Contract("b", "counter")}),
    Do({Funds("a", "user"), Contract("b", "counter")}, {}), Do({Funds("a", "user")}, {}),
    Do({Contract("b", "counter")}, {Seen("count")}), Must({Seen("count")})>>

\* Balances are printed; nothing is asserted.
PfmTest ==
  Each(<<"a", "b", "c", "d">>, LAMBDA c : <<MockFund(c)>>)
    \o <<Do({Funds("a", "user")}, {}), Do({Up("a")}, {}), Do({Up("d")}, {})>>

\* close().await? at the end, which an error does not reach.
MockClose(cs) == [i \in DOMAIN cs |-> Stop(cs[i])]

-----------------------------------------------------------------------------

ABCD == <<"a", "b", "c", "d">>

\* main of each: what happens when the environment is there is kept, and the
\* shutdown runs; on the mock runtime it is only reached without an error.
TransferMain == [segs |-> <<<<TransferSetup>>, <<TransferTest>>, <<Close(AB)>>>>, from |-> 2]
E2eMain      == [segs |-> <<<<TransferSetup>>, <<TransferE2eTest>>, <<Close(AB)>>>>, from |-> 2]

PolytoneMain ==
  [segs |-> <<<<PolytoneSetup>>, PolytoneLanes,
              <<PolytoneChannel \o PolytoneExecute \o PolytoneWait>>, <<Close(AB)>>>>, from |-> 3]

HooksMain == [segs |-> <<<<MockBuild(AB) \o HooksTest>>, <<MockClose(AB)>>>>, from |-> 2]
PfmMain   == [segs |-> <<<<MockBuild(ABCD) \o PfmTest>>, <<MockClose(ABCD)>>>>, from |-> 2]

IbcPrograms ==
  [ibc_transfer |-> TransferMain, ibc_transfer_e2e |-> E2eMain, polytone |-> PolytoneMain,
   ibc_hooks |-> HooksMain, pfm |-> PfmMain]

\* What each is for.
IbcGoals ==
  [ibc_transfer     |-> {Received("there"), Received("back")},
   ibc_transfer_e2e |-> {},
   polytone         |-> {Received("hello"), Received("callback")},
   ibc_hooks        |-> {Seen("count")},
   pfm              |-> {}]
=============================================================================
