---------------------------- MODULE AppExamples ----------------------------
(***************************************************************************)
(* The example programs that run a Cosmos chain beside something else:     *)
(* hashmerchant and trustless_builder (an Anvil chain and a server on the  *)
(* host) and loyalty_rewards (a database, whose rows are the leaves of a   *)
(* Merkle tree).  Each chain is on a network of its own.                   *)
(***************************************************************************)
EXTENDS ExampleSteps, Sequences

\* A step of the host that panics when its file is missing.
MustFind(x) == [Must({}) EXCEPT !.give = {File("host", x)}]

\* A chain that starts, and the handle of one that has started.
Alone(c) == <<InitializeAlone(c), Start(c)>>
Keep(c)  == <<Set({Kept(c)})>>

StopKept(c) == [StopAlone(c) EXCEPT !.need = {Kept(c)}]

-----------------------------------------------------------------------------
(* hashmerchant: the handle of each chain is kept before it is initialized,*)
(* and cleanup stops all (unless ICT_KEEP_CONTAINERS is set).              *)

\* Blocks before and after a transfer, whose state roots have to differ.
HmAnvil ==
  Alone("anvil") \o
  <<Ask("anvil"), Do({Up("anvil")}, {Contract("anvil", "token")}),
    Must({Contract("anvil", "token")}), Ask("anvil"), Ask("anvil"), Must({}),
    Do({Contract("anvil", "token")}, {Seen("transferred")}), Rest, Ask("anvil"), Ask("anvil"),
    Must({}), Must({Seen("transferred")})>>

\* The server of the vote extensions, asked thirty times for its health.
HmServer ==
  <<Must({}), MustFind("server"), Do({}, {}), Do({File("host", "server")}, {Proc("server")}),
    Poll({Proc("server")}), Must({Proc("server")})>>

\* The root is pushed to the server and comes back in its vote extension.
HmPush ==
  <<Do({Proc("server")}, {Seen("pushed")}), Do({Proc("server")}, {}), Do({}, {}),
    Must({Seen("pushed")})>>

HmTerp ==
  Alone("terp") \o
  <<Ask("terp"), Ask("terp"), Must({}), Must({}), Ask("terp"), Await({Up("terp")})>>

\* A root that is not on the chain is printed; one that is there has to match.
HmQueries == <<Ask("terp"), Must({}), Ask("terp"), Ask("terp"), Ask("terp")>>

HmVerify ==
  <<Do({Proc("server")}, {Seen("extension")}), Must({Seen("extension")}),
    Do({Proc("server"), Seen("extension")}, {Seen("valid")}), Must({Seen("valid")})>>

HmCleanup == <<Drop({Proc("server")}), StopAlone("terp"), StopAlone("anvil")>>

-----------------------------------------------------------------------------
(* trustless_builder.                                                      *)

\* The server and the contract are built, the bytecode is fetched.
TbFiles == <<Do({}, {File("host", "server")}), Do({}, {File("host", "sbt")}), Do({}, {}), Check({})>>

TbAnvil == Alone("anvil") \o Keep("anvil")

TbPledge ==
  <<Ask("anvil"), Ask("anvil"), Check({}), Do({Up("anvil")}, {Seen("pledge 1")}), Check({}),
    Do({Up("anvil")}, {}), Check({Seen("pledge 1")}), Ask("anvil")>>

\* The server is kept when it is healthy; before that it dies with its handle.
TbServer == <<Do({File("host", "server")}, {Proc("server")}), Poll({Proc("server")})>>

TbClaim ==
  <<Do({Proc("server"), Seen("pledge 1")}, {Seen("claim")}),
    Do({Proc("server"), Seen("claim")}, {})>>

\* A user of the chain with funds.
TbUser(u) == <<NewKey("terp", u), KeyAddress("terp", u)>> \o Fund("terp", u)

\* A transaction of a user, asked for forty times (wait_tx).
TbTx(u, need, give) == Included(Sign("terp", u, need, give))

TbTerp == Alone("terp") \o Keep("terp") \o TbUser("minter")

Sbt == Contract("terp", "sbt")

TbContract ==
  <<CopyIn("terp", "sbt")>> \o TbTx("minter", {File("terp", "sbt")}, {Code("terp", "sbt")})
    \o TbTx("minter", {Code("terp", "sbt")}, {Sbt})
    \o TbTx("minter", {Sbt, Seen("claim")}, {Seen("mint 1")})

\* create_ibc_v2_tendermint_path.
TbClient ==
  <<Ask("terp"), Ask("terp"), Do({Up("terp")}, {File("terp", "client")}),
    Do({Up("terp")}, {File("terp", "consensus")})>>
    \o TbTx("minter", {File("terp", "client"), File("terp", "consensus")}, {Known("client")})
    \o TbTx("minter", {Known("client")}, {Channel("v2")})

\* The second account commits; its packet may fail to be sent.
TbCommit ==
  TbTx("minter", {Sbt, Channel("v2")}, {Seen("registered")}) \o TbUser("committer")
    \o TbTx("committer", {Sbt}, {Seen("commit")}) \o
  <<[TryTx("terp", "committer", {Sbt, Seen("registered")}, {Seen("sent")}) EXCEPT !.skip = 1],
    Look({Seen("sent")})>>

\* start_proof_api and its calls, none of which has to succeed; a process that
\* never becomes ready stays.
TbProofApi ==
  <<[Try({}, {Proc("proof-api")}) EXCEPT !.skip = 4],
    Try({}, {}), Try({}, {}), Try({}, {}), [Set({}) EXCEPT !.drop = {Proc("proof-api")}]>>

TbDeliver ==
  <<Do({Up("anvil")}, {Seen("pledge 2")}), Check({Seen("pledge 2")})>>
    \o TbTx("minter", {Sbt, Seen("pledge 2"), Seen("commit")}, {Seen("token")})
    \o <<Ask("terp"), Check({Seen("token")})>>

TbShutdown == <<Drop({Proc("server")}), StopKept("terp"), StopKept("anvil")>>

-----------------------------------------------------------------------------
(* loyalty_rewards; the process of its sidecar is a task of the program.   *)

\* Network, database and seeder; the exit code of the seeding is not looked at.
LoyaltyDatabase ==
  <<Do({}, {Net}), Do({Net}, {Proc("pg")}), Do({Proc("pg")}, {})>> \o Keep("pg")
    \o <<Await({Proc("pg")}), Do({}, {}), Do({Net}, {Proc("seeder")}), Do({Proc("seeder")}, {}),
         Do({Proc("seeder")}, {}), Do({Proc("seeder")}, {Seen("rows")}), Drop({Proc("seeder")})>>

\* compute_leaves and the root; the sidecar, asked for its health.
LoyaltyRoot ==
  <<Do({Proc("pg")}, {Seen("root 1")}), Set({Seen("sidecar")}), Await({Seen("sidecar")})>>

LoyaltyTerp == Alone("terp") \o <<Ask("terp"), Must({})>>

Verifier == Contract("terp", "verifier")

\* The three calls of the chain that wait three seconds or do not; what the
\* registration exits with is ignored.
LoyaltyContract ==
  <<MustFind("verifier"), CopyIn("terp", "verifier"),
    Tx("terp", "validator", {File("terp", "verifier")}, {Code("terp", "verifier")}), Rest,
    Tx("terp", "validator", {Code("terp", "verifier")}, {Verifier}), Rest, Do({Verifier}, {}),
    TryTx("terp", "validator", {Verifier}, {Seen("registered")}), Await({Up("terp")}),
    Ask("terp"), Try({}, {}), Try({}, {})>>

\* Proof of a customer against a root of the program's own, and a claim that may
\* fail, for the root number 0 when the chain has not got the root.
Claim(who, root) ==
  <<Do({Proc("pg")}, {}), Must({Seen("rows")}), Must({Seen(root)}), Must({Seen(root)}),
    Try({}, {}), TryTx("terp", "validator", {Verifier}, {Seen(who)})>>

\* A purchase changes the rows, and the root; the chain is given six blocks.
LoyaltyMutation ==
  <<Do({Proc("pg")}, {Seen("purchase")}), Do({Proc("pg")}, {Seen("root 2")}),
    Must({Seen("purchase")}), Ask("terp"), Look({Up("terp")}), Try({}, {})>>

\* The network is not among what cleanup knows.
LoyaltyCleanup ==
  <<StopAlone("terp"), [Drop({Proc("pg")}) EXCEPT !.need = {Kept("pg")}]>>

-----------------------------------------------------------------------------

\* main of the three: the runtime, the test, the shutdown.
AppMain(test, shutdown) == [segs |-> <<<<<<Do({}, {})>>>>, <<test>>, <<shutdown>>>>, from |-> 2]

AppPrograms ==
  [hashmerchant |->
     AppMain(HmAnvil \o HmServer \o HmPush \o HmTerp \o HmQueries \o HmVerify, HmCleanup),
   trustless_builder |->
     AppMain(TbFiles \o TbAnvil \o TbPledge \o TbServer \o TbClaim \o TbTerp \o TbContract
               \o TbClient \o TbCommit \o TbProofApi \o TbDeliver, TbShutdown),
   loyalty_rewards |->
     AppMain(LoyaltyDatabase \o LoyaltyRoot \o LoyaltyTerp \o LoyaltyContract
               \o Claim("Jane", "root 1") \o LoyaltyMutation \o Claim("Bob", "root 2"),
             LoyaltyCleanup)]

\* What each shows; hashmerchant and loyalty_rewards end with Ok whether or not
\* the chain ever had their root.
AppGoals ==
  [hashmerchant |-> {Seen("transferred"), Seen("valid")},
   trustless_builder |-> {Seen("mint 1"), Seen("token")},
   loyalty_rewards |-> {Seen("root 1"), Seen("root 2"), Verifier}]
=============================================================================
