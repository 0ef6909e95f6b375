--------------------------- MODULE GenesisPipeline ---------------------------
(***************************************************************************)
(* What CosmosChain::start does before it launches the chain binary        *)
(* (ict-rs/src/chain/cosmos.rs): config overrides, the genesis pipeline,   *)
(* distribution of the genesis and peer configuration.  Everything is an   *)
(* exec in a node's container, and every node has a private volume, so     *)
(* files travel through the process one exec at a time.                    *)
(*                                                                         *)
(* An exec has three outcomes: it works; the command exits with a nonzero  *)
(* code; the runtime returns an error, and then nobody knows whether the   *)
(* command ran.  The code checks the exit code of some commands (Checked)  *)
(* and ignores it for others (Unchecked).  `start` may be called again     *)
(* after a failure: the volumes keep what the earlier attempt wrote.       *)
(***************************************************************************)
EXTENDS Naturals

CONSTANTS NumVals, NumFulls,
          Wallets,          \* the genesis_wallets argument
          HasFaucet,        \* cfg.faucet is Some
          HasOverrides,     \* cfg.config_file_overrides is not empty
          HasModify,        \* cfg.modify_genesis is Some
          MaxStarts         \* bound: calls of start

Val     == 1 .. NumVals
Node    == 1 .. (NumVals + NumFulls)
Primary == 1

VARIABLES
  key,        \* per validator: which attempt created its key, 0 for none
  faucetKey,  \* the same for the faucet key on the primary
  gentxDir,   \* config/gentx of each validator: the gentx file per author
  genesis,    \* config/genesis.json of each node
  config,     \* config file with overrides: "default", "merged" or "lost"
  peers,      \* persistent_peers of each node
  pc, at,     \* step of the call, and the node its loop is at
  wallets,    \* genesis wallets still to add
  carried,    \* the genesis read from the primary, on its way to the others
  ids,        \* nodes whose id show-node-id told
  starts,     \* calls of start so far
  ignored,    \* did this call overlook a command that failed?
  ret

files == <<key, faucetKey, gentxDir, genesis, config, peers>>
vars  == <<files, pc, at, wallets, carried, ids, starts, ignored, ret>>

\* A gentx is signed with the author's key over amounts in `denom`.
NoGentx == [key |-> 0, denom |-> "none"]
Gentx   == [key : 0 .. MaxStarts, denom : {"none", "stake", "real"}]

Address == ({"val"} \X Val \X (1 .. MaxStarts)) \cup ({"wallet"} \X Wallets \X {0})
           \cup ({"faucet"} \X {0} \X (1 .. MaxStarts))
ValAddress(v)    == <<"val", v, key[v]>>
WalletAddress(w) == <<"wallet", w, 0>>
FaucetAddress    == <<"faucet", 0, faucetKey>>

\* Contents of a genesis file; an empty or truncated one is Broken.
Fresh  == [ok |-> TRUE, accounts |-> {}, gentxs |-> [v \in Val |-> NoGentx],
           denom |-> "stake", modified |-> FALSE]
Broken == [Fresh EXCEPT !.ok = FALSE]
Genesis == [ok : BOOLEAN, accounts : SUBSET Address, gentxs : [Val -> Gentx],
            denom : {"stake", "real"}, modified : BOOLEAN]

Step == {"idle", "config", "key", "account", "gentx", "others", "copy", "wallets",
         "faucet.key", "faucet.account", "collect", "denom", "modify", "read",
         "distribute", "ids", "peers"}

TypeOK ==
  /\ key \in [Val -> 0 .. MaxStarts]
  /\ faucetKey \in 0 .. MaxStarts
  /\ gentxDir \in [Val -> [Val -> Gentx]]
  /\ genesis \in [Node -> Genesis]
  /\ config \in [Node -> {"default", "merged", "lost"}]
  /\ peers \in [Node -> SUBSET Node]
  /\ pc \in Step
  /\ at \in Node
  /\ wallets \in SUBSET Wallets
  /\ carried \in Genesis
  /\ ids \in SUBSET Node
  /\ starts \in 0 .. MaxStarts
  /\ ignored \in BOOLEAN
  /\ ret \in {"none", "ok", "err"}

\* What `init` left on every node.
Init ==
  /\ key = [v \in Val |-> 0] /\ faucetKey = 0
  /\ gentxDir = [v \in Val |-> [u \in Val |-> NoGentx]]
  /\ genesis = [n \in Node |-> Fresh]
  /\ config = [n \in Node |-> "default"]
  /\ peers = [n \in Node |-> {}]
  /\ pc = "idle" /\ at = 1 /\ wallets = {} /\ carried = Broken /\ ids = {}
  /\ starts = 0 /\ ignored = FALSE /\ ret = "none"

-----------------------------------------------------------------------------
(* The outcomes of an exec at step `step`; `effect` says what the command  *)
(* does to the files, `next` where the call goes on.                       *)

\* The call returns; its locals are gone.
Return(r) ==
  /\ pc' = "idle" /\ ret' = r
  /\ at' = 1 /\ wallets' = {} /\ carried' = Broken /\ ids' = {}
  /\ UNCHANGED starts

Fail == Return("err") /\ ignored' = FALSE

Goto(step, node) ==
  /\ pc' = step /\ at' = node
  /\ UNCHANGED <<wallets, carried, ids, starts, ret>>

Checked(step, effect, next) ==
  /\ pc = step
  /\ \/ effect /\ next /\ UNCHANGED ignored
     \/ effect /\ Fail
     \/ UNCHANGED files /\ Fail

\* `damage`: what the files may look like after a failure nobody noticed.
Unchecked(step, effect, damage, next) ==
  /\ pc = step
  /\ \/ effect /\ next /\ UNCHANGED ignored
     \/ damage /\ next /\ ignored' = TRUE
     \/ (effect \/ damage) /\ Fail

SetGenesis(n, g) ==
  /\ genesis' = [genesis EXCEPT ![n] = g]
  /\ UNCHANGED <<key, faucetKey, gentxDir, config, peers>>

\* add-account: refused when the address is already in the genesis.
AddAccount(n, address) ==
  /\ genesis[n].ok /\ address \notin genesis[n].accounts
  /\ SetGenesis(n, [genesis[n] EXCEPT !.accounts = @ \cup {address}])

\* On with the next node, or with the next step.
NextNode(here, after) == IF at < NumVals + NumFulls THEN Goto(here, at + 1) ELSE Goto(after, 1)

-----------------------------------------------------------------------------
(* start, up to the launch.                                                *)

Start ==
  /\ pc = "idle" /\ starts < MaxStarts
  /\ starts' = starts + 1 /\ ignored' = FALSE /\ ret' = "none"
  /\ pc' = (IF HasOverrides THEN "config" ELSE "key") /\ at' = 1
  /\ UNCHANGED <<files, wallets, carried, ids>>

\* apply_config_overrides: cat, merge, write back.  A cat that failed reads
\* as an empty file, and the overrides alone are written over the config.
SetConfig(to) ==
  /\ config' = [config EXCEPT ![at] = to]
  /\ UNCHANGED <<key, faucetKey, gentxDir, genesis, peers>>

ApplyOverride ==
  Unchecked("config",
            SetConfig(IF config[at] = "lost" THEN "lost" ELSE "merged"),
            UNCHANGED files \/ SetConfig("lost"),
            NextNode("config", "key"))

\* (Mutant) The attempts are counted from one too many.
CreateKeyMut ==
  Checked("key",
          /\ key' = [key EXCEPT ![at] = starts + 1]
          /\ UNCHANGED <<faucetKey, gentxDir, genesis, config, peers>>,
          Goto("account", at))

\* keys add: `yes` confirms that an existing key is overwritten.
CreateKey ==
  Checked("key",
          /\ key' = [key EXCEPT ![at] = starts]
          /\ UNCHANGED <<faucetKey, gentxDir, genesis, config, peers>>,
          Goto("account", at))

\* get_key_address, refused when empty, then add_genesis_account.
AddOwnAccount ==
  Checked("account", AddAccount(at, ValAddress(at)), Goto("gentx", at))

\* Signed over the real denom, because the sed below comes after the signing.
SignGentx ==
  Checked("gentx",
          /\ ValAddress(at) \in genesis[at].accounts
          /\ gentxDir' = [gentxDir EXCEPT ![at][at] = [key |-> key[at], denom |-> "real"]]
          /\ UNCHANGED <<key, faucetKey, genesis, config, peers>>,
          IF at < NumVals THEN Goto("key", at + 1)
          ELSE IF NumVals > 1 THEN Goto("others", 2)
          ELSE /\ pc' = "wallets" /\ at' = 1 /\ wallets' = Wallets
               /\ UNCHANGED <<carried, ids, starts, ret>>)

\* The accounts of the other validators, on the primary.
AddOtherAccount ==
  Checked("others", AddAccount(Primary, ValAddress(at)), Goto("copy", at))

\* (Mutant) A gentx the primary has already is not copied again.
CopyGentxsMut ==
  Checked("copy",
          /\ \E u \in Val : gentxDir[at][u] # NoGentx
          /\ gentxDir' = [gentxDir EXCEPT ![Primary] =
                            [u \in Val |-> IF @[u] = NoGentx THEN gentxDir[at][u] ELSE @[u]]]
          /\ UNCHANGED <<key, faucetKey, genesis, config, peers>>,
          IF at < NumVals THEN Goto("others", at + 1)
          ELSE /\ pc' = "wallets" /\ at' = 1 /\ wallets' = Wallets
               /\ UNCHANGED <<carried, ids, starts, ret>>)

\* copy_gentxs_to_primary: every gentx file of the validator, under its own
\* name; none at all is an error.
CopyGentxs ==
  Checked("copy",
          /\ \E u \in Val : gentxDir[at][u] # NoGentx
          /\ gentxDir' = [gentxDir EXCEPT ![Primary] =
                            [u \in Val |-> IF gentxDir[at][u] # NoGentx THEN gentxDir[at][u] ELSE @[u]]]
          /\ UNCHANGED <<key, faucetKey, genesis, config, peers>>,
          IF at < NumVals THEN Goto("others", at + 1)
          ELSE /\ pc' = "wallets" /\ at' = 1 /\ wallets' = Wallets
               /\ UNCHANGED <<carried, ids, starts, ret>>)

\* The exit code is ignored; an account that is there already is no loss.
AddWallet ==
  \E w \in wallets :
    LET next == /\ wallets' = wallets \ {w}
                /\ UNCHANGED <<pc, at, carried, ids, starts, ret>>
    IN  IF WalletAddress(w) \in genesis[Primary].accounts
        THEN pc = "wallets" /\ UNCHANGED <<files, ignored>> /\ next
        ELSE Unchecked("wallets", AddAccount(Primary, WalletAddress(w)), UNCHANGED files, next)

WalletsDone ==
  /\ pc = "wallets" /\ wallets = {}
  /\ Goto(IF HasFaucet THEN "faucet.key" ELSE "collect", Primary)
  /\ UNCHANGED <<files, ignored>>

CreateFaucetKey ==
  Checked("faucet.key",
          /\ faucetKey' = starts
          /\ UNCHANGED <<key, gentxDir, genesis, config, peers>>,
          Goto("faucet.account", Primary))

AddFaucetAccount ==
  Checked("faucet.account", AddAccount(Primary, FaucetAddress), Goto("collect", Primary))

\* collect-gentxs takes every file of the primary's gentx directory and
\* refuses one whose author has no account; then the count is checked.
CollectGentxs ==
  Checked("collect",
          /\ genesis[Primary].ok
          /\ \A v \in Val : gentxDir[Primary][v] # NoGentx =>
               <<"val", v, gentxDir[Primary][v].key>> \in genesis[Primary].accounts
          /\ SetGenesis(Primary, [genesis[Primary] EXCEPT !.gentxs = gentxDir[Primary]]),
          (\A v \in Val : gentxDir[Primary][v] # NoGentx) /\ Goto("denom", Primary))

\* sed "stake" to the configured denom, in place.
ReplaceDenom ==
  Unchecked("denom",
            SetGenesis(Primary, [genesis[Primary] EXCEPT !.denom = "real"]),
            UNCHANGED files,
            Goto(IF HasModify THEN "modify" ELSE "read", Primary))

\* cat, the modify_genesis callback, write back; a callback that cannot parse
\* what it is given returns an error.
ModifyGenesis ==
  Unchecked("modify",
            /\ genesis[Primary].ok
            /\ SetGenesis(Primary, [genesis[Primary] EXCEPT !.modified = TRUE]),
            UNCHANGED files \/ SetGenesis(Primary, Broken),
            Goto("read", Primary))

\* (Mutant) The first two nodes are skipped, not only the primary.
ReadGenesisMut ==
  /\ pc = "read"
  /\ \/ /\ pc' = (IF NumVals + NumFulls > 2 THEN "distribute" ELSE "ids")
        /\ at' = IF NumVals + NumFulls > 2 THEN 3 ELSE 1
        /\ carried' = genesis[Primary]
        /\ UNCHANGED <<wallets, ids, starts, ret, ignored>>
     \/ Fail
  /\ UNCHANGED files

\* distribute_genesis reads the genesis of the primary ...
ReadGenesis ==
  /\ pc = "read"
  /\ \/ /\ pc' = (IF NumVals + NumFulls > 1 THEN "distribute" ELSE "ids")
        /\ at' = IF NumVals + NumFulls > 1 THEN 2 ELSE 1
        /\ \/ carried' = genesis[Primary] /\ UNCHANGED ignored
           \/ carried' = Broken /\ ignored' = TRUE
        /\ UNCHANGED <<wallets, ids, starts, ret>>
     \/ Fail
  /\ UNCHANGED files

\* ... and writes it on every other node.
WriteGenesis ==
  Unchecked("distribute",
            SetGenesis(at, carried),
            UNCHANGED files \/ SetGenesis(at, Broken),
            NextNode("distribute", "ids"))

\* configure_peers: a node whose id cannot be told is left out ...
CollectId ==
  /\ pc = "ids"
  /\ \/ /\ IF at < NumVals + NumFulls THEN pc' = "ids" /\ at' = at + 1
           ELSE pc' = "peers" /\ at' = 1
        /\ \/ ids' = ids \cup {at} /\ UNCHANGED ignored
           \/ UNCHANGED ids /\ ignored' = TRUE
        /\ UNCHANGED <<wallets, carried, starts, ret>>
     \/ Fail
  /\ UNCHANGED files

\* ... and the list is written on every node, with the other settings.
WritePeers ==
  Unchecked("peers",
            /\ peers' = [peers EXCEPT ![at] = ids]
            /\ UNCHANGED <<key, faucetKey, gentxDir, genesis, config>>,
            UNCHANGED files,
            IF at < NumVals + NumFulls THEN Goto("peers", at + 1)
            ELSE Return("ok"))

Next ==
  \/ Start \/ ApplyOverride \/ CreateKey \/ AddOwnAccount \/ SignGentx
  \/ AddOtherAccount \/ CopyGentxs \/ AddWallet \/ WalletsDone
  \/ CreateFaucetKey \/ AddFaucetAccount \/ CollectGentxs \/ ReplaceDenom
  \/ ModifyGenesis \/ ReadGenesis \/ WriteGenesis \/ CollectId \/ WritePeers

Spec == Init /\ [][Next]_vars

-----------------------------------------------------------------------------
(* Properties.  They hold of a start that got as far as the launch.        *)

Ready == ret = "ok"

\* Every validator is in the genesis that will be launched, with the key its
\* own keyring holds now, an account for that key, and a signature over the
\* denom of the genesis: also when earlier attempts left keys, accounts and
\* gentx files behind, and whatever command failed unnoticed but the sed.
ValidatorsBacked ==
  Ready /\ genesis[Primary].ok =>
    \A v \in Val :
      LET g == genesis[Primary].gentxs[v]
      IN  /\ g.key = key[v] /\ g.key # 0
          /\ ValAddress(v) \in genesis[Primary].accounts
          /\ g.denom = genesis[Primary].denom \/ ignored

\* The same genesis everywhere, all peers known to all, every wallet and the
\* faucet funded, no config lost: unless a command failed unnoticed, in this
\* attempt or, for the config files, in an earlier one.
LaunchConsistent ==
  Ready /\ ~ignored =>
    /\ \A n \in Node : genesis[n] = genesis[Primary] /\ peers[n] = Node
    /\ genesis[Primary].ok /\ genesis[Primary].modified = HasModify
    /\ \A w \in Wallets : WalletAddress(w) \in genesis[Primary].accounts
    /\ HasFaucet => FaucetAddress \in genesis[Primary].accounts
    /\ HasOverrides =>
         \A n \in Node : config[n] = "merged" \/ (config[n] = "lost" /\ starts > 1)

\* "Copy genesis from the primary validator to all other nodes"
\* (cosmos.rs:592): a start that returns Ok has done that.
GenesisDistributed == Ready => \A n \in Node : genesis[n] = genesis[Primary]
=============================================================================
