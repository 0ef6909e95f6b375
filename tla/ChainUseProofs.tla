--------------------------- MODULE ChainUseProofs ---------------------------
(* What a test does to a chain (MCChainUse): the genesis of a start, the files*)
(* of a node, proposals, contracts and queries, for every value of the     *)
(* constants.                                                              *)
EXTENDS MCChainUse, Integers, SequenceTheorems, FiniteSetTheorems, TLAPS

-----------------------------------------------------------------------------
(* The genesis: TypeOK, ValidatorsBacked, LaunchConsistent of GenesisPipeline.*)

Signing   == {"key", "account", "gentx"}
Sharing   == {"others", "copy"}
Paying    == {"wallets", "faucet.key", "faucet.account", "collect"}
Finishing == {"denom", "modify"}
Spreading == {"read", "distribute", "ids", "peers"}

\* The files are well typed; a validator other than the primary has at most its
\* own gentx; no genesis is modified that should not be.
GenFilesTyped ==
  /\ key \in [Gen!Val -> 0 .. MaxStarts] /\ faucetKey \in 0 .. MaxStarts
  /\ gentxDir \in [Gen!Val -> [Gen!Val -> Gen!Gentx]] /\ genesis \in [Gen!Node -> Gen!Genesis]
  /\ genConfig \in [Gen!Node -> {"default", "merged", "lost"}] /\ peers \in [Gen!Node -> SUBSET Gen!Node]
OwnGentx   == \A v \in Gen!Val, u \in Gen!Val : v # Gen!Primary /\ u # v => gentxDir[v][u] = Gen!NoGentx
Unmodified == ~HasModify => \A n \in Gen!Node : ~genesis[n].modified
GenFilesOK    == GenFilesTyped /\ OwnGentx /\ Unmodified

CallTyped ==
  /\ genPc \in Gen!Step /\ at \in Gen!Node /\ wallets \in SUBSET Wallets /\ carried \in Gen!Genesis
  /\ ids \in SUBSET Gen!Node /\ starts \in 0 .. MaxStarts
  /\ ignored \in BOOLEAN /\ genRet \in {"none", "ok", "err"}
  /\ ~HasModify => ~carried.modified
  /\ starts = 0 => genPc = "idle" /\ genRet = "none" /\ ~ignored
  /\ genPc # "idle" => genRet = "none"
  /\ genPc \in Signing => at \in Gen!Val
  /\ genPc \in Sharing => at \in Gen!Val \ {Gen!Primary}
  /\ genPc = "distribute" => at \in Gen!Node \ {Gen!Primary}
  /\ genPc \notin {"ids", "peers"} => ids = {}
  /\ genPc \in {"account", "gentx"} => key[at] # 0
  /\ genPc = "faucet.account" => faucetKey # 0
  /\ genPc = "modify" => HasModify

Real(v) == [key |-> key[v], denom |-> "real"]

Signed(v) == gentxDir[v][v] = Real(v) /\ key[v] # 0

Backed(v) ==
  /\ gentxDir[Gen!Primary][v] = Real(v) /\ key[v] # 0
  /\ Gen!ValAddress(v) \in genesis[Gen!Primary].accounts

\* Who has signed, and who is backed on the primary, as the call goes on.
Signs ==
  \A v \in Gen!Val :
    /\ genPc \in Signing /\ v < at => Signed(v)
    /\ genPc \in Sharing => Signed(v)
    /\ genPc = "copy" /\ v = at => Gen!ValAddress(v) \in genesis[Gen!Primary].accounts
    /\ genPc \in Signing /\ v = Gen!Primary /\ Gen!Primary < at => Backed(v)
    /\ genPc \in Sharing /\ v < at => Backed(v)
    /\ genPc \in Paying => Backed(v)

Collected ==
  /\ genPc \in Finishing => genesis[Gen!Primary].ok
  /\ genPc \in Finishing \cup Spreading \/ genRet = "ok" =>
       \A v \in Gen!Val : genesis[Gen!Primary].ok =>
         /\ genesis[Gen!Primary].gentxs[v] = Real(v) /\ key[v] # 0
         /\ Gen!ValAddress(v) \in genesis[Gen!Primary].accounts
  /\ genPc \in {"modify"} \cup Spreading \/ genRet = "ok" =>
       (genesis[Gen!Primary].ok => genesis[Gen!Primary].denom = "real" \/ ignored)

\* A genesis with everybody in it.
Paid ==
  /\ genPc = "wallets" =>
       ignored \/ \A w \in Wallets \ wallets : Gen!WalletAddress(w) \in genesis[Gen!Primary].accounts
  /\ genPc \in (Paying \ {"wallets"}) \cup Finishing \cup Spreading \/ genRet = "ok" =>
       ignored \/ \A w \in Wallets : Gen!WalletAddress(w) \in genesis[Gen!Primary].accounts
  /\ HasFaucet /\ (genPc \in {"collect"} \cup Finishing \cup Spreading \/ genRet = "ok") =>
       ignored \/ Gen!FaucetAddress \in genesis[Gen!Primary].accounts
  /\ genPc \in Spreading \/ genRet = "ok" =>
       ignored \/ (genesis[Gen!Primary].ok /\ genesis[Gen!Primary].modified = HasModify)

Spread ==
  /\ genPc = "distribute" =>
       ignored \/ (carried = genesis[Gen!Primary]
                   /\ \A n \in Gen!Node : n < at => genesis[n] = genesis[Gen!Primary])
  /\ genPc \in {"ids", "peers"} \/ genRet = "ok" => ignored \/ \A n \in Gen!Node : genesis[n] = genesis[Gen!Primary]
  /\ genPc = "ids" => ignored \/ ids = {n \in Gen!Node : n < at}
  /\ genPc = "peers" => ignored \/ (ids = Gen!Node /\ \A n \in Gen!Node : n < at => peers[n] = Gen!Node)
  /\ genRet = "ok" => ignored \/ \A n \in Gen!Node : peers[n] = Gen!Node

Overridden ==
  /\ \A n \in Gen!Node : genConfig[n] = "lost" => starts # 0 /\ (starts > 1 \/ ignored \/ genRet = "err")
  /\ HasOverrides /\ genPc = "config" =>
       ignored \/ \A n \in Gen!Node : n < at => genConfig[n] \in {"merged", "lost"}
  /\ HasOverrides /\ (genPc \notin {"idle", "config"} \/ genRet = "ok") =>
       ignored \/ \A n \in Gen!Node : genConfig[n] \in {"merged", "lost"}

GenInv == GenFilesOK /\ CallTyped /\ Signs /\ Collected /\ Paid /\ Spread /\ Overridden

LEMMA Constants ==
  /\ Gen!Primary \in Gen!Val /\ Gen!Val \subseteq Gen!Node /\ Gen!Node \subseteq Nat /\ Gen!Primary = 1
  /\ NumVals \in Gen!Val /\ NumVals + NumFulls \in Gen!Node
  /\ Gen!Fresh \in Gen!Genesis /\ Gen!Broken \in Gen!Genesis /\ ~Gen!Broken.modified /\ ~Gen!Broken.ok
  /\ Gen!NoGentx \in Gen!Gentx
<1>1. Gen!NoGentx \in Gen!Gentx
  BY GenesisAssumption DEF Gen!NoGentx, Gen!Gentx
<1>2. Gen!Fresh \in Gen!Genesis
  BY <1>1 DEF Gen!Fresh, Gen!Genesis
<1>3. Gen!Broken \in Gen!Genesis /\ ~Gen!Broken.modified /\ ~Gen!Broken.ok
  BY <1>2 DEF Gen!Fresh, Gen!Broken, Gen!Genesis
<1>4. /\ Gen!Primary \in Gen!Val /\ Gen!Val \subseteq Gen!Node /\ Gen!Node \subseteq Nat /\ Gen!Primary = 1
      /\ NumVals \in Gen!Val /\ NumVals + NumFulls \in Gen!Node
  BY GenesisAssumption DEF Gen!Primary, Gen!Val, Gen!Node
<1> QED BY <1>1, <1>2, <1>3, <1>4

\* A call that ends in an error may leave any files behind.
LEMMA FailKeeps ==
  ASSUME GenInv, GenFilesOK', Gen!Fail, genPc # "idle"
  PROVE  GenInv'
<1>1. /\ genPc' = "idle" /\ genRet' = "err" /\ at' = 1 /\ wallets' = {} /\ carried' = Gen!Broken /\ ids' = {}
      /\ UNCHANGED starts /\ ignored' = FALSE
  BY DEF Gen!Fail, Gen!Return
<1>2. starts \in 0 .. MaxStarts /\ starts # 0
  BY DEF GenInv, CallTyped
<1>3. CallTyped'
  BY <1>1, <1>2, Constants DEF CallTyped, Gen!Step, Signing, Sharing
<1>4. Signs' /\ Collected' /\ Paid' /\ Spread'
  BY <1>1 DEF Signs, Collected, Paid, Spread, Signing, Sharing, Paying, Finishing, Spreading
<1>5. Overridden'
  BY <1>1, <1>2 DEF Overridden
<1> QED BY <1>3, <1>4, <1>5 DEF GenInv

LEMMA FilesStay == ASSUME GenFilesOK, UNCHANGED Gen!files PROVE GenFilesOK'
  BY DEF GenFilesOK, GenFilesTyped, OwnGentx, Unmodified, Gen!files, Gen!ValAddress

\* The genesis of one node is written.
LEMMA GenesisSet ==
  ASSUME GenFilesOK, NEW n \in Gen!Node, NEW g \in Gen!Genesis, ~HasModify => ~g.modified, Gen!SetGenesis(n, g)
  PROVE  /\ GenFilesOK' /\ genesis'[n] = g
         /\ \A m \in Gen!Node \ {n} : genesis'[m] = genesis[m]
         /\ UNCHANGED <<key, faucetKey, gentxDir, genConfig, peers>>
<1>1. genesis' = [genesis EXCEPT ![n] = g] /\ UNCHANGED <<key, faucetKey, gentxDir, genConfig, peers>>
  BY DEF Gen!SetGenesis
<1>2. genesis' \in [Gen!Node -> Gen!Genesis] /\ genesis'[n] = g /\ \A m \in Gen!Node \ {n} : genesis'[m] = genesis[m]
  BY <1>1 DEF GenFilesOK, GenFilesTyped
<1>3. GenFilesTyped' /\ OwnGentx' /\ Unmodified'
  BY <1>1, <1>2 DEF GenFilesOK, GenFilesTyped, OwnGentx, Unmodified
<1> QED BY <1>1, <1>2, <1>3 DEF GenFilesOK

LEMMA AccountAdded ==
  ASSUME GenFilesOK, NEW n \in Gen!Node, NEW a \in Gen!Address, Gen!AddAccount(n, a)
  PROVE  /\ GenFilesOK' /\ a \in genesis'[n].accounts /\ genesis'[n].ok
         /\ genesis[n].accounts \subseteq genesis'[n].accounts
         /\ \A m \in Gen!Node \ {n} : genesis'[m] = genesis[m]
         /\ UNCHANGED <<key, faucetKey, gentxDir, genConfig, peers>>
<1> DEFINE g == [genesis[n] EXCEPT !.accounts = @ \cup {a}]
<1>1. genesis[n] \in Gen!Genesis /\ (~HasModify => ~genesis[n].modified)
  BY DEF GenFilesOK, GenFilesTyped, Unmodified
<1>2. /\ g \in Gen!Genesis /\ (~HasModify => ~g.modified)
      /\ g.accounts = genesis[n].accounts \cup {a} /\ g.ok = genesis[n].ok
  BY <1>1 DEF Gen!Genesis
<1>3. Gen!SetGenesis(n, g) /\ genesis[n].ok
  BY DEF Gen!AddAccount
<1> HIDE DEF g
<1>4. genesis'[n] = g /\ GenFilesOK' /\ \A m \in Gen!Node \ {n} : genesis'[m] = genesis[m]
  BY <1>1, <1>2, <1>3, GenesisSet
<1>5. UNCHANGED <<key, faucetKey, gentxDir, genConfig, peers>>
  BY <1>3 DEF Gen!SetGenesis
<1> QED BY <1>2, <1>3, <1>4, <1>5

LEMMA Addresses ==
  ASSUME GenFilesOK, CallTyped
  PROVE  /\ \A v \in Gen!Val : key[v] # 0 => Gen!ValAddress(v) \in Gen!Address
         /\ \A w \in Wallets : Gen!WalletAddress(w) \in Gen!Address
         /\ faucetKey # 0 => Gen!FaucetAddress \in Gen!Address
<1>1. key \in [Gen!Val -> 0 .. MaxStarts] /\ faucetKey \in 0 .. MaxStarts
  BY DEF GenFilesOK, GenFilesTyped
<1> QED BY <1>1, GenesisAssumption DEF Gen!Address, Gen!ValAddress, Gen!WalletAddress, Gen!FaucetAddress

-----------------------------------------------------------------------------
(* The steps.                                                              *)

LEMMA StartKeeps == ASSUME GenInv, Gen!Start PROVE GenInv'
<1>1. /\ genPc = "idle" /\ starts < MaxStarts /\ starts' = starts + 1 /\ ignored' = FALSE /\ genRet' = "none"
      /\ genPc' = (IF HasOverrides THEN "config" ELSE "key") /\ at' = 1
      /\ UNCHANGED <<Gen!files, wallets, carried, ids>>
  BY DEF Gen!Start
<1>2. starts \in 0 .. MaxStarts /\ starts' \in 1 .. MaxStarts /\ ids = {} /\ (starts # 0 => starts' > 1)
  BY <1>1, GenesisAssumption DEF GenInv, CallTyped
<1>3. GenFilesOK'
  BY <1>1, FilesStay DEF GenInv
<1>4. CallTyped'
  <2>1. /\ wallets \in SUBSET Wallets /\ carried \in Gen!Genesis /\ (~HasModify => ~carried.modified)
    BY DEF GenInv, CallTyped
  <2>2. genPc' \in {"config", "key"} /\ genPc' \in Gen!Step /\ at' \in Gen!Val /\ at' \in Gen!Node
    BY <1>1, Constants DEF Gen!Step
  <2>3. /\ genPc' \in Signing => at' \in Gen!Val
        /\ genPc' \notin Sharing /\ genPc' \notin {"distribute", "account", "gentx", "faucet.account", "modify"}
    BY <2>2 DEF Sharing
  <2>4. starts' # 0 /\ starts' \in 0 .. MaxStarts
    BY <1>2, GenesisAssumption
  <2> QED BY <1>1, <1>2, <2>1, <2>2, <2>3, <2>4 DEF CallTyped
<1>5. Signs'
  <2>1. \A v \in Gen!Val : ~(v < 1) /\ Gen!Primary = 1
    BY Constants DEF Gen!Val
  <2> QED BY <1>1, <2>1 DEF Signs, Signing, Sharing, Paying
<1>6. Collected' /\ Paid' /\ Spread'
  BY <1>1 DEF Collected, Paid, Spread, Paying, Finishing, Spreading
<1>7. Overridden'
  <2>1. \A n \in Gen!Node : genConfig'[n] = "lost" => starts # 0
    BY <1>1 DEF GenInv, Overridden, Gen!files
  <2>2. \A n \in Gen!Node : ~(n < 1)
    BY DEF Gen!Node
  <2> QED BY <1>1, <1>2, <2>1, <2>2 DEF Overridden
<1> QED BY <1>3, <1>4, <1>5, <1>6, <1>7 DEF GenInv

\* A call that goes on.
LEMMA GoesOn ==
  ASSUME GenInv, genPc # "idle", genPc' \in Gen!Step \ {"idle"}, at' \in Gen!Node, wallets' \in SUBSET Wallets,
         UNCHANGED <<carried, ids, starts, genRet>>, ignored' \in BOOLEAN,
         genPc' \in Signing => at' \in Gen!Val, genPc' \in Sharing => at' \in Gen!Val \ {Gen!Primary},
         genPc' = "distribute" => at' # Gen!Primary, genPc' \notin {"ids", "peers"} => ids = {},
         genPc' \in {"account", "gentx"} => key'[at'] # 0,
         genPc' = "faucet.account" => faucetKey' # 0, genPc' = "modify" => HasModify
  PROVE  CallTyped'
<1>1. /\ carried' \in Gen!Genesis /\ (~HasModify => ~carried'.modified)
      /\ ids' \in SUBSET Gen!Node /\ starts' \in 0 .. MaxStarts /\ starts' # 0 /\ genRet' = "none"
  BY DEF GenInv, CallTyped
<1> QED BY <1>1 DEF CallTyped

LEMMA Early ==
  ASSUME genPc' \in {"config"} \cup Signing \cup Sharing, genRet' # "ok"
  PROVE  Collected' /\ Paid' /\ Spread'
BY DEF Signing, Sharing, Paying, Finishing, Spreading, Collected, Paid, Spread

LEMMA Unnoticed ==
  ASSUME GenInv, genPc # "idle", UNCHANGED starts, ignored'
  PROVE  Paid' /\ Spread' /\ Overridden'
BY DEF GenInv, CallTyped, Paid, Spread, Overridden

LEMMA OverridesStay ==
  ASSUME GenInv, genPc \notin {"idle", "config"}, genPc' # "config", UNCHANGED <<genConfig, starts>>,
         ignored => ignored'
  PROVE  Overridden'
<1>1. genRet = "none"
  BY DEF GenInv, CallTyped
<1> QED BY <1>1 DEF GenInv, Overridden

LEMMA BackedStay ==
  ASSUME GenInv, genPc \in Paying, genPc' \in Paying, UNCHANGED <<key, gentxDir>>,
         genesis[Gen!Primary].accounts \subseteq genesis'[Gen!Primary].accounts
  PROVE  Signs'
<1>1. \A v \in Gen!Val : Backed(v)
  BY DEF GenInv, Signs
<1>2. \A v \in Gen!Val : Backed(v)'
  BY <1>1 DEF Backed, Real, Gen!ValAddress
<1> QED BY <1>2 DEF Signs, Paying, Signing, Sharing

\* What is launched stays while it is spread.
LEMMA LaunchStays ==
  ASSUME GenInv, genPc \in Spreading, genPc' \in Spreading \/ (genPc' = "idle" /\ genRet' = "ok"),
         UNCHANGED <<key, faucetKey>>, genesis'[Gen!Primary] = genesis[Gen!Primary], ignored => ignored'
  PROVE  Signs' /\ Collected' /\ Paid'
<1>1. Signs'
  BY DEF Signs, Signing, Sharing, Paying, Spreading
<1>2. Collected'
  BY DEF GenInv, Collected, Finishing, Spreading, Real, Gen!ValAddress
<1>3. Paid'
  BY DEF GenInv, Paid, Paying, Finishing, Spreading, Gen!FaucetAddress, Gen!WalletAddress
<1> QED BY <1>1, <1>2, <1>3

LEMMA ConfigSet ==
  ASSUME GenFilesOK, NEW to \in {"merged", "lost"}, Gen!SetConfig(to), at \in Gen!Node
  PROVE  /\ GenFilesOK' /\ genConfig' = [genConfig EXCEPT ![at] = to]
BY DEF GenFilesOK, GenFilesTyped, OwnGentx, Unmodified, Gen!SetConfig

LEMMA ApplyOverrideKeeps == ASSUME GenInv, Gen!ApplyOverride PROVE GenInv'
<1> DEFINE to == IF genConfig[at] = "lost" THEN "lost" ELSE "merged"
           effect == Gen!SetConfig(to)
           damage == UNCHANGED Gen!files \/ Gen!SetConfig("lost")
           next == Gen!NextNode("config", "key")
<1>0. genPc = "config" /\ at \in Gen!Node /\ GenFilesOK /\ genRet = "none" /\ starts # 0 /\ ignored \in BOOLEAN
  BY DEF Gen!ApplyOverride, Gen!Unchecked, GenInv, CallTyped
<1>1. to \in {"merged", "lost"}
  OBVIOUS
<1>2. \/ effect /\ next /\ UNCHANGED ignored
      \/ damage /\ next /\ ignored' = TRUE
      \/ (effect \/ damage) /\ Gen!Fail
  BY DEF Gen!ApplyOverride, Gen!Unchecked
<1> HIDE DEF to
<1>3. effect => GenFilesOK' /\ genConfig' = [genConfig EXCEPT ![at] = to]
  BY <1>0, <1>1, ConfigSet
<1>4. damage => GenFilesOK'
  BY <1>0, FilesStay, ConfigSet
<1> HIDE DEF effect, damage
<1>5. CASE Gen!Fail
  BY <1>0, <1>2, <1>3, <1>4, <1>5, FailKeeps
<1>6. ASSUME next, ignored' \in BOOLEAN
      PROVE  CallTyped' /\ Signs' /\ Collected' /\ Paid' /\ Spread'
  <2>1. /\ genPc' = (IF at < NumVals + NumFulls THEN "config" ELSE "key")
        /\ at' = (IF at < NumVals + NumFulls THEN at + 1 ELSE 1)
        /\ UNCHANGED <<wallets, carried, ids, starts, genRet>>
    BY <1>6 DEF Gen!NextNode, Gen!Goto
  <2>2. at' \in Gen!Node /\ (genPc' = "key" => at' = 1) /\ ids = {} /\ wallets \in SUBSET Wallets
    BY <1>0, <2>1, GenesisAssumption DEF Gen!Node, GenInv, CallTyped
  <2>3. CallTyped'
    BY <1>0, <1>6, <2>1, <2>2, Constants, GoesOn DEF Gen!Step, Signing, Sharing
  <2>4. Collected' /\ Paid' /\ Spread'
    BY <1>0, <2>1, Early DEF Signing
  <2>5. \A v \in Gen!Val : ~(v < 1) /\ Gen!Primary = 1
    BY Constants DEF Gen!Val
  <2>6. Signs'
    BY <2>1, <2>2, <2>5 DEF Signs, Signing, Sharing, Paying
  <2> QED BY <2>3, <2>4, <2>6
<1>7. CASE damage /\ next /\ ignored' = TRUE
  <2>1. starts' = starts
    BY <1>7 DEF Gen!NextNode, Gen!Goto
  <2> QED BY <1>0, <1>4, <1>6, <1>7, <2>1, Unnoticed DEF GenInv
<1>8. CASE effect /\ next /\ UNCHANGED ignored
  <2>1. /\ genPc' = (IF at < NumVals + NumFulls THEN "config" ELSE "key")
        /\ at' = (IF at < NumVals + NumFulls THEN at + 1 ELSE 1)
        /\ UNCHANGED <<starts, genRet, ignored>>
    BY <1>8 DEF Gen!NextNode, Gen!Goto
  <2>2. /\ genConfig \in [Gen!Node -> {"default", "merged", "lost"}]
        /\ genConfig'[at] = to /\ \A n \in Gen!Node \ {at} : genConfig'[n] = genConfig[n]
    BY <1>0, <1>3, <1>8 DEF GenFilesOK, GenFilesTyped
  <2>3. \A n \in Gen!Node : genConfig'[n] = "lost" => starts # 0 /\ (starts > 1 \/ ignored \/ genRet = "err")
    BY <1>0, <2>2 DEF to, GenInv, Overridden
  <2>4. \A n \in Gen!Node : (n < at => genConfig[n] \in {"merged", "lost"})
                        => (n < at + 1 => genConfig'[n] \in {"merged", "lost"})
    BY <1>0, <1>1, <2>2, Constants
  <2>5. ~(at < NumVals + NumFulls) => \A n \in Gen!Node : n < at + 1
    BY <1>0, GenesisAssumption DEF Gen!Node
  <2>6. HasOverrides => ignored \/ \A n \in Gen!Node : n < at + 1 => genConfig'[n] \in {"merged", "lost"}
    BY <1>0, <2>4 DEF GenInv, Overridden
  <2>7. Overridden'
    BY <1>0, <2>1, <2>3, <2>5, <2>6 DEF Overridden
  <2> QED BY <1>0, <1>3, <1>6, <1>8, <2>1, <2>7 DEF GenInv
<1> QED BY <1>2, <1>5, <1>7, <1>8

LEMMA CreateKeyKeeps == ASSUME GenInv, Gen!CreateKey PROVE GenInv'
<1> DEFINE effect == /\ key' = [key EXCEPT ![at] = starts]
                     /\ UNCHANGED <<faucetKey, gentxDir, genesis, genConfig, peers>>
<1>0. /\ genPc = "key" /\ at \in Gen!Val /\ GenFilesOK /\ genRet = "none" /\ starts \in 1 .. MaxStarts
      /\ ids = {} /\ wallets \in SUBSET Wallets /\ ignored \in BOOLEAN
  BY GenesisAssumption DEF Gen!CreateKey, Gen!Checked, GenInv, CallTyped, Signing
<1>1. \/ effect /\ Gen!Goto("account", at) /\ UNCHANGED ignored
      \/ effect /\ Gen!Fail
      \/ UNCHANGED Gen!files /\ Gen!Fail
  BY DEF Gen!CreateKey, Gen!Checked
<1>2. effect => GenFilesOK' /\ key'[at] = starts /\ \A v \in Gen!Val \ {at} : key'[v] = key[v]
  BY <1>0, GenesisAssumption DEF GenFilesOK, GenFilesTyped, OwnGentx, Unmodified
<1>3. CASE Gen!Fail
  BY <1>0, <1>1, <1>2, <1>3, FilesStay, FailKeeps
<1>4. CASE effect /\ Gen!Goto("account", at) /\ UNCHANGED ignored
  <2>1. genPc' = "account" /\ at' = at /\ UNCHANGED <<wallets, carried, ids, starts, genRet, ignored>>
    BY <1>4 DEF Gen!Goto
  <2>2. CallTyped'
    BY <1>0, <1>2, <1>4, <2>1, Constants, GoesOn DEF Gen!Step, Signing, Sharing
  <2>3. \A v \in Gen!Val : v < at => Signed(v)' /\ (v = Gen!Primary => Backed(v)')
    <3> TAKE v \in Gen!Val
    <3>1. v < at => Signed(v) /\ (v = Gen!Primary => Backed(v))
      BY <1>0 DEF GenInv, Signs, Signing
    <3>2. v < at => v # at
      BY <1>0 DEF Gen!Val
    <3> QED BY <1>2, <1>4, <3>1, <3>2 DEF Signed, Backed, Real, Gen!ValAddress
  <2>4. Signs'
    BY <2>1, <2>3 DEF Signs, Signing, Sharing, Paying
  <2>5. Collected' /\ Paid' /\ Spread'
    BY <1>0, <2>1, Early DEF Signing
  <2>6. Overridden'
    BY <1>0, <1>4, <2>1, OverridesStay
  <2> QED BY <1>2, <1>4, <2>2, <2>4, <2>5, <2>6 DEF GenInv
<1> QED BY <1>1, <1>3, <1>4

LEMMA AddOwnAccountKeeps == ASSUME GenInv, Gen!AddOwnAccount PROVE GenInv'
<1> DEFINE effect == Gen!AddAccount(at, Gen!ValAddress(at))
<1>0. /\ genPc = "account" /\ at \in Gen!Val /\ at \in Gen!Node /\ GenFilesOK /\ genRet = "none" /\ key[at] # 0
      /\ ids = {} /\ wallets \in SUBSET Wallets /\ ignored \in BOOLEAN
  BY DEF Gen!AddOwnAccount, Gen!Checked, GenInv, CallTyped, Signing
<1>1. \/ effect /\ Gen!Goto("gentx", at) /\ UNCHANGED ignored
      \/ effect /\ Gen!Fail
      \/ UNCHANGED Gen!files /\ Gen!Fail
  BY DEF Gen!AddOwnAccount, Gen!Checked
<1>2. Gen!ValAddress(at) \in Gen!Address
  BY <1>0, Addresses DEF GenInv
<1>3. effect => /\ GenFilesOK' /\ \A m \in Gen!Node \ {at} : genesis'[m] = genesis[m]
                /\ UNCHANGED <<key, faucetKey, gentxDir, genConfig, peers>>
  BY <1>0, <1>2, AccountAdded
<1> HIDE DEF effect
<1>4. CASE Gen!Fail
  BY <1>0, <1>1, <1>3, <1>4, FilesStay, FailKeeps
<1>5. CASE effect /\ Gen!Goto("gentx", at) /\ UNCHANGED ignored
  <2>1. genPc' = "gentx" /\ at' = at /\ UNCHANGED <<wallets, carried, ids, starts, genRet, ignored>>
    BY <1>5 DEF Gen!Goto
  <2>2. CallTyped'
    BY <1>0, <1>3, <1>5, <2>1, Constants, GoesOn DEF Gen!Step, Signing, Sharing
  <2>3. \A v \in Gen!Val : v < at => Signed(v)' /\ (v = Gen!Primary => Backed(v)')
    <3> TAKE v \in Gen!Val
    <3>1. v < at => v # at /\ Signed(v) /\ (v = Gen!Primary => Backed(v))
      BY <1>0, Constants DEF GenInv, Signs, Signing
    <3> QED BY <1>3, <1>5, <3>1, Constants DEF Signed, Backed, Real, Gen!ValAddress
  <2>4. Signs'
    BY <2>1, <2>3 DEF Signs, Signing, Sharing, Paying
  <2>5. Collected' /\ Paid' /\ Spread'
    BY <1>0, <2>1, Early DEF Signing
  <2>6. Overridden'
    BY <1>0, <1>3, <1>5, <2>1, OverridesStay
  <2> QED BY <1>3, <1>5, <2>2, <2>4, <2>5, <2>6 DEF GenInv
<1> QED BY <1>1, <1>4, <1>5

LEMMA SignGentxKeeps == ASSUME GenInv, Gen!SignGentx PROVE GenInv'
<1> DEFINE effect == /\ Gen!ValAddress(at) \in genesis[at].accounts
                     /\ gentxDir' = [gentxDir EXCEPT ![at][at] = [key |-> key[at], denom |-> "real"]]
                     /\ UNCHANGED <<key, faucetKey, genesis, genConfig, peers>>
           next == IF at < NumVals THEN Gen!Goto("key", at + 1)
                   ELSE IF NumVals > 1 THEN Gen!Goto("others", 2)
                   ELSE /\ genPc' = "wallets" /\ at' = 1 /\ wallets' = Wallets
                        /\ UNCHANGED <<carried, ids, starts, genRet>>
<1>0. /\ genPc = "gentx" /\ at \in Gen!Val /\ at \in Gen!Node /\ GenFilesOK /\ genRet = "none" /\ key[at] # 0
      /\ ids = {} /\ wallets \in SUBSET Wallets /\ ignored \in BOOLEAN
  BY DEF Gen!SignGentx, Gen!Checked, GenInv, CallTyped, Signing
<1>1. \/ effect /\ next /\ UNCHANGED ignored
      \/ effect /\ Gen!Fail
      \/ UNCHANGED Gen!files /\ Gen!Fail
  BY DEF Gen!SignGentx, Gen!Checked
<1>2. ASSUME effect
      PROVE  /\ GenFilesOK' /\ gentxDir'[at][at] = Real(at)
             /\ \A v \in Gen!Val, u \in Gen!Val : <<v, u>> # <<at, at>> => gentxDir'[v][u] = gentxDir[v][u]
  <2>1. /\ gentxDir \in [Gen!Val -> [Gen!Val -> Gen!Gentx]] /\ key \in [Gen!Val -> 0 .. MaxStarts]
    BY DEF GenInv, GenFilesOK, GenFilesTyped
  <2>2. Real(at) \in Gen!Gentx
    BY <1>0, <2>1 DEF Real, Gen!Gentx
  <2>3. gentxDir' = [gentxDir EXCEPT ![at] = [gentxDir[at] EXCEPT ![at] = Real(at)]]
    BY <1>2 DEF Real
  <2>4. gentxDir'[at] = [gentxDir[at] EXCEPT ![at] = Real(at)]
        /\ \A v \in Gen!Val \ {at} : gentxDir'[v] = gentxDir[v]
    BY <1>0, <2>1, <2>3
  <2>5. /\ gentxDir' \in [Gen!Val -> [Gen!Val -> Gen!Gentx]] /\ gentxDir'[at][at] = Real(at)
        /\ \A u \in Gen!Val \ {at} : gentxDir'[at][u] = gentxDir[at][u]
    BY <1>0, <2>1, <2>2, <2>3, <2>4
  <2>6. GenFilesTyped' /\ OwnGentx' /\ Unmodified'
    BY <1>0, <1>2, <2>4, <2>5 DEF GenFilesOK, GenFilesTyped, OwnGentx, Unmodified
  <2> QED BY <2>4, <2>5, <2>6 DEF GenFilesOK
<1>3. CASE Gen!Fail
  BY <1>0, <1>1, <1>2, <1>3, FilesStay, FailKeeps
<1>4. CASE effect /\ next /\ UNCHANGED ignored
  <2>1. /\ genPc' = (IF at < NumVals THEN "key" ELSE IF NumVals > 1 THEN "others" ELSE "wallets")
        /\ at' = (IF at < NumVals THEN at + 1 ELSE IF NumVals > 1 THEN 2 ELSE 1)
        /\ wallets' \in SUBSET Wallets /\ UNCHANGED <<carried, ids, starts, genRet, ignored>>
    BY <1>0, <1>4 DEF Gen!Goto
  <2>2. at \in 1 .. NumVals /\ Gen!Primary = 1
    BY <1>0 DEF Gen!Val, Gen!Primary
  <2>3. /\ at' \in Gen!Val /\ (genPc' = "others" => at' # Gen!Primary) /\ (genPc' # "wallets" => at' > Gen!Primary)
        /\ (genPc' = "wallets" => \A v \in Gen!Val : v = at /\ v = Gen!Primary)
        /\ (genPc' = "others" => at' = 2 /\ \A v \in Gen!Val : ~(at < v))
        /\ (genPc' = "key" => at' = at + 1)
    BY <2>1, <2>2, GenesisAssumption DEF Gen!Val
  <2>4. CallTyped'
    BY <1>0, <1>4, <2>1, <2>3, Constants, GoesOn DEF Gen!Step, Signing, Sharing
  <2>5. \A v \in Gen!Val : v < at \/ v = at => Signed(v)' /\ (v = Gen!Primary => Backed(v)')
    <3> TAKE v \in Gen!Val
    <3>1. v < at => v # at /\ Signed(v) /\ (v = Gen!Primary => Backed(v))
      BY <1>0, Constants DEF GenInv, Signs, Signing
    <3>2. v < at => gentxDir'[v][v] = gentxDir[v][v]
      BY <1>2, <1>4, <3>1
    <3> QED BY <1>0, <1>2, <1>4, <3>1, <3>2 DEF Signed, Backed, Real, Gen!ValAddress
  <2>6. \A v \in Gen!Val : v \in Nat /\ (~(at < v) => v < at \/ v = at) /\ (v < at + 1 => v < at \/ v = at)
                       /\ (v < 2 => v = Gen!Primary)
    BY <2>2 DEF Gen!Val
  <2>7. Signs'
    <3>1. CASE genPc' = "key"
      BY <2>3, <2>5, <2>6, <3>1 DEF Signs, Signing, Sharing, Paying
    <3>2. CASE genPc' = "others"
      BY <2>3, <2>5, <2>6, <3>2 DEF Signs, Signing, Sharing, Paying
    <3>3. CASE genPc' = "wallets"
      BY <2>3, <2>5, <2>6, <3>3 DEF Signs, Signing, Sharing, Paying
    <3> QED BY <2>1, <3>1, <3>2, <3>3
  <2>8. Collected' /\ Spread'
    BY <1>0, <2>1 DEF Collected, Spread, Finishing, Spreading
  <2>9. Paid'
    BY <1>0, <1>4, <2>1, <2>3 DEF Paid, Paying, Finishing, Spreading
  <2>10. Overridden'
    BY <1>0, <1>4, <2>1, OverridesStay
  <2> QED BY <1>2, <1>4, <2>4, <2>7, <2>8, <2>9, <2>10 DEF GenInv
<1> QED BY <1>1, <1>3, <1>4

LEMMA AddOtherAccountKeeps == ASSUME GenInv, Gen!AddOtherAccount PROVE GenInv'
<1> DEFINE effect == Gen!AddAccount(Gen!Primary, Gen!ValAddress(at))
<1>0. /\ genPc = "others" /\ at \in Gen!Val \ {Gen!Primary} /\ at \in Gen!Node /\ Gen!Primary \in Gen!Node /\ GenFilesOK /\ genRet = "none"
      /\ ids = {} /\ wallets \in SUBSET Wallets /\ ignored \in BOOLEAN
  BY Constants DEF Gen!AddOtherAccount, Gen!Checked, GenInv, CallTyped, Sharing
<1>1. \/ effect /\ Gen!Goto("copy", at) /\ UNCHANGED ignored
      \/ effect /\ Gen!Fail
      \/ UNCHANGED Gen!files /\ Gen!Fail
  BY DEF Gen!AddOtherAccount, Gen!Checked
<1>2. \A v \in Gen!Val : Signed(v) /\ (v < at => Backed(v))
  BY <1>0 DEF GenInv, Signs, Sharing
<1>3. Gen!ValAddress(at) \in Gen!Address
  BY <1>0, <1>2, Addresses DEF GenInv, Signed
<1>4. effect => /\ GenFilesOK' /\ Gen!ValAddress(at) \in genesis'[Gen!Primary].accounts
                /\ genesis[Gen!Primary].accounts \subseteq genesis'[Gen!Primary].accounts
                /\ UNCHANGED <<key, faucetKey, gentxDir, genConfig, peers>>
  BY <1>0, <1>3, AccountAdded
<1> HIDE DEF effect
<1>5. CASE Gen!Fail
  BY <1>0, <1>1, <1>4, <1>5, FilesStay, FailKeeps
<1>6. CASE effect /\ Gen!Goto("copy", at) /\ UNCHANGED ignored
  <2>1. genPc' = "copy" /\ at' = at /\ UNCHANGED <<wallets, carried, ids, starts, genRet, ignored>>
    BY <1>6 DEF Gen!Goto
  <2>2. CallTyped'
    BY <1>0, <1>4, <1>6, <2>1, Constants, GoesOn DEF Gen!Step, Signing, Sharing
  <2>3. \A v \in Gen!Val : Signed(v)' /\ (v < at => Backed(v)')
    BY <1>2, <1>4, <1>6 DEF Signed, Backed, Real, Gen!ValAddress
  <2>4. Gen!ValAddress(at)' \in genesis'[Gen!Primary].accounts
    BY <1>4, <1>6, <2>1 DEF Gen!ValAddress
  <2>5. Signs'
    BY <2>1, <2>3, <2>4 DEF Signs, Signing, Sharing, Paying, Gen!ValAddress
  <2>6. Collected' /\ Paid' /\ Spread'
    BY <1>0, <2>1, Early DEF Sharing
  <2>7. Overridden'
    BY <1>0, <1>4, <1>6, <2>1, OverridesStay
  <2> QED BY <1>4, <1>6, <2>2, <2>5, <2>6, <2>7 DEF GenInv
<1> QED BY <1>1, <1>5, <1>6

LEMMA CopyGentxsKeeps == ASSUME GenInv, Gen!CopyGentxs PROVE GenInv'
<1> DEFINE all == [u \in Gen!Val |-> IF gentxDir[at][u] # Gen!NoGentx THEN gentxDir[at][u]
                                ELSE gentxDir[Gen!Primary][u]]
           effect == /\ gentxDir' = [gentxDir EXCEPT ![Gen!Primary] = all]
                     /\ UNCHANGED <<key, faucetKey, genesis, genConfig, peers>>
           next == IF at < NumVals THEN Gen!Goto("others", at + 1)
                   ELSE /\ genPc' = "wallets" /\ at' = 1 /\ wallets' = Wallets
                        /\ UNCHANGED <<carried, ids, starts, genRet>>
<1>0. /\ genPc = "copy" /\ at \in Gen!Val \ {Gen!Primary} /\ at \in Gen!Val /\ at \in Gen!Node /\ Gen!Primary \in Gen!Val
      /\ GenFilesOK /\ genRet = "none" /\ ids = {} /\ ignored \in BOOLEAN
  BY Constants DEF Gen!CopyGentxs, Gen!Checked, GenInv, CallTyped, Sharing
<1>1. \/ effect /\ next /\ UNCHANGED ignored
      \/ effect /\ Gen!Fail
      \/ UNCHANGED Gen!files /\ Gen!Fail
  BY DEF Gen!CopyGentxs, Gen!Checked
<1>2. \A v \in Gen!Val : /\ Signed(v) /\ (v < at => Backed(v))
                         /\ (v = at => Gen!ValAddress(v) \in genesis[Gen!Primary].accounts)
  BY <1>0 DEF GenInv, Signs, Sharing
<1>3. gentxDir \in [Gen!Val -> [Gen!Val -> Gen!Gentx]] /\ \A u \in Gen!Val : u # at => gentxDir[at][u] = Gen!NoGentx
  BY <1>0 DEF GenFilesOK, GenFilesTyped, OwnGentx
<1>4. gentxDir[at][at] = Real(at) /\ Real(at) # Gen!NoGentx
  BY <1>0, <1>2 DEF Signed, Real, Gen!NoGentx
<1>5. all \in [Gen!Val -> Gen!Gentx] /\ all[at] = Real(at) /\ \A u \in Gen!Val \ {at} : all[u] = gentxDir[Gen!Primary][u]
  BY <1>0, <1>3, <1>4
<1> HIDE DEF all
<1>6. ASSUME effect
      PROVE  /\ GenFilesOK' /\ gentxDir'[Gen!Primary] = all
             /\ \A v \in Gen!Val \ {Gen!Primary} : gentxDir'[v] = gentxDir[v]
  <2>1. /\ gentxDir'[Gen!Primary] = all /\ gentxDir' \in [Gen!Val -> [Gen!Val -> Gen!Gentx]]
        /\ \A v \in Gen!Val \ {Gen!Primary} : gentxDir'[v] = gentxDir[v]
    BY <1>0, <1>3, <1>5, <1>6
  <2>2. GenFilesTyped' /\ OwnGentx' /\ Unmodified'
    BY <1>0, <1>6, <2>1 DEF GenFilesOK, GenFilesTyped, OwnGentx, Unmodified
  <2> QED BY <2>1, <2>2 DEF GenFilesOK
<1>7. CASE Gen!Fail
  BY <1>0, <1>1, <1>6, <1>7, FilesStay, FailKeeps
<1>8. CASE effect /\ next /\ UNCHANGED ignored
  <2>1. /\ genPc' = (IF at < NumVals THEN "others" ELSE "wallets")
        /\ at' = (IF at < NumVals THEN at + 1 ELSE 1)
        /\ wallets' \in SUBSET Wallets /\ UNCHANGED <<carried, ids, starts, genRet, ignored>>
        /\ (genPc' = "wallets" => wallets' = Wallets)
    <3>1. wallets \in SUBSET Wallets
      BY DEF GenInv, CallTyped
    <3> QED BY <1>8, <3>1 DEF Gen!Goto
  <2>2. at \in 1 .. NumVals /\ Gen!Primary = 1
    BY <1>0 DEF Gen!Val, Gen!Primary
  <2>3. /\ at' \in Gen!Val /\ (genPc' = "others" => at' = at + 1 /\ at' # Gen!Primary)
        /\ (genPc' = "wallets" => at = NumVals)
    BY <1>0, <2>1, <2>2, GenesisAssumption DEF Gen!Val
  <2>4. CallTyped'
    BY <1>0, <1>8, <2>1, <2>3, Constants, GoesOn DEF Gen!Step, Signing, Sharing
  <2>5. \A v \in Gen!Val : Signed(v)' /\ (v < at \/ v = at => Backed(v)')
    <3> TAKE v \in Gen!Val
    <3>1. gentxDir'[v][v] = gentxDir[v][v]
      BY <1>0, <1>5, <1>6, <1>8
    <3>2. v < at => v # at
      BY <2>2 DEF Gen!Val
    <3>3. v # at => gentxDir'[Gen!Primary][v] = gentxDir[Gen!Primary][v]
      BY <1>0, <1>5, <1>6, <1>8
    <3>4. v = at => gentxDir'[Gen!Primary][v] = Real(v)
      BY <1>0, <1>5, <1>6, <1>8
    <3>5. Signed(v)'
      BY <1>2, <1>8, <3>1 DEF Signed, Real
    <3>6. v < at => Backed(v)'
      BY <1>2, <1>8, <3>2, <3>3 DEF Backed, Real, Gen!ValAddress
    <3>7. v = at => Backed(v)'
      BY <1>2, <1>8, <3>4 DEF Backed, Signed, Real, Gen!ValAddress
    <3> QED BY <3>5, <3>6, <3>7
  <2>6. \A v \in Gen!Val : (v < at + 1 => v < at \/ v = at) /\ (at = NumVals => v < at \/ v = at)
    BY <2>2 DEF Gen!Val
  <2>7. Signs'
    <3>1. CASE genPc' = "others"
      BY <2>3, <2>5, <2>6, <3>1 DEF Signs, Signing, Sharing, Paying
    <3>2. CASE genPc' = "wallets"
      BY <2>3, <2>5, <2>6, <3>2 DEF Signs, Signing, Sharing, Paying
    <3> QED BY <2>1, <3>1, <3>2
  <2>8. Collected' /\ Spread'
    BY <1>0, <2>1 DEF Collected, Spread, Finishing, Spreading
  <2>9. Paid'
    BY <1>0, <2>1 DEF Paid, Paying, Finishing, Spreading
  <2>10. Overridden'
    BY <1>0, <1>8, <2>1, OverridesStay
  <2> QED BY <1>6, <1>8, <2>4, <2>7, <2>8, <2>9, <2>10 DEF GenInv
<1> QED BY <1>1, <1>7, <1>8

LEMMA AddWalletKeeps == ASSUME GenInv, Gen!AddWallet PROVE GenInv'
<1> DEFINE next(w) == /\ wallets' = wallets \ {w}
                      /\ UNCHANGED <<genPc, at, carried, ids, starts, genRet>>
<1>0. PICK w \in wallets :
        IF Gen!WalletAddress(w) \in genesis[Gen!Primary].accounts
        THEN genPc = "wallets" /\ UNCHANGED <<Gen!files, ignored>> /\ next(w)
        ELSE Gen!Unchecked("wallets", Gen!AddAccount(Gen!Primary, Gen!WalletAddress(w)), UNCHANGED Gen!files, next(w))
  BY DEF Gen!AddWallet
<1>1. /\ genPc = "wallets" /\ at \in Gen!Node /\ Gen!Primary \in Gen!Node /\ GenFilesOK /\ genRet = "none" /\ starts # 0
      /\ ids = {} /\ wallets \in SUBSET Wallets /\ w \in Wallets /\ ignored \in BOOLEAN
  BY <1>0, Constants DEF Gen!Unchecked, GenInv, CallTyped
<1>2. Gen!WalletAddress(w) \in Gen!Address
  BY <1>1, Addresses DEF GenInv
<1> DEFINE effect == Gen!AddAccount(Gen!Primary, Gen!WalletAddress(w))
<1>3. effect => /\ GenFilesOK' /\ Gen!WalletAddress(w) \in genesis'[Gen!Primary].accounts
                /\ genesis[Gen!Primary].accounts \subseteq genesis'[Gen!Primary].accounts
                /\ UNCHANGED <<key, faucetKey, gentxDir, genConfig, peers>>
  BY <1>1, <1>2, AccountAdded
<1> HIDE DEF effect
<1>4. \/ Gen!WalletAddress(w) \in genesis[Gen!Primary].accounts /\ UNCHANGED <<Gen!files, ignored>> /\ next(w)
      \/ effect /\ next(w) /\ UNCHANGED ignored
      \/ UNCHANGED Gen!files /\ next(w) /\ ignored' = TRUE
      \/ (effect \/ UNCHANGED Gen!files) /\ Gen!Fail
  BY <1>0 DEF Gen!Unchecked, effect
<1>5. CASE Gen!Fail
  <2>1. UNCHANGED Gen!files => GenFilesOK'
    BY <1>1, FilesStay
  <2>2. GenFilesOK'
    BY <1>1, <1>3, <1>4, <1>5, <2>1 DEF Gen!Fail, Gen!Return
  <2> QED BY <1>1, <1>5, <2>2, FailKeeps
<1>6. ASSUME next(w), GenFilesOK', ignored' \in BOOLEAN, ignored => ignored',
             UNCHANGED <<key, faucetKey, gentxDir, genConfig, peers>>,
             genesis[Gen!Primary].accounts \subseteq genesis'[Gen!Primary].accounts,
             ignored' \/ Gen!WalletAddress(w) \in genesis'[Gen!Primary].accounts
      PROVE  GenInv'
  <2>1. CallTyped'
    BY <1>1, <1>6, GoesOn DEF Gen!Step, Signing, Sharing
  <2>2. Signs'
    BY <1>1, <1>6, BackedStay DEF Paying
  <2>3. Collected' /\ Spread'
    BY <1>1, <1>6 DEF Collected, Spread, Finishing, Spreading
  <2>4. ignored' \/ \A u \in Wallets \ wallets' : Gen!WalletAddress(u) \in genesis'[Gen!Primary].accounts
    BY <1>1, <1>6 DEF GenInv, Paid
  <2>5. Paid'
    BY <1>1, <1>6, <2>4 DEF Paid, Paying, Finishing, Spreading, Gen!WalletAddress
  <2>6. Overridden'
    BY <1>1, <1>6, OverridesStay
  <2> QED BY <1>6, <2>1, <2>2, <2>3, <2>5, <2>6 DEF GenInv
<1>7. UNCHANGED Gen!files => /\ GenFilesOK' /\ UNCHANGED <<key, faucetKey, gentxDir, genesis, genConfig, peers>>
  BY <1>1, FilesStay DEF Gen!files
<1> HIDE DEF next
<1>8. CASE Gen!WalletAddress(w) \in genesis[Gen!Primary].accounts /\ UNCHANGED <<Gen!files, ignored>> /\ next(w)
  BY <1>1, <1>6, <1>7, <1>8
<1>9. CASE effect /\ next(w) /\ UNCHANGED ignored
  BY <1>1, <1>3, <1>6, <1>9
<1>10. CASE UNCHANGED Gen!files /\ next(w) /\ ignored' = TRUE
  BY <1>1, <1>6, <1>7, <1>10
<1> QED BY <1>4, <1>5, <1>8, <1>9, <1>10

LEMMA WalletsDoneKeeps == ASSUME GenInv, Gen!WalletsDone PROVE GenInv'
<1>1. /\ genPc = "wallets" /\ wallets = {} /\ at' = Gen!Primary
      /\ genPc' = (IF HasFaucet THEN "faucet.key" ELSE "collect")
      /\ UNCHANGED <<Gen!files, wallets, carried, ids, starts, genRet, ignored>>
  BY DEF Gen!WalletsDone, Gen!Goto
<1>2. genRet = "none" /\ ids = {} /\ ignored \in BOOLEAN
  BY <1>1 DEF GenInv, CallTyped
<1>3. GenFilesOK'
  BY <1>1, FilesStay DEF GenInv
<1>4. CallTyped'
  BY <1>1, <1>2, Constants, GoesOn DEF Gen!Step, Signing, Sharing
<1>5. Signs'
  BY <1>1, BackedStay DEF Paying, Gen!files
<1>6. Collected' /\ Spread'
  BY <1>1, <1>2 DEF Collected, Spread, Finishing, Spreading
<1>7. Wallets \ wallets = Wallets
  BY <1>1
<1>8. Paid'
  BY <1>1, <1>2, <1>7 DEF GenInv, Paid, Paying, Finishing, Spreading, Gen!WalletAddress, Gen!files
<1>9. Overridden'
  BY <1>1, OverridesStay DEF Gen!files
<1> QED BY <1>3, <1>4, <1>5, <1>6, <1>8, <1>9 DEF GenInv

LEMMA CreateFaucetKeyKeeps == ASSUME GenInv, Gen!CreateFaucetKey PROVE GenInv'
<1> DEFINE effect == /\ faucetKey' = starts
                     /\ UNCHANGED <<key, gentxDir, genesis, genConfig, peers>>
<1>0. /\ genPc = "faucet.key" /\ GenFilesOK /\ genRet = "none" /\ starts \in 0 .. MaxStarts /\ starts # 0
      /\ ids = {} /\ wallets \in SUBSET Wallets /\ ignored \in BOOLEAN
  BY DEF Gen!CreateFaucetKey, Gen!Checked, GenInv, CallTyped
<1>1. \/ effect /\ Gen!Goto("faucet.account", Gen!Primary) /\ UNCHANGED ignored
      \/ effect /\ Gen!Fail
      \/ UNCHANGED Gen!files /\ Gen!Fail
  BY DEF Gen!CreateFaucetKey, Gen!Checked
<1>2. effect => GenFilesOK'
  BY <1>0 DEF GenFilesOK, GenFilesTyped, OwnGentx, Unmodified
<1>3. CASE Gen!Fail
  BY <1>0, <1>1, <1>2, <1>3, FilesStay, FailKeeps
<1>4. CASE effect /\ Gen!Goto("faucet.account", Gen!Primary) /\ UNCHANGED ignored
  <2>1. /\ genPc' = "faucet.account" /\ at' = Gen!Primary
        /\ UNCHANGED <<wallets, carried, ids, starts, genRet, ignored>>
    BY <1>4 DEF Gen!Goto
  <2>2. CallTyped'
    BY <1>0, <1>4, <2>1, Constants, GoesOn DEF Gen!Step, Signing, Sharing
  <2>3. Signs'
    BY <1>0, <1>4, <2>1, BackedStay DEF Paying
  <2>4. Collected' /\ Spread'
    BY <1>0, <2>1 DEF Collected, Spread, Finishing, Spreading
  <2>5. Paid'
    BY <1>0, <1>4, <2>1 DEF GenInv, Paid, Paying, Finishing, Spreading, Gen!WalletAddress
  <2>6. Overridden'
    BY <1>0, <1>4, <2>1, OverridesStay
  <2> QED BY <1>2, <1>4, <2>2, <2>3, <2>4, <2>5, <2>6 DEF GenInv
<1> QED BY <1>1, <1>3, <1>4

LEMMA AddFaucetAccountKeeps == ASSUME GenInv, Gen!AddFaucetAccount PROVE GenInv'
<1> DEFINE effect == Gen!AddAccount(Gen!Primary, Gen!FaucetAddress)
<1>0. /\ genPc = "faucet.account" /\ Gen!Primary \in Gen!Node /\ GenFilesOK /\ genRet = "none" /\ faucetKey # 0
      /\ ids = {} /\ wallets \in SUBSET Wallets /\ ignored \in BOOLEAN
  BY Constants DEF Gen!AddFaucetAccount, Gen!Checked, GenInv, CallTyped
<1>1. \/ effect /\ Gen!Goto("collect", Gen!Primary) /\ UNCHANGED ignored
      \/ effect /\ Gen!Fail
      \/ UNCHANGED Gen!files /\ Gen!Fail
  BY DEF Gen!AddFaucetAccount, Gen!Checked
<1>2. Gen!FaucetAddress \in Gen!Address
  BY <1>0, Addresses DEF GenInv
<1>3. effect => /\ GenFilesOK' /\ Gen!FaucetAddress \in genesis'[Gen!Primary].accounts
                /\ genesis[Gen!Primary].accounts \subseteq genesis'[Gen!Primary].accounts
                /\ UNCHANGED <<key, faucetKey, gentxDir, genConfig, peers>>
  BY <1>0, <1>2, AccountAdded
<1> HIDE DEF effect
<1>4. CASE Gen!Fail
  BY <1>0, <1>1, <1>3, <1>4, FilesStay, FailKeeps
<1>5. CASE effect /\ Gen!Goto("collect", Gen!Primary) /\ UNCHANGED ignored
  <2>1. /\ genPc' = "collect" /\ at' = Gen!Primary
        /\ UNCHANGED <<wallets, carried, ids, starts, genRet, ignored>>
    BY <1>5 DEF Gen!Goto
  <2>2. CallTyped'
    BY <1>0, <1>5, <2>1, Constants, GoesOn DEF Gen!Step, Signing, Sharing
  <2>3. Signs'
    BY <1>0, <1>3, <1>5, <2>1, BackedStay DEF Paying
  <2>4. Collected' /\ Spread'
    BY <1>0, <2>1 DEF Collected, Spread, Finishing, Spreading
  <2>5. ignored \/ \A w \in Wallets : Gen!WalletAddress(w) \in genesis'[Gen!Primary].accounts
    BY <1>0, <1>3, <1>5 DEF GenInv, Paid, Paying
  <2>6. Paid'
    BY <1>0, <1>3, <1>5, <2>1, <2>5 DEF Paid, Paying, Finishing, Spreading, Gen!WalletAddress, Gen!FaucetAddress
  <2>7. Overridden'
    BY <1>0, <1>3, <1>5, <2>1, OverridesStay
  <2> QED BY <1>3, <1>5, <2>2, <2>3, <2>4, <2>6, <2>7 DEF GenInv
<1> QED BY <1>1, <1>4, <1>5

\* The genesis of the primary is edited, the accounts untouched.
LEMMA CollectGentxsKeeps == ASSUME GenInv, Gen!CollectGentxs PROVE GenInv'
<1> DEFINE g == [genesis[Gen!Primary] EXCEPT !.gentxs = gentxDir[Gen!Primary]]
           effect == genesis[Gen!Primary].ok /\ Gen!SetGenesis(Gen!Primary, g)
           next == (\A v \in Gen!Val : gentxDir[Gen!Primary][v] # Gen!NoGentx) /\ Gen!Goto("denom", Gen!Primary)
<1>0. /\ genPc = "collect" /\ Gen!Primary \in Gen!Node /\ Gen!Primary \in Gen!Val /\ GenFilesOK /\ genRet = "none"
      /\ ids = {} /\ wallets \in SUBSET Wallets /\ ignored \in BOOLEAN
  BY Constants DEF Gen!CollectGentxs, Gen!Checked, GenInv, CallTyped
<1>1. \/ effect /\ next /\ UNCHANGED ignored
      \/ effect /\ Gen!Fail
      \/ UNCHANGED Gen!files /\ Gen!Fail
  BY DEF Gen!CollectGentxs, Gen!Checked
<1>2. genesis[Gen!Primary] \in Gen!Genesis /\ (~HasModify => ~genesis[Gen!Primary].modified)
      /\ gentxDir[Gen!Primary] \in [Gen!Val -> Gen!Gentx]
  BY <1>0 DEF GenFilesOK, GenFilesTyped, Unmodified
<1>3. /\ g \in Gen!Genesis /\ (~HasModify => ~g.modified) /\ g.accounts = genesis[Gen!Primary].accounts
      /\ g.ok = genesis[Gen!Primary].ok /\ g.gentxs = gentxDir[Gen!Primary]
  BY <1>2 DEF Gen!Genesis
<1> HIDE DEF g
<1>4. effect => /\ GenFilesOK' /\ genesis'[Gen!Primary] = g /\ genesis[Gen!Primary].ok
                /\ UNCHANGED <<key, faucetKey, gentxDir, genConfig, peers>>
  BY <1>0, <1>3, GenesisSet
<1> HIDE DEF effect
<1>5. CASE Gen!Fail
  BY <1>0, <1>1, <1>4, <1>5, FilesStay, FailKeeps
<1>6. CASE effect /\ next /\ UNCHANGED ignored
  <2>1. /\ genPc' = "denom" /\ at' = Gen!Primary
        /\ UNCHANGED <<wallets, carried, ids, starts, genRet, ignored>>
    BY <1>6 DEF Gen!Goto
  <2>2. CallTyped'
    BY <1>0, <1>6, <2>1, Constants, GoesOn DEF Gen!Step, Signing, Sharing
  <2>3. Signs'
    BY <2>1 DEF Signs, Signing, Sharing, Paying
  <2>4. \A v \in Gen!Val : Backed(v)
    BY <1>0 DEF GenInv, Signs, Paying
  <2>5. \A v \in Gen!Val : /\ g.gentxs[v] = Real(v)' /\ key'[v] # 0
                           /\ Gen!ValAddress(v)' \in g.accounts
    BY <1>3, <1>4, <1>6, <2>4 DEF Backed, Real, Gen!ValAddress
  <2>6. Collected'
    BY <1>0, <1>3, <1>4, <1>6, <2>1, <2>5 DEF Collected, Finishing, Spreading
  <2>7. Spread'
    BY <1>0, <2>1 DEF Spread
  <2>8. Paid'
    BY <1>0, <1>3, <1>4, <1>6, <2>1 DEF GenInv, Paid, Paying, Finishing, Spreading, Gen!WalletAddress, Gen!FaucetAddress
  <2>9. Overridden'
    BY <1>0, <1>4, <1>6, <2>1, OverridesStay
  <2> QED BY <1>4, <1>6, <2>2, <2>3, <2>6, <2>7, <2>8, <2>9 DEF GenInv
<1> QED BY <1>1, <1>5, <1>6

LEMMA ReplaceDenomKeeps == ASSUME GenInv, Gen!ReplaceDenom PROVE GenInv'
<1> DEFINE g == [genesis[Gen!Primary] EXCEPT !.denom = "real"]
           effect == Gen!SetGenesis(Gen!Primary, g)
           next == Gen!Goto(IF HasModify THEN "modify" ELSE "read", Gen!Primary)
<1>0. /\ genPc = "denom" /\ Gen!Primary \in Gen!Node /\ GenFilesOK /\ genRet = "none" /\ starts # 0
      /\ ids = {} /\ wallets \in SUBSET Wallets /\ ignored \in BOOLEAN
  BY Constants DEF Gen!ReplaceDenom, Gen!Unchecked, GenInv, CallTyped
<1>1. \/ effect /\ next /\ UNCHANGED ignored
      \/ UNCHANGED Gen!files /\ next /\ ignored' = TRUE
      \/ (effect \/ UNCHANGED Gen!files) /\ Gen!Fail
  BY DEF Gen!ReplaceDenom, Gen!Unchecked
<1>2. genesis[Gen!Primary] \in Gen!Genesis /\ (~HasModify => ~genesis[Gen!Primary].modified)
  BY <1>0 DEF GenFilesOK, GenFilesTyped, Unmodified
<1>3. /\ g \in Gen!Genesis /\ (~HasModify => ~g.modified) /\ g.accounts = genesis[Gen!Primary].accounts
      /\ g.ok = genesis[Gen!Primary].ok /\ g.gentxs = genesis[Gen!Primary].gentxs /\ g.denom = "real"
      /\ g.modified = genesis[Gen!Primary].modified /\ g.modified \in BOOLEAN
  BY <1>2 DEF Gen!Genesis
<1> HIDE DEF g
<1>4. effect => /\ GenFilesOK' /\ genesis'[Gen!Primary] = g
                /\ UNCHANGED <<key, faucetKey, gentxDir, genConfig, peers>>
  BY <1>0, <1>3, GenesisSet
<1>5. UNCHANGED Gen!files => /\ GenFilesOK' /\ UNCHANGED <<key, faucetKey, gentxDir, genesis, genConfig, peers>>
  BY <1>0, FilesStay DEF Gen!files
<1> HIDE DEF effect
<1>6. CASE Gen!Fail
  BY <1>0, <1>1, <1>4, <1>5, <1>6, FailKeeps
<1>7. ASSUME next, GenFilesOK', ignored' \in BOOLEAN PROVE CallTyped' /\ Signs'
  <2>1. /\ genPc' = (IF HasModify THEN "modify" ELSE "read") /\ at' = Gen!Primary
        /\ UNCHANGED <<wallets, carried, ids, starts, genRet>>
    BY <1>7 DEF Gen!Goto
  <2>2. CallTyped'
    BY <1>0, <1>7, <2>1, Constants, GoesOn DEF Gen!Step, Signing, Sharing
  <2> QED BY <2>1, <2>2 DEF Signs, Signing, Sharing, Paying
<1>8. \A v \in Gen!Val : genesis[Gen!Primary].ok =>
         /\ genesis[Gen!Primary].gentxs[v] = Real(v) /\ key[v] # 0
         /\ Gen!ValAddress(v) \in genesis[Gen!Primary].accounts
  BY <1>0 DEF GenInv, Collected, Finishing
<1>9. genesis[Gen!Primary].ok
  BY <1>0 DEF GenInv, Collected, Finishing
<1>10. CASE UNCHANGED Gen!files /\ next /\ ignored' = TRUE
  <2>1. starts' = starts /\ genPc' \in {"modify", "read"} /\ genRet' = genRet
    BY <1>10 DEF Gen!Goto
  <2>2. Collected'
    BY <1>0, <1>5, <1>8, <1>9, <1>10, <2>1 DEF Collected, Real, Gen!ValAddress
  <2> QED BY <1>0, <1>5, <1>7, <1>10, <2>1, <2>2, Unnoticed DEF GenInv
<1>11. CASE effect /\ next /\ UNCHANGED ignored
  <2>1. /\ starts' = starts /\ genPc' = (IF HasModify THEN "modify" ELSE "read") /\ genRet' = genRet
        /\ carried' = carried
    BY <1>11 DEF Gen!Goto
  <2>2. Collected'
    BY <1>0, <1>3, <1>4, <1>8, <1>9, <1>11, <2>1 DEF Collected, Real, Gen!ValAddress
  <2>3. /\ ignored \/ \A w \in Wallets : Gen!WalletAddress(w) \in genesis'[Gen!Primary].accounts
        /\ HasFaucet => ignored \/ Gen!FaucetAddress' \in genesis'[Gen!Primary].accounts
    BY <1>0, <1>3, <1>4, <1>11 DEF GenInv, Paid, Finishing, Gen!FaucetAddress
  <2>4. ~HasModify => genesis'[Gen!Primary].ok /\ genesis'[Gen!Primary].modified = HasModify
    BY <1>3, <1>4, <1>9, <1>11, GenesisAssumption
  <2>5. Paid'
    BY <1>0, <1>11, <2>1, <2>3, <2>4 DEF Paid, Paying, Finishing, Spreading, Gen!WalletAddress
  <2>6. Spread'
    BY <1>0, <2>1 DEF Spread
  <2>7. Overridden'
    BY <1>0, <1>4, <1>11, <2>1, OverridesStay
  <2> QED BY <1>0, <1>4, <1>7, <1>11, <2>2, <2>5, <2>6, <2>7 DEF GenInv
<1> QED BY <1>1, <1>6, <1>10, <1>11

LEMMA ModifyGenesisKeeps == ASSUME GenInv, Gen!ModifyGenesis PROVE GenInv'
<1> DEFINE g == [genesis[Gen!Primary] EXCEPT !.modified = TRUE]
           effect == genesis[Gen!Primary].ok /\ Gen!SetGenesis(Gen!Primary, g)
           damage == UNCHANGED Gen!files \/ Gen!SetGenesis(Gen!Primary, Gen!Broken)
           next == Gen!Goto("read", Gen!Primary)
<1>0. /\ genPc = "modify" /\ HasModify /\ HasModify = TRUE /\ Gen!Primary \in Gen!Node /\ GenFilesOK /\ genRet = "none"
      /\ starts # 0 /\ ids = {} /\ wallets \in SUBSET Wallets /\ ignored \in BOOLEAN
  BY Constants, GenesisAssumption DEF Gen!ModifyGenesis, Gen!Unchecked, GenInv, CallTyped
<1>1. \/ effect /\ next /\ UNCHANGED ignored
      \/ damage /\ next /\ ignored' = TRUE
      \/ (effect \/ damage) /\ Gen!Fail
  BY DEF Gen!ModifyGenesis, Gen!Unchecked
<1>2. genesis[Gen!Primary] \in Gen!Genesis
  BY <1>0 DEF GenFilesOK, GenFilesTyped
<1>3. /\ g \in Gen!Genesis /\ g.accounts = genesis[Gen!Primary].accounts /\ g.denom = genesis[Gen!Primary].denom
      /\ g.ok = genesis[Gen!Primary].ok /\ g.gentxs = genesis[Gen!Primary].gentxs /\ g.modified = TRUE
  BY <1>2 DEF Gen!Genesis
<1> HIDE DEF g
<1>4. effect => /\ GenFilesOK' /\ genesis'[Gen!Primary] = g /\ genesis[Gen!Primary].ok
                /\ UNCHANGED <<key, faucetKey, gentxDir, genConfig, peers>>
  BY <1>0, <1>3, GenesisSet
<1>5. damage => /\ GenFilesOK' /\ UNCHANGED key
                /\ genesis'[Gen!Primary] = genesis[Gen!Primary] \/ genesis'[Gen!Primary] = Gen!Broken
  <2>1. UNCHANGED Gen!files => GenFilesOK' /\ UNCHANGED <<key, genesis>>
    BY <1>0, FilesStay DEF Gen!files
  <2>2. Gen!SetGenesis(Gen!Primary, Gen!Broken) => GenFilesOK' /\ UNCHANGED key /\ genesis'[Gen!Primary] = Gen!Broken
    BY <1>0, Constants, GenesisSet
  <2> QED BY <2>1, <2>2
<1> HIDE DEF effect, damage
<1>6. CASE Gen!Fail
  BY <1>0, <1>1, <1>4, <1>5, <1>6, FailKeeps
<1>7. ASSUME next, GenFilesOK', ignored' \in BOOLEAN
      PROVE  /\ CallTyped' /\ Signs' /\ genPc' = "read" /\ UNCHANGED <<starts, genRet>>
  <2>1. /\ genPc' = "read" /\ at' = Gen!Primary
        /\ UNCHANGED <<wallets, carried, ids, starts, genRet>>
    BY <1>7 DEF Gen!Goto
  <2>2. CallTyped'
    BY <1>0, <1>7, <2>1, Constants, GoesOn DEF Gen!Step, Signing, Sharing
  <2> QED BY <2>1, <2>2 DEF Signs, Signing, Sharing, Paying
<1> HIDE DEF next
<1>8. \A v \in Gen!Val : genesis[Gen!Primary].ok =>
         /\ genesis[Gen!Primary].gentxs[v] = Real(v) /\ key[v] # 0
         /\ Gen!ValAddress(v) \in genesis[Gen!Primary].accounts
  BY <1>0 DEF GenInv, Collected, Finishing
<1>9. genesis[Gen!Primary].ok => genesis[Gen!Primary].denom = "real" \/ ignored
  BY <1>0 DEF GenInv, Collected
<1>10. CASE damage /\ next /\ ignored' = TRUE
  <2>1. CallTyped' /\ Signs' /\ genPc' = "read" /\ UNCHANGED <<starts, genRet>> /\ GenFilesOK'
    BY <1>5, <1>7, <1>10
  <2>2. Collected'
    BY <1>5, <1>8, <1>10, <2>1, Constants DEF Collected, Real, Gen!ValAddress, Finishing
  <2> QED BY <1>0, <1>10, <2>1, <2>2, Unnoticed DEF GenInv
<1>11. CASE effect /\ next /\ UNCHANGED ignored
  <2>1. CallTyped' /\ Signs' /\ genPc' = "read" /\ UNCHANGED <<starts, genRet>> /\ GenFilesOK'
    BY <1>0, <1>4, <1>7, <1>11
  <2>2. Collected'
    BY <1>3, <1>4, <1>8, <1>9, <1>11, <2>1 DEF Collected, Real, Gen!ValAddress, Finishing
  <2>3. /\ ignored \/ \A w \in Wallets : Gen!WalletAddress(w) \in genesis'[Gen!Primary].accounts
        /\ HasFaucet => ignored \/ Gen!FaucetAddress' \in genesis'[Gen!Primary].accounts
    BY <1>0, <1>3, <1>4, <1>11 DEF GenInv, Paid, Finishing, Gen!FaucetAddress
  <2>4. genesis'[Gen!Primary].ok /\ genesis'[Gen!Primary].modified = HasModify
    BY <1>0, <1>3, <1>4, <1>11
  <2>5. Paid'
    BY <1>0, <1>11, <2>1, <2>3, <2>4 DEF Paid, Paying, Finishing, Spreading, Gen!WalletAddress
  <2>6. Spread'
    BY <1>0, <2>1 DEF Spread
  <2>7. Overridden'
    BY <1>0, <1>4, <1>11, <2>1, OverridesStay
  <2> QED BY <2>1, <2>2, <2>5, <2>6, <2>7 DEF GenInv
<1> QED BY <1>1, <1>6, <1>10, <1>11

LEMMA ReadGenesisKeeps == ASSUME GenInv, Gen!ReadGenesis PROVE GenInv'
<1>0. /\ genPc = "read" /\ Gen!Primary \in Gen!Node /\ GenFilesOK /\ genRet = "none" /\ starts # 0
      /\ ids = {} /\ wallets \in SUBSET Wallets /\ ignored \in BOOLEAN /\ starts \in 0 .. MaxStarts
  BY Constants DEF Gen!ReadGenesis, GenInv, CallTyped
<1>1. GenFilesOK' /\ UNCHANGED <<key, faucetKey, gentxDir, genesis, genConfig, peers>>
  BY <1>0, FilesStay DEF Gen!ReadGenesis, Gen!files
<1>2. CASE Gen!Fail
  BY <1>0, <1>1, <1>2, FailKeeps
<1>3. CASE ~Gen!Fail
  <2>1. /\ genPc' = (IF NumVals + NumFulls > 1 THEN "distribute" ELSE "ids")
        /\ at' = (IF NumVals + NumFulls > 1 THEN 2 ELSE 1)
        /\ \/ carried' = genesis[Gen!Primary] /\ UNCHANGED ignored
           \/ carried' = Gen!Broken /\ ignored' = TRUE
        /\ UNCHANGED <<wallets, ids, starts, genRet>>
    BY <1>3 DEF Gen!ReadGenesis
  <2>2. /\ carried' \in Gen!Genesis /\ (~HasModify => ~carried'.modified) /\ ignored' \in BOOLEAN
    BY <1>0, <2>1, Constants DEF GenFilesOK, GenFilesTyped, Unmodified
  <2>3. /\ at' \in Gen!Node /\ (genPc' = "distribute" => at' = 2 /\ at' # Gen!Primary) /\ genPc' \in {"distribute", "ids"}
        /\ (genPc' = "ids" => at' = 1 /\ \A n \in Gen!Node : n = Gen!Primary)
        /\ \A n \in Gen!Node : ~(n < 1) /\ (n < 2 => n = Gen!Primary)
    BY <2>1, GenesisAssumption DEF Gen!Node, Gen!Primary
  <2>4. CallTyped'
    BY <1>0, <2>1, <2>2, <2>3 DEF CallTyped, Gen!Step, Signing, Sharing
  <2>5. Signs' /\ Collected' /\ Paid'
    BY <1>0, <1>1, <2>1, <2>3, LaunchStays DEF Spreading
  <2>6. genPc' = "distribute" =>
          ignored' \/ (carried' = genesis'[Gen!Primary]
                       /\ \A n \in Gen!Node : n < at' => genesis'[n] = genesis'[Gen!Primary])
    BY <1>1, <2>1, <2>3
  <2>7. genPc' = "ids" => /\ \A n \in Gen!Node : genesis'[n] = genesis'[Gen!Primary]
                          /\ ids' = {n \in Gen!Node : n < at'}
    BY <1>0, <2>1, <2>3
  <2>8. Spread'
    BY <1>0, <2>1, <2>3, <2>6, <2>7 DEF Spread
  <2>9. Overridden'
    BY <1>0, <1>1, <2>1, <2>3, OverridesStay
  <2> QED BY <1>1, <2>4, <2>5, <2>8, <2>9 DEF GenInv
<1> QED BY <1>2, <1>3

LEMMA WriteGenesisKeeps == ASSUME GenInv, Gen!WriteGenesis PROVE GenInv'
<1> DEFINE effect == Gen!SetGenesis(at, carried)
           damage == UNCHANGED Gen!files \/ Gen!SetGenesis(at, Gen!Broken)
           next == Gen!NextNode("distribute", "ids")
<1>0. /\ genPc = "distribute" /\ Gen!Primary \in Gen!Node /\ GenFilesOK /\ genRet = "none" /\ starts # 0 /\ at \in Gen!Node
      /\ at \in Gen!Node \ {Gen!Primary} /\ carried \in Gen!Genesis /\ (~HasModify => ~carried.modified)
      /\ ids = {} /\ wallets \in SUBSET Wallets /\ ignored \in BOOLEAN
  BY Constants DEF Gen!WriteGenesis, Gen!Unchecked, GenInv, CallTyped
<1>1. \/ effect /\ next /\ UNCHANGED ignored
      \/ damage /\ next /\ ignored' = TRUE
      \/ (effect \/ damage) /\ Gen!Fail
  BY DEF Gen!WriteGenesis, Gen!Unchecked
<1>2. effect => /\ GenFilesOK' /\ genesis'[at] = carried /\ \A n \in Gen!Node \ {at} : genesis'[n] = genesis[n]
                /\ UNCHANGED <<key, faucetKey, gentxDir, genConfig, peers>>
  BY <1>0, GenesisSet
<1>3. damage => /\ GenFilesOK' /\ UNCHANGED <<key, faucetKey>> /\ genesis'[Gen!Primary] = genesis[Gen!Primary]
  <2>1. UNCHANGED Gen!files => GenFilesOK' /\ UNCHANGED <<key, faucetKey, genesis>>
    BY <1>0, FilesStay DEF Gen!files
  <2>2. Gen!SetGenesis(at, Gen!Broken) =>
          GenFilesOK' /\ UNCHANGED <<key, faucetKey>> /\ \A n \in Gen!Node \ {at} : genesis'[n] = genesis[n]
    BY <1>0, Constants, GenesisSet
  <2> QED BY <1>0, <2>1, <2>2
<1> HIDE DEF effect, damage
<1>4. CASE Gen!Fail
  BY <1>0, <1>1, <1>2, <1>3, <1>4, FailKeeps
<1>5. next => /\ genPc' = (IF at < NumVals + NumFulls THEN "distribute" ELSE "ids")
              /\ at' = (IF at < NumVals + NumFulls THEN at + 1 ELSE 1)
              /\ UNCHANGED <<wallets, carried, ids, starts, genRet>>
  BY DEF Gen!NextNode, Gen!Goto
<1> HIDE DEF next
<1>6. next => /\ at' \in Gen!Node /\ (genPc' = "distribute" => at' = at + 1 /\ at' # Gen!Primary)
              /\ (genPc' = "ids" => at' = 1 /\ \A n \in Gen!Node : n < at \/ n = at)
              /\ genPc' \in {"distribute", "ids"}
              /\ \A n \in Gen!Node : ~(n < 1) /\ (n < at + 1 => n < at \/ n = at)
  <2>1. at \in 1 .. NumVals + NumFulls /\ at # 1 /\ Gen!Primary = 1
    BY <1>0 DEF Gen!Node, Gen!Primary
  <2> QED BY <1>5, <2>1, GenesisAssumption DEF Gen!Node
<1>7. ASSUME next, GenFilesOK', ignored' \in BOOLEAN, ignored => ignored',
             UNCHANGED <<key, faucetKey>>, genesis'[Gen!Primary] = genesis[Gen!Primary]
      PROVE  CallTyped' /\ Signs' /\ Collected' /\ Paid'
  <2>1. CallTyped'
    BY <1>0, <1>5, <1>6, <1>7, Constants, GoesOn DEF Gen!Step, Signing, Sharing
  <2> QED BY <1>0, <1>6, <1>7, <2>1, LaunchStays DEF Spreading
<1>8. CASE damage /\ next /\ ignored' = TRUE
  <2>1. starts' = starts
    BY <1>5, <1>8
  <2> QED BY <1>0, <1>3, <1>7, <1>8, <2>1, Unnoticed DEF GenInv
<1>9. CASE effect /\ next /\ UNCHANGED ignored
  <2>1. genesis'[Gen!Primary] = genesis[Gen!Primary] /\ GenFilesOK' /\ UNCHANGED <<key, faucetKey, genConfig>>
    BY <1>0, <1>2, <1>9
  <2>2. ignored \/ (/\ carried = genesis'[Gen!Primary]
                    /\ \A n \in Gen!Node : n < at + 1 => genesis'[n] = genesis'[Gen!Primary])
    <3>1. ignored \/ (carried = genesis[Gen!Primary] /\ \A n \in Gen!Node : n < at => genesis[n] = genesis[Gen!Primary])
      BY <1>0 DEF GenInv, Spread
    <3> QED BY <1>0, <1>2, <1>6, <1>9, <2>1, <3>1
  <2>3. genPc' = "ids" => /\ ignored \/ \A n \in Gen!Node : genesis'[n] = genesis'[Gen!Primary]
                          /\ ids' = {n \in Gen!Node : n < at'}
    <3>1. \A n \in Gen!Node : n < at \/ n = at => n < at + 1
      BY <1>0 DEF Gen!Node
    <3> QED BY <1>0, <1>5, <1>6, <1>9, <2>2, <3>1
  <2>4. Spread'
    BY <1>0, <1>5, <1>6, <1>9, <2>2, <2>3 DEF Spread
  <2>5. Overridden'
    BY <1>0, <1>5, <1>6, <1>9, <2>1, OverridesStay
  <2> QED BY <1>0, <1>7, <1>9, <2>1, <2>4, <2>5 DEF GenInv
<1> QED BY <1>1, <1>4, <1>8, <1>9

LEMMA CollectIdKeeps == ASSUME GenInv, Gen!CollectId PROVE GenInv'
<1>0. /\ genPc = "ids" /\ Gen!Primary \in Gen!Node /\ GenFilesOK /\ genRet = "none" /\ starts # 0 /\ at \in Gen!Node
      /\ carried \in Gen!Genesis /\ (~HasModify => ~carried.modified) /\ starts \in 0 .. MaxStarts
      /\ ids \in SUBSET Gen!Node /\ wallets \in SUBSET Wallets /\ ignored \in BOOLEAN
  BY Constants DEF Gen!CollectId, GenInv, CallTyped
<1>1. GenFilesOK' /\ UNCHANGED <<key, faucetKey, gentxDir, genesis, genConfig, peers>>
  BY <1>0, FilesStay DEF Gen!CollectId, Gen!files
<1>2. CASE Gen!Fail
  BY <1>0, <1>1, <1>2, FailKeeps
<1>3. CASE ~Gen!Fail
  <2>1. /\ genPc' = (IF at < NumVals + NumFulls THEN "ids" ELSE "peers")
        /\ at' = (IF at < NumVals + NumFulls THEN at + 1 ELSE 1)
        /\ \/ ids' = ids \cup {at} /\ UNCHANGED ignored
           \/ UNCHANGED ids /\ ignored' = TRUE
        /\ UNCHANGED <<wallets, carried, starts, genRet>>
    BY <1>3 DEF Gen!CollectId
  <2>2. /\ at' \in Gen!Node /\ genPc' \in {"ids", "peers"}
        /\ (genPc' = "ids" => at' = at + 1)
        /\ (genPc' = "peers" => at' = 1 /\ \A n \in Gen!Node : n < at \/ n = at)
        /\ \A n \in Gen!Node : ~(n < 1) /\ (n < at + 1 <=> n < at \/ n = at)
    BY <1>0, <2>1, GenesisAssumption DEF Gen!Node
  <2>3. CallTyped'
    BY <1>0, <2>1, <2>2 DEF CallTyped, Gen!Step, Signing, Sharing
  <2>4. Signs' /\ Collected' /\ Paid'
    BY <1>0, <1>1, <2>1, <2>2, LaunchStays DEF Spreading
  <2>5. ignored' \/ ids' = {n \in Gen!Node : n < at \/ n = at}
    <3>1. ignored \/ ids = {n \in Gen!Node : n < at}
      BY <1>0 DEF GenInv, Spread
    <3>2. {n \in Gen!Node : n < at} \cup {at} = {n \in Gen!Node : n < at \/ n = at}
      BY <1>0
    <3> QED BY <2>1, <3>1, <3>2
  <2>6. ignored' \/ \A n \in Gen!Node : genesis'[n] = genesis'[Gen!Primary]
    BY <1>0, <1>1, <2>1 DEF GenInv, Spread
  <2>7. Spread'
    <3>1. CASE genPc' = "ids"
      BY <1>0, <2>1, <2>2, <2>5, <2>6, <3>1 DEF Spread
    <3>2. CASE genPc' = "peers"
      <4>1. {n \in Gen!Node : n < at \/ n = at} = Gen!Node /\ \A n \in Gen!Node : ~(n < at')
        BY <2>2, <3>2
      <4> QED BY <1>0, <2>1, <2>5, <2>6, <3>2, <4>1 DEF Spread
    <3> QED BY <2>2, <3>1, <3>2
  <2>8. Overridden'
    BY <1>0, <1>1, <2>1, <2>2, OverridesStay
  <2> QED BY <1>1, <2>3, <2>4, <2>7, <2>8 DEF GenInv
<1> QED BY <1>2, <1>3

LEMMA WritePeersKeeps == ASSUME GenInv, Gen!WritePeers PROVE GenInv'
<1> DEFINE effect == /\ peers' = [peers EXCEPT ![at] = ids]
                     /\ UNCHANGED <<key, faucetKey, gentxDir, genesis, genConfig>>
           next == IF at < NumVals + NumFulls THEN Gen!Goto("peers", at + 1) ELSE Gen!Return("ok")
<1>0. /\ genPc = "peers" /\ Gen!Primary \in Gen!Node /\ GenFilesOK /\ genRet = "none" /\ starts # 0 /\ at \in Gen!Node
      /\ carried \in Gen!Genesis /\ (~HasModify => ~carried.modified) /\ starts \in 0 .. MaxStarts
      /\ ids \in SUBSET Gen!Node /\ wallets \in SUBSET Wallets /\ ignored \in BOOLEAN
  BY Constants DEF Gen!WritePeers, Gen!Unchecked, GenInv, CallTyped
<1>1. \/ effect /\ next /\ UNCHANGED ignored
      \/ UNCHANGED Gen!files /\ next /\ ignored' = TRUE
      \/ (effect \/ UNCHANGED Gen!files) /\ Gen!Fail
  BY DEF Gen!WritePeers, Gen!Unchecked
<1>2. effect => /\ GenFilesOK' /\ peers'[at] = ids /\ \A n \in Gen!Node \ {at} : peers'[n] = peers[n]
  BY <1>0 DEF GenFilesOK, GenFilesTyped, OwnGentx, Unmodified
<1>3. UNCHANGED Gen!files => /\ GenFilesOK' /\ UNCHANGED <<key, faucetKey, gentxDir, genesis, genConfig, peers>>
  BY <1>0, FilesStay DEF Gen!files
<1>4. CASE Gen!Fail
  BY <1>0, <1>1, <1>2, <1>3, <1>4, FailKeeps
<1>5. ASSUME next, ignored' \in BOOLEAN
      PROVE  /\ CallTyped' /\ starts' = starts
             /\ \/ genPc' = "peers" /\ at' = at + 1 /\ ids' = ids /\ genRet' = "none"
                \/ genPc' = "idle" /\ genRet' = "ok" /\ \A n \in Gen!Node : n < at \/ n = at
  <2>1. CASE at < NumVals + NumFulls
    <3>1. genPc' = "peers" /\ at' = at + 1 /\ UNCHANGED <<wallets, carried, ids, starts, genRet>>
      BY <1>5, <2>1 DEF Gen!Goto
    <3>2. at' \in Gen!Node
      BY <1>0, <2>1, <3>1, GenesisAssumption DEF Gen!Node
    <3>3. CallTyped'
      BY <1>0, <1>5, <3>1, <3>2, GoesOn DEF Gen!Step, Signing, Sharing
    <3> QED BY <1>0, <3>1, <3>3
  <2>2. CASE ~(at < NumVals + NumFulls)
    <3>1. /\ genPc' = "idle" /\ genRet' = "ok" /\ at' = 1 /\ wallets' = {} /\ carried' = Gen!Broken /\ ids' = {}
          /\ UNCHANGED starts
      BY <1>5, <2>2 DEF Gen!Return
    <3>2. CallTyped'
      BY <1>0, <1>5, <3>1, Constants DEF CallTyped, Gen!Step, Signing, Sharing
    <3>3. \A n \in Gen!Node : n < at \/ n = at
      BY <1>0, <2>2, GenesisAssumption DEF Gen!Node
    <3> QED BY <3>1, <3>2, <3>3
  <2> QED BY <2>1, <2>2
<1> HIDE DEF next
<1>6. CASE UNCHANGED Gen!files /\ next /\ ignored' = TRUE
  <2>1. /\ CallTyped' /\ starts' = starts
        /\ genPc' = "peers" \/ (genPc' = "idle" /\ genRet' = "ok")
    BY <1>5, <1>6
  <2>2. Signs' /\ Collected' /\ Paid'
    BY <1>0, <1>3, <1>6, <2>1, LaunchStays DEF Spreading
  <2> QED BY <1>0, <1>3, <1>6, <2>1, <2>2, Unnoticed DEF GenInv
<1>7. CASE effect /\ next /\ UNCHANGED ignored
  <2>1. /\ CallTyped' /\ starts' = starts
        /\ \/ genPc' = "peers" /\ at' = at + 1 /\ ids' = ids /\ genRet' = "none"
           \/ genPc' = "idle" /\ genRet' = "ok" /\ \A n \in Gen!Node : n < at \/ n = at
    BY <1>0, <1>5, <1>7
  <2>2. Signs' /\ Collected' /\ Paid'
    BY <1>0, <1>7, <2>1, LaunchStays DEF Spreading
  <2>3. ignored \/ (ids = Gen!Node /\ \A n \in Gen!Node : n < at \/ n = at => peers'[n] = Gen!Node)
    <3>1. ignored \/ (ids = Gen!Node /\ \A n \in Gen!Node : n < at => peers[n] = Gen!Node)
      BY <1>0 DEF GenInv, Spread
    <3>2. \A n \in Gen!Node : n < at => n # at
      BY <1>0 DEF Gen!Node
    <3> QED BY <1>0, <1>2, <1>7, <3>1, <3>2
  <2>4. \A n \in Gen!Node : n < at + 1 => n < at \/ n = at
    BY <1>0 DEF Gen!Node
  <2>5. ignored \/ \A n \in Gen!Node : genesis'[n] = genesis'[Gen!Primary]
    BY <1>0, <1>7 DEF GenInv, Spread
  <2>6. Spread'
    <3>1. CASE genPc' = "peers"
      BY <1>7, <2>1, <2>3, <2>4, <2>5, <3>1 DEF Spread
    <3>2. CASE genPc' = "idle"
      BY <1>7, <2>1, <2>3, <2>5, <3>2 DEF Spread
    <3> QED BY <2>1, <3>1, <3>2
  <2>7. Overridden'
    BY <1>0, <1>7, <2>1, OverridesStay
  <2> QED BY <1>2, <1>7, <2>1, <2>2, <2>6, <2>7 DEF GenInv
<1> QED BY <1>1, <1>4, <1>6, <1>7

-----------------------------------------------------------------------------
LEMMA GenStarts == Gen!Init => GenInv
<1> SUFFICES ASSUME Gen!Init PROVE GenInv
  OBVIOUS
<1>1. GenFilesTyped
  BY Constants, GenesisAssumption DEF Gen!Init, GenFilesTyped
<1>2. OwnGentx
  BY DEF Gen!Init, OwnGentx
<1>3. Unmodified
  BY DEF Gen!Init, Unmodified, Gen!Fresh
<1>4. CallTyped
  <2>1. genPc = "idle" /\ at = 1 /\ wallets = {} /\ carried = Gen!Broken /\ ids = {} /\ starts = 0
        /\ ignored = FALSE /\ genRet = "none"
    BY DEF Gen!Init
  <2>2. 1 \in Gen!Node /\ 0 \in 0 .. MaxStarts
    BY Constants, GenesisAssumption
  <2> QED BY <2>1, <2>2, Constants DEF CallTyped, Gen!Step, Signing, Sharing
<1>5. Signs /\ Collected /\ Paid /\ Spread
  BY DEF Gen!Init, Signs, Collected, Paid, Spread, Signing, Sharing, Paying, Finishing, Spreading
<1>6. Overridden
  BY DEF Gen!Init, Overridden
<1> QED BY <1>1, <1>2, <1>3, <1>4, <1>5, <1>6 DEF GenInv, GenFilesOK

LEMMA GenSteps == GenInv /\ [Gen!Next]_(Gen!vars) => GenInv'
<1> SUFFICES ASSUME GenInv, [Gen!Next]_(Gen!vars) PROVE GenInv'
  OBVIOUS
<1>1. CASE UNCHANGED Gen!vars
  BY <1>1 DEF Gen!vars, Gen!files, GenInv, GenFilesOK, GenFilesTyped, OwnGentx, Unmodified, CallTyped, Signs, Signed,
              Backed, Real, Collected, Paid, Spread, Overridden, Gen!ValAddress, Gen!FaucetAddress, Gen!WalletAddress
<1>2. CASE Gen!Next
  BY <1>2, StartKeeps, ApplyOverrideKeeps, CreateKeyKeeps, AddOwnAccountKeeps, SignGentxKeeps,
     AddOtherAccountKeeps, CopyGentxsKeeps, AddWalletKeeps, WalletsDoneKeeps, CreateFaucetKeyKeeps,
     AddFaucetAccountKeeps, CollectGentxsKeeps, ReplaceDenomKeeps, ModifyGenesisKeeps,
     ReadGenesisKeeps, WriteGenesisKeeps, CollectIdKeeps, WritePeersKeeps DEF Gen!Next
<1> QED BY <1>1, <1>2

LEMMA GenInvariant == Gen!Spec => []GenInv
BY GenStarts, GenSteps, PTL DEF Gen!Spec

LEMMA GenesisTyped == Gen!Spec => []Gen!TypeOK
<1>1. GenInv => Gen!TypeOK
  BY DEF GenInv, GenFilesOK, GenFilesTyped, CallTyped, Gen!TypeOK
<1> QED BY <1>1, GenInvariant, PTL

\* What start launches is backed by the key each validator has now, over
\* retries and failures that go unnoticed.
THEOREM AlwaysBacked == Gen!Spec => []ValidatorsBacked
<1>1. GenInv => Gen!ValidatorsBacked
  <2> SUFFICES ASSUME GenInv, Gen!Ready, genesis[Gen!Primary].ok, NEW v \in Gen!Val
               PROVE  LET g == genesis[Gen!Primary].gentxs[v]
                      IN  /\ g.key = key[v] /\ g.key # 0
                          /\ Gen!ValAddress(v) \in genesis[Gen!Primary].accounts
                          /\ g.denom = genesis[Gen!Primary].denom \/ ignored
    BY DEF Gen!ValidatorsBacked
  <2>1. /\ genesis[Gen!Primary].gentxs[v] = Real(v) /\ key[v] # 0
        /\ Gen!ValAddress(v) \in genesis[Gen!Primary].accounts
        /\ genesis[Gen!Primary].denom = "real" \/ ignored
    BY DEF GenInv, Collected, Gen!Ready
  <2> QED BY <2>1 DEF Real
<1> QED BY <1>1, GenInvariant, PTL DEF ValidatorsBacked

\* What start launches is the same on all nodes, and complete, unless a command
\* failed unnoticed.
THEOREM LaunchAlwaysConsistent == Gen!Spec => []LaunchConsistent
<1>1. GenInv => Gen!LaunchConsistent
  <2> SUFFICES ASSUME GenInv, Gen!Ready, ~ignored PROVE Gen!LaunchConsistent
    BY DEF Gen!LaunchConsistent
  <2>1. \A n \in Gen!Node : genesis[n] = genesis[Gen!Primary] /\ peers[n] = Gen!Node
    BY DEF GenInv, Spread, Gen!Ready
  <2>2. /\ genesis[Gen!Primary].ok /\ genesis[Gen!Primary].modified = HasModify
        /\ \A w \in Wallets : Gen!WalletAddress(w) \in genesis[Gen!Primary].accounts
        /\ HasFaucet => Gen!FaucetAddress \in genesis[Gen!Primary].accounts
    BY DEF GenInv, Paid, Gen!Ready
  <2>3. HasOverrides =>
         \A n \in Gen!Node : genConfig[n] = "merged" \/ (genConfig[n] = "lost" /\ starts > 1)
    BY DEF GenInv, Overridden, Gen!Ready
  <2> QED BY <2>1, <2>2, <2>3 DEF Gen!LaunchConsistent
<1> QED BY <1>1, GenInvariant, PTL DEF LaunchConsistent

-----------------------------------------------------------------------------
(* The files of a node: TypeOK, SigningStateKept, OkIsWhole of NodeFiles.  *)

Step == {"idle", "mkdir", "write", "rm", "append", "decode", "pack", "pack.end", "fetch",
         "wipe.cp", "wipe.rm", "wipe.mkdir", "wipe.mv", "cat", "store"}

WipeStep  == {"wipe.cp", "wipe.rm", "wipe.mkdir", "wipe.mv"}
AfterCopy == {"wipe.rm", "wipe.mkdir", "wipe.mv"}

\* What the proof needs of the types: a task is in a step of its own call.
InCall ==
  /\ op \in [Task -> Op] /\ pc \in [Task -> Step]
  /\ wipesMet \in BOOLEAN
  /\ \A t \in Task : pc[t] \in WipeStep <=> pc[t] # "idle" /\ op[t] = "wipe"

\* Without two wipes at a time: a signing state is whole wherever it is, the
\* one in the data directory is missing only when the one beside it is there,
\* and that one is not touched once a wipe has made it.
Guarded ==
  ~wipesMet =>
    /\ \A t, u \in Task : pc[t] \in WipeStep /\ pc[u] \in WipeStep => t = u
    /\ pvs = "whole" \/ (pvs = "none" /\ backup = "whole")
    /\ \A t \in Task : pc[t] \in AfterCopy => backup = "whole"

WipeInv == InCall /\ Guarded

LEMMA Firsts ==
  /\ First("wipe") = "wipe.cp" /\ First("snapshot") = "pack"
  /\ First("override") = "cat" /\ First("small") = "mkdir" /\ First("large") = "mkdir"
<1>1. First("wipe") = "wipe.cp"
  BY Zenon DEF First
<1>2. First("snapshot") = "pack"
  BY Zenon DEF First
<1>3. First("override") = "cat"
  BY Zenon DEF First
<1>4. First("small") = "mkdir"
  BY Zenon DEF First
<1>5. First("large") = "mkdir"
  BY Zenon DEF First
<1> QED BY <1>1, <1>2, <1>3, <1>4, <1>5

LEMMA WipeRivals == Rivals("wipe") = {"snapshot", "wipe"}
  BY Zenon DEF Rivals

\* A wipe begins where another is under way only by setting wipesMet.
LEMMA BeginWipeKeeps ==
  ASSUME WipeInv, NEW t \in Task, NEW o \in Op \ {"none"}, Begin(t, o)
  PROVE  WipeInv'
<1> USE DEF WipeInv, InCall, WipeStep, AfterCopy, Step
<1>1. /\ pc' = [pc EXCEPT ![t] = First(o)] /\ op' = [op EXCEPT ![t] = o]
      /\ pc[t] = "idle" /\ UNCHANGED <<pvs, backup>>
  BY DEF Begin, disk
<1>2. First(o) \in Step /\ First(o) # "idle" /\ (First(o) \in WipeStep <=> o = "wipe")
      /\ First(o) \notin AfterCopy
  BY Firsts DEF Op, Step
<1>3. wipesMet' = (wipesMet \/ (o = "wipe" /\ \E u \in Others(t, o) : op[u] = "wipe"))
  BY DEF Begin
<1>4. InCall'
  BY <1>1, <1>2, <1>3 DEF Op
<1>5. ASSUME ~wipesMet', o = "wipe", NEW u \in Task \ {t}
      PROVE  pc[u] \notin WipeStep
  BY <1>3, <1>5, WipeRivals DEF Others
<1>6. Guarded'
  BY <1>1, <1>2, <1>3, <1>5 DEF Guarded
<1> QED BY <1>4, <1>6

\* Steps that leave the signing state alone.
LEMMA AsideKeeps ==
  ASSUME WipeInv, NEW t \in Task, NEW s \in Step,
         pc' = [pc EXCEPT ![t] = s], UNCHANGED <<op, wipesMet, pvs, backup>>,
         pc[t] # "idle",
         s # "idle" => /\ s \in WipeStep <=> pc[t] \in WipeStep
                       /\ s \in AfterCopy => pc[t] \in AfterCopy
  PROVE  WipeInv'
<1> USE DEF WipeInv, InCall
<1>1. InCall'
  BY DEF WipeStep, Step
<1>2. Guarded'
  BY DEF Guarded, WipeStep, AfterCopy, Step
<1> QED BY <1>1, <1>2

LEMMA WipeInductive == WipeInv /\ [Next]_vars => WipeInv'
<1> SUFFICES ASSUME WipeInv, [Next]_vars
             PROVE  WipeInv'
  OBVIOUS
<1>1. ASSUME NEW t \in Task, NEW o \in Op \ {"none"}, Begin(t, o)
      PROVE  WipeInv'
  BY <1>1, BeginWipeKeeps
<1>2. ASSUME NEW t \in Task, Fails(t)
      PROVE  WipeInv'
  <2>1. pc' = [pc EXCEPT ![t] = "idle"] /\ UNCHANGED <<op, wipesMet, pvs, backup>> /\ pc[t] # "idle"
    BY <1>2 DEF Fails, Return
  <2> QED BY <2>1, AsideKeeps DEF Step
<1>3. ASSUME NEW t \in Task, MakeParent(t)
      PROVE  WipeInv'
  <2>1. PICK s \in {"write", "rm"} : pc' = [pc EXCEPT ![t] = s]
    BY <1>3 DEF MakeParent, Goto
  <2>2. pc[t] = "mkdir" /\ UNCHANGED <<op, wipesMet, pvs, backup>>
    BY <1>3 DEF MakeParent, Goto, disk
  <2> QED BY <2>1, <2>2, AsideKeeps DEF WipeStep, AfterCopy, Step
<1>4. ASSUME NEW t \in Task, WriteSmall(t) \/ Fetch(t) \/ Store(t)
      PROVE  WipeInv'
  <2>1. pc' = [pc EXCEPT ![t] = "idle"] /\ UNCHANGED <<op, wipesMet, pvs, backup>> /\ pc[t] # "idle"
    BY <1>4 DEF WriteSmall, Fetch, Store, Return, disk
  <2> QED BY <2>1, AsideKeeps DEF Step
<1>5. ASSUME NEW t \in Task, RemoveTmp(t) \/ AppendChunk(t)
      PROVE  WipeInv'
  <2>1. PICK s \in {"append", "decode"} : pc' = [pc EXCEPT ![t] = s]
    BY <1>5 DEF RemoveTmp, AppendChunk, Goto
  <2>2. pc[t] \in {"rm", "append"} /\ UNCHANGED <<op, wipesMet, pvs, backup>>
    BY <1>5 DEF RemoveTmp, AppendChunk, Goto
  <2> QED BY <2>1, <2>2, AsideKeeps DEF WipeStep, AfterCopy, Step
<1>6. ASSUME NEW t \in Task, Decode(t)
      PROVE  WipeInv'
  <2>1. pc' = [pc EXCEPT ![t] = "idle"] /\ UNCHANGED <<op, wipesMet, pvs, backup>> /\ pc[t] # "idle"
    BY <1>6 DEF Decode, Return
  <2> QED BY <2>1, AsideKeeps DEF Step
<1>7. ASSUME NEW t \in Task, PackBegin(t) \/ PackEnd(t)
      PROVE  WipeInv'
  <2>1. PICK s \in {"pack.end", "fetch", "idle"} : pc' = [pc EXCEPT ![t] = s]
    BY <1>7 DEF PackBegin, PackEnd, Goto, Return
  <2>2. pc[t] \in {"pack", "pack.end"} /\ UNCHANGED <<op, wipesMet, pvs, backup>>
    BY <1>7 DEF PackBegin, PackEnd, Goto, Return
  <2> QED BY <2>1, <2>2, AsideKeeps DEF WipeStep, AfterCopy, Step
<1>8. ASSUME NEW t \in Task, Cat(t)
      PROVE  WipeInv'
  <2>1. pc' = [pc EXCEPT ![t] = "store"] /\ UNCHANGED <<op, wipesMet, pvs, backup>> /\ pc[t] = "cat"
    BY <1>8 DEF Cat, Goto, disk
  <2> QED BY <2>1, AsideKeeps DEF WipeStep, AfterCopy, Step
<1>9. ASSUME NEW t \in Task, WipeEnds(t)
      PROVE  WipeInv'
  <2>1. pc' = [pc EXCEPT ![t] = "idle"] /\ UNCHANGED <<op, wipesMet, pvs, backup>> /\ pc[t] # "idle"
    BY <1>9 DEF WipeEnds, Return, disk
  <2> QED BY <2>1, AsideKeeps DEF Step
<1>10. ASSUME NEW t \in Task, WipeMake(t)
       PROVE  WipeInv'
  <2>1. pc' = [pc EXCEPT ![t] = "wipe.mv"] /\ UNCHANGED <<op, wipesMet, pvs, backup>>
        /\ pc[t] = "wipe.mkdir"
    BY <1>10 DEF WipeMake, Goto
  <2> QED BY <2>1, AsideKeeps DEF WipeStep, AfterCopy, Step
<1>11. ASSUME NEW t \in Task, WipeCopy(t)
       PROVE  WipeInv'
  <2> USE <1>11 DEF WipeInv, InCall, WipeStep, AfterCopy, Step
  <2>1. PICK s \in {"wipe.rm", "idle"} :
          /\ pc' = [pc EXCEPT ![t] = s]
          /\ s = "wipe.rm" => backup' = pvs
    BY DEF WipeCopy, Goto, Return
  <2>2. pc[t] = "wipe.cp" /\ pvs # "none" /\ UNCHANGED <<op, wipesMet, pvs>>
    BY DEF WipeCopy, Goto, Return
  <2>3. InCall'
    BY <2>1, <2>2
  <2>4. Guarded'
    BY <2>1, <2>2 DEF Guarded
  <2> QED BY <2>3, <2>4
<1>12. ASSUME NEW t \in Task, WipeRemove(t)
       PROVE  WipeInv'
  <2> USE <1>12 DEF WipeInv, InCall, WipeStep, AfterCopy, Step
  <2>1. PICK s \in {"wipe.mkdir", "idle"} : pc' = [pc EXCEPT ![t] = s]
    BY DEF WipeRemove, Goto, Return
  <2>2. pc[t] = "wipe.rm" /\ pvs' = "none" /\ UNCHANGED <<op, wipesMet, backup>>
    BY DEF WipeRemove, Goto, Return
  <2>3. InCall'
    BY <2>1, <2>2
  <2>4. Guarded'
    BY <2>1, <2>2 DEF Guarded
  <2> QED BY <2>3, <2>4
<1>13. ASSUME NEW t \in Task, WipeRestore(t)
       PROVE  WipeInv'
  <2> USE <1>13 DEF WipeInv, InCall, WipeStep, AfterCopy, Step
  <2>1. /\ pc[t] = "wipe.mv" /\ pc' = [pc EXCEPT ![t] = "idle"] /\ UNCHANGED <<op, wipesMet>>
        /\ pvs' = backup /\ backup' = "none"
    BY DEF WipeRestore, Return
  <2>2. InCall'
    BY <2>1
  <2>3. Guarded'
    BY <2>1 DEF Guarded
  <2> QED BY <2>2, <2>3
<1>14. CASE UNCHANGED vars
  <2>1. UNCHANGED <<op, pc, wipesMet, pvs, backup>>
    BY <1>14 DEF vars, disk, locals
  <2> QED BY <2>1 DEF WipeInv, InCall, Guarded
<1> QED BY <1>1, <1>2, <1>3, <1>4, <1>5, <1>6, <1>7, <1>8, <1>9, <1>10, <1>11, <1>12, <1>13,
           <1>14 DEF Next

LEMMA WipeStarts == Init => WipeInv
<1> SUFFICES ASSUME Init
             PROVE  WipeInv
  OBVIOUS
<1>1. /\ op = [t \in Task |-> "none"] /\ pc = [t \in Task |-> "idle"]
      /\ wipesMet = FALSE /\ pvs = "whole"
  BY DEF Init
<1> QED BY <1>1 DEF WipeInv, InCall, Guarded, WipeStep, AfterCopy, Op, Step

\* A wipe that is killed or tried again never loses the whole signing state of
\* the validator, for any number of tasks and of calls, as long as no two tasks
\* wipe the node at the same time (cosmos/node.rs).
THEOREM SigningStateAlwaysKept == Spec => []SigningStateKept
<1>1. WipeInv => SigningStateKept
  BY DEF WipeInv, Guarded, SigningStateKept
<1> QED BY <1>1, WipeStarts, WipeInductive, PTL DEF Spec

-----------------------------------------------------------------------------
(* What the calls bring about: TypeOK and OkIsWhole.                       *)

FileSteps == {"mkdir", "write", "rm", "append", "decode"}
PackSteps == {"pack", "pack.end", "fetch"}
EditSteps == {"cat", "store"}

\* Every step is one of the call it is in, and a call has not returned.
InSteps ==
  /\ \A t \in Task :
       /\ pc[t] \in FileSteps <=> pc[t] # "idle" /\ op[t] \in {"small", "large"}
       /\ pc[t] \in PackSteps <=> pc[t] # "idle" /\ op[t] = "snapshot"
       /\ pc[t] \in EditSteps <=> pc[t] # "idle" /\ op[t] = "override"
       /\ pc[t] = "append" => chunk[t] <= Chunks
       /\ pc[t] \in {"mkdir", "write", "rm"} => chunk[t] = 1
       /\ pc[t] # "idle" => ret[t] = "none"

\* A call knows whether another has been on its paths.
KnowsRivals ==
  \A t, u \in Task : t # u /\ pc[t] # "idle" /\ pc[u] # "idle" /\ op[u] \in Rivals(op[t]) => met[t]

\* The first n chunks of a file of t.
FirstChunks(t, s, n) == Len(s) = n /\ \A i \in 1 .. n : s[i] = <<t, i>>

\* How far a call has come that nothing disturbed.
Along(t) ==
  ~met[t] /\ ~unseen[t] =>
    /\ pc[t] \in {"append", "decode"} => FirstChunks(t, tmp, chunk[t] - 1)
    /\ pc[t] = "decode" => chunk[t] = Chunks + 1
    /\ pc[t] = "fetch" => archive = "whole"
    /\ pc[t] = "store" => read[t] = config

FilesInv == WipeInv /\ TypeOK /\ InSteps /\ KnowsRivals /\ \A t \in Task : Along(t)

LEMMA RivalsOf ==
  /\ Rivals("small") = {"small", "large"} /\ Rivals("large") = {"small", "large"}
  /\ Rivals("snapshot") = {"snapshot", "wipe"} /\ Rivals("wipe") = {"snapshot", "wipe"}
  /\ Rivals("override") = {"override"}
<1>1. Rivals("small") = {"small", "large"}
  BY Zenon DEF Rivals
<1>2. Rivals("large") = {"small", "large"}
  BY Zenon DEF Rivals
<1>3. Rivals("snapshot") = {"snapshot", "wipe"}
  BY Zenon DEF Rivals
<1>4. Rivals("override") = {"override"}
  BY Zenon DEF Rivals
<1> QED BY <1>1, <1>2, <1>3, <1>4, WipeRivals

\* Of two calls on the same paths, neither overlooks the other.
LEMMA NotAlone ==
  ASSUME FilesInv, NEW t \in Task, NEW u \in Task, t # u
  PROVE  /\ pc[t] \in FileSteps /\ pc[u] \in FileSteps => met[u]
         /\ pc[t] \in PackSteps /\ pc[u] \in PackSteps => met[u]
         /\ pc[t] \in EditSteps /\ pc[u] \in EditSteps => met[u]
<1>1. /\ pc[t] \in FileSteps => pc[t] # "idle" /\ op[t] \in {"small", "large"}
      /\ pc[t] \in PackSteps => pc[t] # "idle" /\ op[t] = "snapshot"
      /\ pc[t] \in EditSteps => pc[t] # "idle" /\ op[t] = "override"
  BY DEF FilesInv, InSteps
<1>2. /\ pc[u] \in FileSteps => pc[u] # "idle" /\ op[u] \in {"small", "large"}
      /\ pc[u] \in PackSteps => pc[u] # "idle" /\ op[u] = "snapshot"
      /\ pc[u] \in EditSteps => pc[u] # "idle" /\ op[u] = "override"
  BY DEF FilesInv, InSteps
<1>3. pc[t] # "idle" /\ pc[u] # "idle" /\ op[t] \in Rivals(op[u]) => met[u]
  BY DEF FilesInv, KnowsRivals
<1>4. pc[t] \in FileSteps /\ pc[u] \in FileSteps => met[u]
  BY <1>1, <1>2, <1>3, RivalsOf
<1>5. pc[t] \in PackSteps /\ pc[u] \in PackSteps => met[u]
  BY <1>1, <1>2, <1>3, RivalsOf
<1>6. pc[t] \in EditSteps /\ pc[u] \in EditSteps => met[u]
  BY <1>1, <1>2, <1>3, RivalsOf
<1> QED BY <1>4, <1>5, <1>6

\* A step of a call under way: what it does on the disk, and to its own locals.
LEMMA StepKeeps ==
  ASSUME FilesInv, WipeInv', NEW t \in Task, pc[t] # "idle",
         NEW s \in Step, pc' = [pc EXCEPT ![t] = s], UNCHANGED <<op, calls, met, wipesMet>>,
         s # "idle" => /\ s \in FileSteps <=> pc[t] \in FileSteps
                       /\ s \in PackSteps <=> pc[t] \in PackSteps
                       /\ s \in EditSteps <=> pc[t] \in EditSteps
                       /\ ret' = ret,
         s = "append" => chunk'[t] <= Chunks, s \in {"mkdir", "write", "rm"} => chunk'[t] = 1,
         file' \in Seq(Piece), tmp' \in Seq(Piece), archive' \in Copy, data' \in BOOLEAN,
         pvs' \in Copy, backup' \in Copy, pvs' # "none" => data', config' \in Config,
         tmp' # tmp => pc[t] \in FileSteps, archive' # archive => pc[t] \in PackSteps,
         config' # config => pc[t] \in EditSteps,
         chunk' \in [Task -> 1 .. Chunks + 1], read' \in [Task -> Config], got' \in [Task -> Copy],
         unseen' \in [Task -> BOOLEAN], ret' \in [Task -> {"none", "ok", "err"}],
         \A u \in Task \ {t} : /\ chunk'[u] = chunk[u] /\ read'[u] = read[u]
                              /\ unseen'[u] = unseen[u] /\ ret'[u] = ret[u],
         Along(t)'
  PROVE  FilesInv'
<1>1. /\ pc \in [Task -> Step] /\ pc'[t] = s /\ \A u \in Task \ {t} : pc'[u] = pc[u]
  BY DEF FilesInv, WipeInv, InCall
<1>2. TypeOK'
  <2>1. /\ op' \in [Task -> Op] /\ calls' \in [Task -> 0 .. MaxCalls] /\ met' \in [Task -> BOOLEAN]
        /\ wipesMet' \in BOOLEAN
    BY DEF FilesInv, TypeOK
  <2>2. pc' \in [Task -> Step]
    BY <1>1
  <2> QED BY <2>1, <2>2 DEF TypeOK, Step
<1>3. InSteps'
  <2> SUFFICES ASSUME NEW u \in Task
               PROVE  /\ pc'[u] \in FileSteps <=> pc'[u] # "idle" /\ op'[u] \in {"small", "large"}
                      /\ pc'[u] \in PackSteps <=> pc'[u] # "idle" /\ op'[u] = "snapshot"
                      /\ pc'[u] \in EditSteps <=> pc'[u] # "idle" /\ op'[u] = "override"
                      /\ pc'[u] = "append" => chunk'[u] <= Chunks
                      /\ pc'[u] \in {"mkdir", "write", "rm"} => chunk'[u] = 1
                      /\ pc'[u] # "idle" => ret'[u] = "none"
    BY DEF InSteps
  <2>1. /\ pc[u] \in FileSteps <=> pc[u] # "idle" /\ op[u] \in {"small", "large"}
        /\ pc[u] \in PackSteps <=> pc[u] # "idle" /\ op[u] = "snapshot"
        /\ pc[u] \in EditSteps <=> pc[u] # "idle" /\ op[u] = "override"
        /\ pc[u] = "append" => chunk[u] <= Chunks
        /\ pc[u] \in {"mkdir", "write", "rm"} => chunk[u] = 1
        /\ pc[u] # "idle" => ret[u] = "none"
    BY DEF FilesInv, InSteps
  <2>2. CASE u = t
    <3>1. "idle" \notin FileSteps \cup PackSteps \cup EditSteps
      BY DEF FileSteps, PackSteps, EditSteps
    <3> QED BY <1>1, <2>1, <2>2, <3>1
  <2>3. CASE u # t
    BY <1>1, <2>1, <2>3
  <2> QED BY <2>2, <2>3
<1>4. KnowsRivals'
  BY <1>1 DEF FilesInv, KnowsRivals
<1>5. ASSUME NEW u \in Task
      PROVE  Along(u)'
  <2>1. CASE u = t
    BY <2>1
  <2>2. CASE u # t
    <3>1. /\ pc[t] \in FileSteps /\ pc[u] \in FileSteps => met[u]
          /\ pc[t] \in PackSteps /\ pc[u] \in PackSteps => met[u]
          /\ pc[t] \in EditSteps /\ pc[u] \in EditSteps => met[u]
      BY <2>2, NotAlone
    <3>2. pc[u] \in {"append", "decode"} => met[u] \/ tmp' = tmp
      BY <3>1 DEF FileSteps
    <3>3. pc[u] = "fetch" => met[u] \/ archive' = archive
      BY <3>1 DEF PackSteps
    <3>4. pc[u] = "store" => met[u] \/ config' = config
      BY <3>1 DEF EditSteps
    <3>5. Along(u)
      BY DEF FilesInv
    <3>6. /\ pc'[u] = pc[u] /\ chunk'[u] = chunk[u] /\ read'[u] = read[u] /\ unseen'[u] = unseen[u]
          /\ met' = met
      BY <1>1, <2>2
    <3> QED BY <3>2, <3>3, <3>4, <3>5, <3>6 DEF Along, FirstChunks
  <2> QED BY <2>1, <2>2
<1> QED BY <1>2, <1>3, <1>4, <1>5 DEF FilesInv

LEMMA BeginKeeps ==
  ASSUME FilesInv, NEW t \in Task, NEW o \in Op \ {"none"}, Begin(t, o)
  PROVE  FilesInv'
<1>1. /\ pc[t] = "idle" /\ calls[t] < MaxCalls /\ UNCHANGED disk
      /\ op' = [op EXCEPT ![t] = o] /\ pc' = [pc EXCEPT ![t] = First(o)]
      /\ calls' = [calls EXCEPT ![t] = @ + 1]
      /\ chunk' = [chunk EXCEPT ![t] = 1] /\ read' = [read EXCEPT ![t] = NoConfig]
      /\ got' = [got EXCEPT ![t] = "none"]
      /\ ret' = [ret EXCEPT ![t] = "none"] /\ unseen' = [unseen EXCEPT ![t] = FALSE]
      /\ met' = [u \in Task |-> IF u = t THEN Others(t, o) # {} ELSE met[u] \/ u \in Others(t, o)]
  BY DEF Begin
<1>2. WipeInv'
  BY BeginWipeKeeps DEF FilesInv
<1>3. /\ op \in [Task -> Op] /\ pc \in [Task -> Step] /\ calls \in [Task -> 0 .. MaxCalls]
      /\ chunk \in [Task -> 1 .. Chunks + 1] /\ read \in [Task -> Config] /\ got \in [Task -> Copy]
      /\ ret \in [Task -> {"none", "ok", "err"}] /\ unseen \in [Task -> BOOLEAN]
      /\ met \in [Task -> BOOLEAN]
  BY DEF FilesInv, TypeOK, Step
<1>4. /\ First(o) \in FileSteps <=> o \in {"small", "large"}
      /\ First(o) \in PackSteps <=> o = "snapshot"
      /\ First(o) \in EditSteps <=> o = "override"
      /\ First(o) \in Step /\ First(o) \notin {"idle", "append", "decode", "fetch", "store"}
  BY Firsts DEF Op, FileSteps, PackSteps, EditSteps, Step
<1>5. /\ op'[t] = o /\ pc'[t] = First(o) /\ ret'[t] = "none" /\ met'[t] = (Others(t, o) # {})
      /\ \A u \in Task \ {t} : /\ op'[u] = op[u] /\ pc'[u] = pc[u] /\ chunk'[u] = chunk[u]
                              /\ read'[u] = read[u] /\ ret'[u] = ret[u] /\ unseen'[u] = unseen[u]
                              /\ met'[u] = (met[u] \/ u \in Others(t, o))
  BY <1>1, <1>3
<1>6. TypeOK'
  <2>1. /\ file \in Seq(Piece) /\ tmp \in Seq(Piece)
        /\ archive \in Copy /\ data \in BOOLEAN /\ pvs \in Copy /\ backup \in Copy
        /\ pvs # "none" => data
        /\ config \in Config
    BY DEF FilesInv, TypeOK
  <2>2. calls' \in [Task -> 0 .. MaxCalls]
    <3>1. calls[t] + 1 \in 0 .. MaxCalls
      BY <1>1, <1>3, UseAssumption
    <3> QED BY <1>1, <1>3, <3>1
  <2>3. /\ op' \in [Task -> Op] /\ pc' \in [Task -> Step] /\ ret' \in [Task -> {"none", "ok", "err"}]
        /\ unseen' \in [Task -> BOOLEAN] /\ met' \in [Task -> BOOLEAN]
    BY <1>1, <1>3, <1>4
  <2>4. /\ chunk' \in [Task -> 1 .. Chunks + 1] /\ read' \in [Task -> Config] /\ got' \in [Task -> Copy]
    <3>1. 1 \in 1 .. Chunks + 1 /\ NoConfig \in Config /\ "none" \in Copy
      BY UseAssumption DEF NoConfig, Config, Copy
    <3> QED BY <1>1, <1>3, <3>1
  <2>5. wipesMet' \in BOOLEAN
    BY <1>2 DEF WipeInv, InCall
  <2> QED BY <1>1, <2>1, <2>2, <2>3, <2>4, <2>5 DEF TypeOK, disk, Step
<1>7. InSteps'
  <2> SUFFICES ASSUME NEW u \in Task
               PROVE  /\ pc'[u] \in FileSteps <=> pc'[u] # "idle" /\ op'[u] \in {"small", "large"}
                      /\ pc'[u] \in PackSteps <=> pc'[u] # "idle" /\ op'[u] = "snapshot"
                      /\ pc'[u] \in EditSteps <=> pc'[u] # "idle" /\ op'[u] = "override"
                      /\ pc'[u] = "append" => chunk'[u] <= Chunks
                      /\ pc'[u] \in {"mkdir", "write", "rm"} => chunk'[u] = 1
                      /\ pc'[u] # "idle" => ret'[u] = "none"
    BY DEF InSteps
  <2>1. CASE u = t
    BY <1>1, <1>3, <1>4, <1>5, <2>1
  <2>2. CASE u # t
    BY <1>5, <2>2 DEF FilesInv, InSteps
  <2> QED BY <2>1, <2>2
<1>8. KnowsRivals'
  <2> SUFFICES ASSUME NEW v \in Task, NEW u \in Task, v # u, pc'[v] # "idle", pc'[u] # "idle",
                      op'[u] \in Rivals(op'[v])
               PROVE  met'[v]
    BY DEF KnowsRivals
  <2>1. CASE v # t /\ u # t
    BY <1>5, <2>1 DEF FilesInv, KnowsRivals
  <2>2. CASE v = t
    BY <1>5, <2>2 DEF Others
  <2>3. CASE u = t
    <3>1. pc[v] # "idle" /\ o \in Rivals(op[v]) /\ op[v] \in Op
      BY <1>3, <1>5, <2>3
    <3>2. op[v] # "none"
      <4>1. pc[v] \in FileSteps \cup PackSteps \cup EditSteps \cup WipeStep
        BY <1>3, <3>1 DEF FileSteps, PackSteps, EditSteps, WipeStep, Step
      <4> QED BY <4>1 DEF FilesInv, InSteps, WipeInv, InCall
    <3>3. op[v] \in Rivals(o)
      BY <3>1, <3>2, RivalsOf DEF Op
    <3> QED BY <1>5, <2>3, <3>1, <3>3 DEF Others
  <2> QED BY <2>1, <2>2, <2>3
<1>9. ASSUME NEW u \in Task
      PROVE  Along(u)'
  <2>1. CASE u = t
    BY <1>4, <1>5, <2>1 DEF Along
  <2>2. CASE u # t
    <3>1. Along(u) /\ UNCHANGED <<tmp, archive, config>>
      BY <1>1 DEF FilesInv, disk
    <3>2. ~met'[u] => ~met[u]
      BY <1>5, <2>2
    <3> QED BY <1>5, <2>2, <3>1, <3>2 DEF Along, FirstChunks
  <2> QED BY <2>1, <2>2
<1> QED BY <1>2, <1>6, <1>7, <1>8, <1>9 DEF FilesInv

LEMMA FileTypes ==
  ASSUME FilesInv
  PROVE  /\ file \in Seq(Piece) /\ tmp \in Seq(Piece)
         /\ archive \in Copy /\ data \in BOOLEAN /\ pvs \in Copy /\ backup \in Copy
         /\ pvs # "none" => data
         /\ config \in Config /\ NoConfig \in Config
         /\ pc \in [Task -> Step] /\ chunk \in [Task -> 1 .. Chunks + 1] /\ read \in [Task -> Config]
         /\ got \in [Task -> Copy] /\ unseen \in [Task -> BOOLEAN]
         /\ ret \in [Task -> {"none", "ok", "err"}]
         /\ {"none", "torn", "whole"} \subseteq Copy /\ <<>> \in Seq(Piece)
         /\ \A t \in Task : Content(t) \in Seq(Piece)
<1>1. \A t \in Task : Content(t) \in Seq(Piece)
  BY UseAssumption DEF Content, Piece
<1>2. NoConfig \in Config /\ {"none", "torn", "whole"} \subseteq Copy /\ <<>> \in Seq(Piece)
  BY DEF NoConfig, Config, Copy
<1> QED BY <1>1, <1>2 DEF FilesInv, TypeOK, Step

\* A call that ends: all that is left to know is what it left on the disk.
LEMMA EndKeeps ==
  ASSUME FilesInv, WipeInv', NEW t \in Task, pc[t] # "idle",
         NEW r \in {"ok", "err"}, Return(t, r), UNCHANGED <<chunk, read>>,
         file' \in Seq(Piece), tmp' \in Seq(Piece), archive' \in Copy, data' \in BOOLEAN,
         pvs' \in Copy, backup' \in Copy, pvs' # "none" => data', config' \in Config,
         tmp' # tmp => pc[t] \in FileSteps, archive' # archive => pc[t] \in PackSteps,
         config' # config => pc[t] \in EditSteps,
         got' \in [Task -> Copy], unseen' \in [Task -> BOOLEAN],
         \A u \in Task \ {t} : unseen'[u] = unseen[u]
  PROVE  FilesInv'
<1>1. /\ pc' = [pc EXCEPT ![t] = "idle"] /\ ret' = [ret EXCEPT ![t] = r]
      /\ UNCHANGED <<op, calls, met, wipesMet>> /\ "idle" \in Step
  BY DEF Return, Step
<1>2. /\ pc'[t] = "idle" /\ chunk' = chunk /\ read' = read
      /\ chunk \in [Task -> 1 .. Chunks + 1] /\ read \in [Task -> Config]
      /\ ret' \in [Task -> {"none", "ok", "err"}] /\ \A u \in Task \ {t} : ret'[u] = ret[u]
  BY <1>1, FileTypes
<1>3. Along(t)'
  BY <1>2 DEF Along
<1> QED BY <1>1, <1>2, <1>3, StepKeeps

LEMMA FailsKeeps ==
  ASSUME FilesInv, WipeInv', NEW t \in Task, Fails(t)
  PROVE  FilesInv'
<1>1. tmp' \in Seq(Piece) /\ (tmp' # tmp => pc[t] \in FileSteps)
  <2>1. pc[t] = "append" => <<t, chunk[t]>> \in Piece
    BY FileTypes, UseAssumption DEF FilesInv, InSteps, Piece
  <2>2. pc[t] = "append" => Append(tmp, <<t, chunk[t]>>) \in Seq(Piece)
    BY <2>1, FileTypes, AppendProperties
  <2> QED BY <2>2, FileTypes DEF Fails, FileSteps
<1>2. file' \in Seq(Piece)
  BY FileTypes DEF Fails
<1>3. config' \in Config /\ (config' # config => pc[t] \in EditSteps)
  BY FileTypes DEF Fails, EditSteps
<1>4. /\ pc[t] # "idle" /\ Return(t, "err") /\ UNCHANGED <<archive, data, pvs, backup, chunk, read, got, unseen>>
  BY DEF Fails
<1> QED BY <1>1, <1>2, <1>3, <1>4, FileTypes, EndKeeps

LEMMA EndsKeep ==
  ASSUME FilesInv, WipeInv', NEW t \in Task,
         WriteSmall(t) \/ Decode(t) \/ Fetch(t) \/ WipeEnds(t) \/ WipeRestore(t) \/ Store(t)
  PROVE  FilesInv'
<1>1. CASE WriteSmall(t)
  <2>1. /\ pc[t] # "idle" /\ Return(t, "ok") /\ file' = Content(t)
        /\ UNCHANGED <<tmp, archive, data, pvs, backup, config, chunk, read, got, unseen>>
    BY <1>1 DEF WriteSmall
  <2>2. file' \in Seq(Piece)
    BY <2>1, FileTypes
  <2> QED BY <2>1, <2>2, FileTypes, EndKeeps
<1>2. CASE Decode(t)
  <2>1. /\ pc[t] = "decode" /\ file' \in {file, tmp, <<>>} /\ tmp' \in {tmp, <<>>}
        /\ UNCHANGED <<archive, data, pvs, backup, config, chunk, read, got, unseen>>
    BY <1>2 DEF Decode
  <2>2. PICK r \in {"ok", "err"} : Return(t, r)
    BY <1>2 DEF Decode
  <2>3. file' \in Seq(Piece) /\ tmp' \in Seq(Piece) /\ pc[t] \in FileSteps /\ pc[t] # "idle"
    BY <2>1, FileTypes DEF FileSteps
  <2> QED BY <2>1, <2>2, <2>3, FileTypes, EndKeeps
<1>3. CASE Fetch(t)
  <2>1. /\ pc[t] # "idle" /\ Return(t, "ok") /\ got' = [got EXCEPT ![t] = archive]
        /\ UNCHANGED <<file, tmp, archive, data, pvs, backup, config, chunk, read, unseen>>
    BY <1>3 DEF Fetch, disk
  <2>2. got' \in [Task -> Copy]
    BY <2>1, FileTypes
  <2> QED BY <2>1, <2>2, FileTypes, EndKeeps
<1>4. CASE WipeEnds(t)
  <2>1. /\ pc[t] # "idle" /\ Return(t, "err")
        /\ UNCHANGED <<file, tmp, archive, data, pvs, backup, config, chunk, read, got, unseen>>
    BY <1>4 DEF WipeEnds, disk
  <2> QED BY <2>1, FileTypes, EndKeeps
<1>5. CASE WipeRestore(t)
  <2>1. /\ pc[t] # "idle" /\ Return(t, "ok") /\ data /\ pvs' = backup /\ backup' = "none"
        /\ UNCHANGED <<file, tmp, archive, data, config, chunk, read, got, unseen>>
    BY <1>5 DEF WipeRestore
  <2>2. pvs' \in Copy /\ backup' \in Copy
    BY <2>1, FileTypes
  <2> QED BY <2>1, <2>2, FileTypes, EndKeeps
<1>6. CASE Store(t)
  <2>1. /\ pc[t] = "store" /\ Return(t, "ok")
        /\ UNCHANGED <<file, tmp, archive, data, pvs, backup, chunk, read, got>>
    BY <1>6 DEF Store
  <2>2. unseen' \in [Task -> BOOLEAN] /\ \A u \in Task \ {t} : unseen'[u] = unseen[u]
    BY <1>6, FileTypes DEF Store, Overlook
  <2>3. [read[t] EXCEPT !.by = @ \cup {t}] \in Config
    BY FileTypes DEF Config
  <2>4. config' \in Config
    BY <1>6, <2>3, FileTypes DEF Store
  <2>5. pc[t] \in EditSteps /\ pc[t] # "idle"
    BY <2>1 DEF EditSteps
  <2> QED BY <2>1, <2>2, <2>4, <2>5, FileTypes, EndKeeps
<1> QED BY <1>1, <1>2, <1>3, <1>4, <1>5, <1>6

\* A call that goes on, with a step of the same kind.
LEMMA GoKeeps ==
  ASSUME FilesInv, WipeInv', NEW t \in Task, pc[t] # "idle",
         NEW s \in Step \ {"idle"}, Goto(t, s),
         s \in FileSteps <=> pc[t] \in FileSteps, s \in PackSteps <=> pc[t] \in PackSteps,
         s \in EditSteps <=> pc[t] \in EditSteps, s = "append" => chunk'[t] <= Chunks,
         s \in {"mkdir", "write", "rm"} => chunk'[t] = 1,
         UNCHANGED <<file, config, got>>,
         tmp' \in Seq(Piece), archive' \in Copy, data' \in BOOLEAN, pvs' \in Copy, backup' \in Copy,
         pvs' # "none" => data',
         tmp' # tmp => pc[t] \in FileSteps, archive' # archive => pc[t] \in PackSteps,
         chunk' \in [Task -> 1 .. Chunks + 1], read' \in [Task -> Config], unseen' \in [Task -> BOOLEAN],
         \A u \in Task \ {t} : /\ chunk'[u] = chunk[u] /\ read'[u] = read[u] /\ unseen'[u] = unseen[u],
         Along(t)'
  PROVE  FilesInv'
<1>1. pc' = [pc EXCEPT ![t] = s] /\ UNCHANGED <<op, calls, met, wipesMet, ret>>
  BY DEF Goto
<1> QED BY <1>1, FileTypes, StepKeeps

LEMMA StepsKeep ==
  ASSUME FilesInv, WipeInv', NEW t \in Task,
         \/ MakeParent(t) \/ RemoveTmp(t) \/ AppendChunk(t) \/ PackBegin(t) \/ PackEnd(t)
         \/ WipeCopy(t) \/ WipeRemove(t) \/ WipeMake(t) \/ Cat(t)
  PROVE  FilesInv'
<1>1. CASE MakeParent(t)
  <2>1. /\ pc[t] = "mkdir"
        /\ UNCHANGED <<file, tmp, archive, data, pvs, backup, config, chunk, read, got, unseen>>
    BY <1>1 DEF MakeParent, disk
  <2>2. PICK s \in {"write", "rm"} : Goto(t, s)
    BY <1>1 DEF MakeParent
  <2>3. /\ s \in Step \ {"idle"} /\ s \in FileSteps /\ pc[t] \in FileSteps /\ pc[t] # "idle"
        /\ s \notin PackSteps \cup EditSteps \cup {"append"} /\ pc[t] \notin PackSteps \cup EditSteps
    BY <2>1 DEF Step, FileSteps, PackSteps, EditSteps
  <2>4. pc'[t] = s /\ chunk'[t] = 1
    BY <2>1, <2>2, FileTypes DEF Goto, FilesInv, InSteps
  <2>5. Along(t)'
    BY <2>4 DEF Along
  <2> QED BY <2>1, <2>2, <2>3, <2>4, <2>5, FileTypes, GoKeeps
<1>2. CASE RemoveTmp(t)
  <2>1. /\ pc[t] = "rm" /\ Goto(t, "append")
        /\ UNCHANGED <<file, archive, data, pvs, backup, config, chunk, read, got>>
    BY <1>2 DEF RemoveTmp
  <2>2. /\ "append" \in Step \ {"idle"} /\ "append" \in FileSteps /\ pc[t] \in FileSteps /\ pc[t] # "idle"
        /\ "append" \notin PackSteps \cup EditSteps /\ pc[t] \notin PackSteps \cup EditSteps
    BY <2>1 DEF Step, FileSteps, PackSteps, EditSteps
  <2>3. /\ tmp' \in Seq(Piece) /\ unseen' \in [Task -> BOOLEAN]
        /\ \A u \in Task \ {t} : unseen'[u] = unseen[u]
    BY <1>2, FileTypes DEF RemoveTmp, Overlook
  <2>4. chunk[t] = 1
    BY <2>1 DEF FilesInv, InSteps
  <2>5. pc'[t] = "append"
    BY <2>1, FileTypes DEF Goto
  <2>6. Along(t)'
    <3>1. CASE tmp' = <<>>
      BY <2>1, <2>4, <2>5, <3>1 DEF Along, FirstChunks
    <3>2. CASE Overlook(t)
      BY <3>2, FileTypes DEF Along, Overlook
    <3> QED BY <1>2, <3>1, <3>2 DEF RemoveTmp
  <2>7. chunk'[t] <= Chunks
    BY <2>1, <2>4, UseAssumption
  <2> QED BY <2>1, <2>2, <2>3, <2>6, <2>7, FileTypes, GoKeeps
<1>3. CASE AppendChunk(t)
  <2>1. /\ pc[t] = "append" /\ tmp' = Append(tmp, <<t, chunk[t]>>)
        /\ chunk' = [chunk EXCEPT ![t] = @ + 1]
        /\ UNCHANGED <<file, archive, data, pvs, backup, config, read, got, unseen>>
    BY <1>3 DEF AppendChunk
  <2>2. PICK s \in {"append", "decode"} : Goto(t, s) /\ (s = "decode" <=> chunk[t] = Chunks)
    BY <1>3 DEF AppendChunk
  <2>3. /\ s \in Step \ {"idle"} /\ s \in FileSteps /\ pc[t] \in FileSteps /\ pc[t] # "idle"
        /\ s \notin PackSteps \cup EditSteps /\ pc[t] \notin PackSteps \cup EditSteps
    BY <2>1 DEF Step, FileSteps, PackSteps, EditSteps
  <2>4. chunk[t] \in 1 .. Chunks
    BY <2>1, FileTypes, UseAssumption DEF FilesInv, InSteps
  <2>5. /\ tmp' \in Seq(Piece) /\ Len(tmp') = Len(tmp) + 1 /\ tmp'[Len(tmp) + 1] = <<t, chunk[t]>>
        /\ \A i \in 1 .. Len(tmp) : tmp'[i] = tmp[i]
    <3>1. <<t, chunk[t]>> \in Piece
      BY <2>4 DEF Piece
    <3> QED BY <2>1, <3>1, FileTypes, AppendProperties
  <2>6. /\ chunk' \in [Task -> 1 .. Chunks + 1] /\ chunk'[t] = chunk[t] + 1
        /\ \A u \in Task \ {t} : chunk'[u] = chunk[u]
    <3>1. chunk[t] + 1 \in 1 .. Chunks + 1
      BY <2>4, UseAssumption
    <3> QED BY <2>1, <3>1, FileTypes
  <2>7. pc'[t] = s
    BY <2>2, FileTypes DEF Goto
  <2>8. s = "append" => chunk'[t] <= Chunks
    BY <2>2, <2>4, <2>6, UseAssumption
  <2>9. Along(t)'
    <3>1. ASSUME ~met[t], ~unseen[t]
          PROVE  FirstChunks(t, tmp, chunk[t] - 1)
      BY <2>1, <3>1 DEF FilesInv, Along
    <3>2. ASSUME ~met[t], ~unseen[t]
          PROVE  FirstChunks(t, tmp', chunk[t])
      <4>1. Len(tmp) = chunk[t] - 1 /\ \A i \in 1 .. chunk[t] - 1 : tmp[i] = <<t, i>>
        BY <3>1, <3>2 DEF FirstChunks
      <4>2. Len(tmp') = chunk[t] /\ tmp'[chunk[t]] = <<t, chunk[t]>>
        BY <2>4, <2>5, <4>1
      <4>3. \A i \in 1 .. chunk[t] : i = chunk[t] \/ i \in 1 .. chunk[t] - 1
        BY <2>4
      <4>4. \A i \in 1 .. chunk[t] - 1 : tmp'[i] = <<t, i>>
        BY <2>5, <4>1
      <4> QED BY <4>2, <4>3, <4>4 DEF FirstChunks
    <3>3. met' = met /\ unseen' = unseen
      BY <2>1, <2>2 DEF Goto
    <3>4. chunk'[t] - 1 = chunk[t] /\ (s = "decode" => chunk'[t] = Chunks + 1)
      BY <2>2, <2>4, <2>6
    <3> QED BY <2>7, <3>2, <3>3, <3>4 DEF Along, FirstChunks
  <2> QED BY <2>1, <2>2, <2>3, <2>5, <2>6, <2>8, <2>9, FileTypes, GoKeeps
<1>4. CASE PackBegin(t)
  <2>1. /\ pc[t] = "pack" /\ Goto(t, "pack.end") /\ archive' = "torn"
        /\ UNCHANGED <<file, tmp, data, pvs, backup, config, chunk, read, got, unseen>>
    BY <1>4 DEF PackBegin
  <2>2. /\ "pack.end" \in Step \ {"idle"} /\ "pack.end" \in PackSteps /\ pc[t] \in PackSteps /\ pc[t] # "idle"
        /\ "pack.end" \notin FileSteps \cup EditSteps /\ pc[t] \notin FileSteps \cup EditSteps
    BY <2>1 DEF Step, FileSteps, PackSteps, EditSteps
  <2>3. pc'[t] = "pack.end"
    BY <2>1, FileTypes DEF Goto
  <2>4. Along(t)'
    BY <2>3 DEF Along
  <2> QED BY <2>1, <2>2, <2>4, FileTypes, GoKeeps
<1>5. CASE PackEnd(t)
  <2>1. /\ pc[t] = "pack.end" /\ archive' \in Copy
        /\ UNCHANGED <<file, tmp, data, pvs, backup, config, chunk, read, got>>
    BY <1>5, FileTypes DEF PackEnd
  <2>2. unseen' \in [Task -> BOOLEAN] /\ \A u \in Task \ {t} : unseen'[u] = unseen[u]
    BY <1>5, FileTypes DEF PackEnd, Overlook
  <2>3. /\ "fetch" \in Step \ {"idle"} /\ "fetch" \in PackSteps /\ pc[t] \in PackSteps /\ pc[t] # "idle"
        /\ "fetch" \notin FileSteps \cup EditSteps /\ pc[t] \notin FileSteps \cup EditSteps
    BY <2>1 DEF Step, FileSteps, PackSteps, EditSteps
  <2>4. CASE Goto(t, "fetch")
    <3>1. pc'[t] = "fetch"
      BY <2>4, FileTypes DEF Goto
    <3>2. archive' = "whole" \/ unseen'[t]
      BY <1>5, <2>3, <3>1, FileTypes DEF PackEnd, Overlook, Return
    <3>3. Along(t)'
      BY <3>1, <3>2 DEF Along
    <3> QED BY <2>1, <2>2, <2>3, <2>4, <3>3, FileTypes, GoKeeps
  <2>5. CASE Return(t, "err")
    BY <2>1, <2>2, <2>3, <2>5, FileTypes, EndKeeps
  <2> QED BY <1>5, <2>4, <2>5 DEF PackEnd
<1>6. CASE WipeCopy(t)
  <2>1. /\ pc[t] = "wipe.cp" /\ backup' \in {pvs, "torn"}
        /\ UNCHANGED <<file, tmp, archive, data, pvs, config, chunk, read, got, unseen>>
    BY <1>6 DEF WipeCopy
  <2>2. backup' \in Copy
    BY <2>1, FileTypes
  <2>3. /\ "wipe.rm" \in Step \ {"idle"} /\ pc[t] # "idle"
        /\ "wipe.rm" \notin FileSteps \cup PackSteps \cup EditSteps
        /\ pc[t] \notin FileSteps \cup PackSteps \cup EditSteps
    BY <2>1 DEF Step, FileSteps, PackSteps, EditSteps
  <2>4. CASE Goto(t, "wipe.rm")
    <3>1. pc'[t] = "wipe.rm"
      BY <2>4, FileTypes DEF Goto
    <3>2. Along(t)'
      BY <3>1 DEF Along
    <3> QED BY <2>1, <2>2, <2>3, <2>4, <3>2, FileTypes, GoKeeps
  <2>5. CASE Return(t, "err")
    BY <2>1, <2>2, <2>3, <2>5, FileTypes, EndKeeps
  <2> QED BY <1>6, <2>4, <2>5 DEF WipeCopy
<1>7. CASE WipeRemove(t)
  <2>1. /\ pc[t] = "wipe.rm" /\ pvs' = "none" /\ data' \in {data, FALSE}
        /\ UNCHANGED <<file, tmp, archive, backup, config, chunk, read, got, unseen>>
    BY <1>7 DEF WipeRemove
  <2>2. data' \in BOOLEAN /\ pvs' \in Copy
    BY <2>1, FileTypes
  <2>3. /\ "wipe.mkdir" \in Step \ {"idle"} /\ pc[t] # "idle"
        /\ "wipe.mkdir" \notin FileSteps \cup PackSteps \cup EditSteps
        /\ pc[t] \notin FileSteps \cup PackSteps \cup EditSteps
    BY <2>1 DEF Step, FileSteps, PackSteps, EditSteps
  <2>4. CASE Goto(t, "wipe.mkdir")
    <3>1. pc'[t] = "wipe.mkdir"
      BY <2>4, FileTypes DEF Goto
    <3>2. Along(t)'
      BY <3>1 DEF Along
    <3> QED BY <2>1, <2>2, <2>3, <2>4, <3>2, FileTypes, GoKeeps
  <2>5. CASE Return(t, "err")
    BY <2>1, <2>2, <2>3, <2>5, FileTypes, EndKeeps
  <2> QED BY <1>7, <2>4, <2>5 DEF WipeRemove
<1>8. CASE WipeMake(t)
  <2>1. /\ pc[t] = "wipe.mkdir" /\ data' = TRUE /\ Goto(t, "wipe.mv")
        /\ UNCHANGED <<file, tmp, archive, pvs, backup, config, chunk, read, got, unseen>>
    BY <1>8 DEF WipeMake
  <2>2. /\ "wipe.mv" \in Step \ {"idle"} /\ pc[t] # "idle"
        /\ "wipe.mv" \notin FileSteps \cup PackSteps \cup EditSteps
        /\ pc[t] \notin FileSteps \cup PackSteps \cup EditSteps
    BY <2>1 DEF Step, FileSteps, PackSteps, EditSteps
  <2>3. pc'[t] = "wipe.mv"
    BY <2>1, FileTypes DEF Goto
  <2>4. Along(t)'
    BY <2>3 DEF Along
  <2> QED BY <2>1, <2>2, <2>4, FileTypes, GoKeeps
<1>9. CASE Cat(t)
  <2>1. /\ pc[t] = "cat" /\ Goto(t, "store")
        /\ UNCHANGED <<file, tmp, archive, data, pvs, backup, config, chunk, got>>
    BY <1>9 DEF Cat, disk
  <2>2. /\ read' \in [Task -> Config] /\ unseen' \in [Task -> BOOLEAN]
        /\ \A u \in Task \ {t} : read'[u] = read[u] /\ unseen'[u] = unseen[u]
        /\ read'[t] = config \/ unseen'[t]
    BY <1>9, FileTypes DEF Cat, Overlook
  <2>3. /\ "store" \in Step \ {"idle"} /\ "store" \in EditSteps /\ pc[t] \in EditSteps /\ pc[t] # "idle"
        /\ "store" \notin FileSteps \cup PackSteps /\ pc[t] \notin FileSteps \cup PackSteps
    BY <2>1 DEF Step, FileSteps, PackSteps, EditSteps
  <2>4. pc'[t] = "store"
    BY <2>1, FileTypes DEF Goto
  <2>5. Along(t)'
    BY <2>1, <2>2, <2>4 DEF Along
  <2> QED BY <2>1, <2>2, <2>3, <2>5, FileTypes, GoKeeps
<1> QED BY <1>1, <1>2, <1>3, <1>4, <1>5, <1>6, <1>7, <1>8, <1>9

LEMMA FilesInductive == FilesInv /\ [Next]_vars => FilesInv'
<1> SUFFICES ASSUME FilesInv, [Next]_vars
             PROVE  FilesInv'
  OBVIOUS
<1>1. WipeInv'
  BY WipeInductive DEF FilesInv
<1>2. ASSUME NEW t \in Task, NEW o \in Op \ {"none"}, Begin(t, o)
      PROVE  FilesInv'
  BY <1>2, BeginKeeps
<1>3. ASSUME NEW t \in Task, Fails(t)
      PROVE  FilesInv'
  BY <1>1, <1>3, FailsKeeps
<1>4. ASSUME NEW t \in Task,
             WriteSmall(t) \/ Decode(t) \/ Fetch(t) \/ WipeEnds(t) \/ WipeRestore(t) \/ Store(t)
      PROVE  FilesInv'
  BY <1>1, <1>4, EndsKeep
<1>5. ASSUME NEW t \in Task,
             \/ MakeParent(t) \/ RemoveTmp(t) \/ AppendChunk(t) \/ PackBegin(t) \/ PackEnd(t)
             \/ WipeCopy(t) \/ WipeRemove(t) \/ WipeMake(t) \/ Cat(t)
      PROVE  FilesInv'
  BY <1>1, <1>5, StepsKeep
<1>6. CASE UNCHANGED vars
  <2> USE <1>6 DEF vars, disk, locals
  <2>1. TypeOK' /\ InSteps' /\ KnowsRivals'
    BY DEF FilesInv, TypeOK, InSteps, KnowsRivals
  <2>2. \A t \in Task : Along(t)'
    BY DEF FilesInv, Along, FirstChunks
  <2> QED BY <1>1, <2>1, <2>2 DEF FilesInv
<1> QED BY <1>2, <1>3, <1>4, <1>5, <1>6 DEF Next

LEMMA FilesInvariant == Init /\ [][Next]_vars => []FilesInv
<1>1. Init => FilesInv
  <2> SUFFICES ASSUME Init
               PROVE  FilesInv
    OBVIOUS
  <2>1. WipeInv
    BY WipeStarts
  <2>2. TypeOK
    <3>1. /\ op \in [Task -> Op] /\ pc \in [Task -> {"idle"}] /\ chunk \in [Task -> 1 .. Chunks + 1]
          /\ read \in [Task -> Config] /\ got \in [Task -> Copy] /\ calls \in [Task -> 0 .. MaxCalls]
          /\ ret \in [Task -> {"none"}] /\ met \in [Task -> BOOLEAN] /\ unseen \in [Task -> BOOLEAN]
      BY UseAssumption DEF Init, Op, Config, NoConfig, Copy
    <3>2. /\ file \in Seq(Piece) /\ tmp \in Seq(Piece) /\ config \in Config
          /\ archive \in Copy /\ pvs \in Copy /\ backup \in Copy
      <4>1. [own |-> TRUE, by |-> {}] \in Config
        BY DEF Config
      <4> QED BY <4>1 DEF Init, Copy
    <3>3. data \in BOOLEAN /\ wipesMet \in BOOLEAN /\ (pvs # "none" => data)
      BY DEF Init
    <3> QED BY <3>1, <3>2, <3>3 DEF TypeOK
  <2>3. InSteps /\ KnowsRivals /\ \A t \in Task : Along(t)
    BY DEF Init, InSteps, KnowsRivals, Along, FileSteps, PackSteps, EditSteps
  <2> QED BY <2>1, <2>2, <2>3 DEF FilesInv
<1> QED BY <1>1, FilesInductive, PTL

LEMMA FilesTyped == Init /\ [][Next]_vars => []TypeOK
<1>1. FilesInv => TypeOK
  BY DEF FilesInv
<1> QED BY <1>1, FilesInvariant, PTL

LEMMA WholeOf ==
  ASSUME NEW t \in Task, op[t] \in Op \ {"none"}
  PROVE  /\ op[t] \in {"small", "large"} /\ file' = Content(t) => Whole(t)
         /\ op[t] = "snapshot" /\ got'[t] = "whole" => Whole(t)
         /\ op[t] = "wipe" /\ data' /\ (pvs' = "whole" \/ wipesMet) => Whole(t)
         /\ op[t] = "override" /\ config' = [config EXCEPT !.by = @ \cup {t}] => Whole(t)
<1>1. op[t] \in {"small", "large"} /\ file' = Content(t) => Whole(t)
  BY Zenon DEF Whole
<1>2. op[t] = "snapshot" /\ got'[t] = "whole" => Whole(t)
  BY DEF Whole
<1>3. op[t] = "wipe" /\ data' /\ (pvs' = "whole" \/ wipesMet) => Whole(t)
  BY DEF Whole
<1>4. op[t] = "override" /\ config' = [config EXCEPT !.by = @ \cup {t}] => Whole(t)
  BY DEF Whole
<1> QED BY <1>1, <1>2, <1>3, <1>4

\* Any number of tasks on one node: a call that returns Ok has done its work,
\* unless another was on its paths meanwhile or a command failed whose exit code
\* is not looked at (write_file, create_snapshot, wipe_data and
\* apply_config_override of cosmos/node.rs).
THEOREM OkAlwaysWhole == Init /\ [][Next]_vars => OkIsWhole
<1>1. ASSUME FilesInv, Next, NEW t \in Task,
             pc[t] # "idle", ret'[t] = "ok", ~met[t], ~unseen'[t]
      PROVE  Whole(t)
  <2>1. /\ ret[t] = "none" /\ op[t] \in Op /\ ret \in [Task -> {"none", "ok", "err"}]
        /\ unseen \in [Task -> BOOLEAN]
    BY <1>1 DEF FilesInv, InSteps, TypeOK
  <2>2. op[t] # "none"
    <3>1. pc[t] \in FileSteps \cup PackSteps \cup EditSteps \cup WipeStep
      BY <1>1, FileTypes DEF FileSteps, PackSteps, EditSteps, WipeStep, Step
    <3> QED BY <1>1, <3>1 DEF FilesInv, InSteps, WipeInv, InCall
  <2>3. PICK u \in Task :
          \/ \E o \in Op \ {"none"} : Begin(u, o)
          \/ Fails(u) \/ MakeParent(u) \/ WriteSmall(u) \/ RemoveTmp(u) \/ AppendChunk(u) \/ Decode(u)
          \/ PackBegin(u) \/ PackEnd(u) \/ Fetch(u)
          \/ WipeCopy(u) \/ WipeRemove(u) \/ WipeMake(u) \/ WipeRestore(u) \/ WipeEnds(u)
          \/ Cat(u) \/ Store(u)
    BY <1>1 DEF Next
  <2>4. u = t /\ (WriteSmall(t) \/ Decode(t) \/ Fetch(t) \/ WipeRestore(t) \/ Store(t))
    <3>1. ASSUME NEW o \in Op \ {"none"}, Begin(u, o)
          PROVE  FALSE
      BY <1>1, <2>1, <3>1 DEF Begin
    <3>2. ASSUME MakeParent(u) \/ RemoveTmp(u) \/ AppendChunk(u) \/ PackBegin(u) \/ WipeMake(u) \/ Cat(u)
          PROVE  FALSE
      <4>1. ret' = ret
        BY <3>2 DEF MakeParent, RemoveTmp, AppendChunk, PackBegin, WipeMake, Cat, Goto
      <4> QED BY <1>1, <2>1, <4>1
    <3>3. ASSUME Fails(u) \/ PackEnd(u) \/ WipeCopy(u) \/ WipeRemove(u) \/ WipeEnds(u)
          PROVE  FALSE
      <4>1. ret' \in {ret, [ret EXCEPT ![u] = "err"]}
        BY <3>3 DEF Fails, PackEnd, WipeCopy, WipeRemove, WipeEnds, Goto, Return
      <4> QED BY <1>1, <2>1, <4>1
    <3>4. ASSUME WriteSmall(u) \/ Decode(u) \/ Fetch(u) \/ WipeRestore(u) \/ Store(u)
          PROVE  u = t
      <4>1. \E r \in {"ok", "err"} : ret' = [ret EXCEPT ![u] = r]
        BY <3>4 DEF WriteSmall, Decode, Fetch, WipeRestore, Store, Return
      <4> QED BY <1>1, <2>1, <4>1
    <3> QED BY <2>3, <3>1, <3>2, <3>3, <3>4
  <2>5. CASE WriteSmall(t)
    <3>1. op[t] \in {"small", "large"} /\ file' = Content(t)
      BY <1>1, <2>5 DEF WriteSmall, FilesInv, InSteps, FileSteps
    <3> QED BY <2>1, <2>2, <3>1, WholeOf
  <2>6. CASE Decode(t)
    <3>1. /\ pc[t] = "decode" /\ unseen' = unseen
          /\ file' = tmp \/ Return(t, "err")
      BY <2>6 DEF Decode
    <3>2. file' = tmp /\ op[t] \in {"small", "large"} /\ tmp \in Seq(Piece)
      BY <1>1, <2>1, <3>1 DEF Return, FilesInv, InSteps, FileSteps, TypeOK
    <3>3. chunk[t] = Chunks + 1 /\ FirstChunks(t, tmp, chunk[t] - 1)
      BY <1>1, <3>1 DEF FilesInv, Along
    <3>4. Len(tmp) = Chunks /\ \A i \in 1 .. Chunks : tmp[i] = <<t, i>>
      BY <3>3, UseAssumption DEF FirstChunks
    <3>5. tmp = Content(t)
      BY <3>2, <3>4, LenProperties DEF Content
    <3> QED BY <2>1, <2>2, <3>2, <3>5, WholeOf
  <2>7. CASE Fetch(t)
    <3>1. pc[t] = "fetch" /\ unseen' = unseen /\ got' = [got EXCEPT ![t] = archive]
      BY <2>7 DEF Fetch
    <3>2. archive = "whole" /\ op[t] = "snapshot" /\ got \in [Task -> Copy]
      BY <1>1, <3>1 DEF FilesInv, Along, InSteps, PackSteps, TypeOK
    <3> QED BY <2>1, <2>2, <3>1, <3>2, WholeOf
  <2>8. CASE WipeRestore(t)
    <3>1. pc[t] = "wipe.mv" /\ data /\ data' = data /\ pvs' = backup
      BY <2>8 DEF WipeRestore
    <3>2. op[t] = "wipe" /\ (wipesMet \/ backup = "whole")
      BY <1>1, <3>1 DEF FilesInv, WipeInv, InCall, Guarded, WipeStep, AfterCopy
    <3> QED BY <2>1, <2>2, <3>1, <3>2, WholeOf
  <2>9. CASE Store(t)
    <3>1. pc[t] = "store"
      BY <2>9 DEF Store
    <3>2. ~Overlook(t)
      BY <1>1, <2>1 DEF Overlook
    <3>3. config' = [read[t] EXCEPT !.by = @ \cup {t}] /\ unseen' = unseen
      BY <2>9, <3>2 DEF Store
    <3>4. read[t] = config /\ op[t] = "override"
      BY <1>1, <3>1, <3>3 DEF FilesInv, Along, InSteps, EditSteps
    <3> QED BY <2>1, <2>2, <3>3, <3>4, WholeOf
  <2> QED BY <2>4, <2>5, <2>6, <2>7, <2>8, <2>9
<1>2. FilesInv /\ [Next]_vars =>
        [\A t \in Task : pc[t] # "idle" /\ ret'[t] = "ok" /\ ~met[t] /\ ~unseen'[t] => Whole(t)]_vars
  BY <1>1
<1> QED BY <1>2, FilesInvariant, PTL DEF OkIsWhole

-----------------------------------------------------------------------------
(* How many calls the tasks have begun, for the bound of the next two parts.*)

\* The calls of all tasks, numbered task by task, when each has begun f of them.
Upto(f) == {w \in Task \X (1 .. MaxCalls) : w[2] <= f[w[1]]}

LEMMA UptoFinite ==
  ASSUME NEW f
  PROVE  IsFiniteSet(Upto(f)) /\ Cardinality(Upto(f)) \in Nat
<1>1. 1 \in Int /\ MaxCalls \in Int
  BY UseAssumption
<1>2. IsFiniteSet(1 .. MaxCalls)
  BY <1>1, FS_Interval
<1>3. IsFiniteSet(Task \X (1 .. MaxCalls))
  BY <1>2, UseAssumption, FS_Product
<1>4. Upto(f) \in SUBSET (Task \X (1 .. MaxCalls))
  BY DEF Upto
<1>5. IsFiniteSet(Upto(f))
  BY <1>3, <1>4, FS_Subset
<1> QED BY <1>5, FS_CardinalityType

\* A task has begun no more calls than all have together.
LEMMA OneOfAll ==
  ASSUME NEW f \in [Task -> 0 .. MaxCalls], NEW t \in Task
  PROVE  f[t] <= Cardinality(Upto(f))
<1> DEFINE g == [k \in 1 .. f[t] |-> <<t, k>>]
<1>1. f[t] \in 0 .. MaxCalls
  OBVIOUS
<1>2. \A k \in 1 .. f[t] : <<t, k>> \in Upto(f)
  BY <1>1, UseAssumption DEF Upto
<1>3. g \in [1 .. f[t] -> Upto(f)]
  BY <1>2
<1>4. \A a, b \in 1 .. f[t] : g[a] = g[b] => a = b
  OBVIOUS
<1>5. g \in Injection(1 .. f[t], Upto(f))
  BY <1>3, <1>4 DEF Injection, IsInjective
<1> HIDE DEF g
<1>6. Cardinality(1 .. f[t]) <= Cardinality(Upto(f))
  BY <1>5, UptoFinite, FS_Injection
<1>7. Cardinality(1 .. f[t]) = f[t]
  <2>1. 1 \in Int /\ f[t] \in Int /\ f[t] \in Nat
    BY <1>1
  <2>2. Cardinality(1 .. f[t]) = IF 1 > f[t] THEN 0 ELSE f[t] - 1 + 1
    BY <2>1, FS_Interval
  <2> QED BY <2>1, <2>2
<1> QED BY <1>6, <1>7

\* One call more, where the bound allows one.
LEMMA OneMore ==
  ASSUME NEW f \in [Task -> 0 .. MaxCalls], NEW t \in Task, Cardinality(Upto(f)) < MaxCalls
  PROVE  /\ f[t] + 1 \in 1 .. MaxCalls
         /\ [f EXCEPT ![t] = @ + 1] \in [Task -> 0 .. MaxCalls]
         /\ Cardinality(Upto([f EXCEPT ![t] = @ + 1])) = Cardinality(Upto(f)) + 1
<1> DEFINE g == [f EXCEPT ![t] = @ + 1]
           w == <<t, f[t] + 1>>
<1>1. f[t] <= Cardinality(Upto(f)) /\ Cardinality(Upto(f)) \in Nat /\ f[t] \in Nat
  BY OneOfAll, UptoFinite
<1>2. f[t] + 1 \in 1 .. MaxCalls
  BY <1>1, UseAssumption
<1>3. g \in [Task -> 0 .. MaxCalls]
  BY <1>2
<1>4. w \notin Upto(f) /\ Upto(g) = Upto(f) \cup {w}
  <2>1. w \notin Upto(f)
    BY <1>1 DEF Upto
  <2>2. w \in Upto(g)
    BY <1>1, <1>2 DEF Upto
  <2>3. ASSUME NEW v \in Task \X (1 .. MaxCalls), v # w
        PROVE  v \in Upto(g) <=> v \in Upto(f)
    <3>1. PICK u \in Task, k \in 1 .. MaxCalls : v = <<u, k>>
      OBVIOUS
    <3>2. f[u] \in Nat /\ (u = t => k # f[t] + 1)
      BY <2>3, <3>1
    <3>3. g[u] = IF u = t THEN f[t] + 1 ELSE f[u]
      OBVIOUS
    <3> HIDE DEF g, w
    <3>4. k <= g[u] <=> k <= f[u]
      BY <1>1, <3>2, <3>3
    <3> QED BY <3>1, <3>4 DEF Upto
  <2>4. Upto(g) \subseteq Task \X (1 .. MaxCalls) /\ Upto(f) \subseteq Task \X (1 .. MaxCalls)
    BY DEF Upto
  <2> HIDE DEF g, w
  <2> QED BY <2>1, <2>2, <2>3, <2>4
<1> HIDE DEF g, w
<1>5. Cardinality(Upto(f) \cup {w}) = Cardinality(Upto(f)) + 1
  BY <1>4, UptoFinite, FS_AddElement
<1> QED BY <1>2, <1>3, <1>4, <1>5 DEF g

\* What has at most one entry for a call has no more entries than calls.
LEMMA OnePerCall ==
  ASSUME NEW f, NEW n \in Nat, NEW g \in [1 .. n -> Upto(f)],
         \A i, j \in 1 .. n : g[i] = g[j] => i = j
  PROVE  n <= Cardinality(Upto(f))
<1>1. g \in Injection(1 .. n, Upto(f))
  BY DEF Injection, IsInjective
<1>2. Cardinality(1 .. n) <= Cardinality(Upto(f))
  BY <1>1, UptoFinite, FS_Injection
<1>3. Cardinality(1 .. n) = n
  <2>1. 1 \in Int /\ n \in Int
    OBVIOUS
  <2>2. Cardinality(1 .. n) = IF 1 > n THEN 0 ELSE n - 1 + 1
    BY <2>1, FS_Interval
  <2> QED BY <2>1, <2>2
<1> QED BY <1>2, <1>3

-----------------------------------------------------------------------------
(* Proposals: TypeOK and PassedIsOwn of Governance.                        *)

\* Cardinality as the instance knows it.
LEMMA GovCount == \A S : Gov!Cardinality(S) = Cardinality(S)
  BY DEF Gov!Cardinality, Cardinality

-----------------------------------------------------------------------------
(* The invariant.                                                          *)

\* TypeOK but for the ids, which go up to the number of calls.
GovTyped ==
  /\ kind \in [Task -> Gov!Kind] /\ govTells \in BOOLEAN
  /\ govPc \in [Task -> {"idle", "find", "vote", "poll"}]
  /\ govCalls \in [Task -> 0 .. MaxCalls]
  /\ govGuessed \in [Task -> BOOLEAN] /\ ballots \in [Task -> 0 .. Validators]
  /\ govRet \in [Task -> {"none", "ok", "err"}]
  /\ govOwn \in [Task -> Nat] /\ id \in [Task -> Nat]

ChainTyped == proposals \in Seq(Gov!Proposal) /\ govPool \subseteq [by : Task, call : 1 .. MaxCalls, on : Nat]

\* Every workflow makes one proposal at most, by one transaction or at once.
OneEach ==
  /\ \A i \in DOMAIN proposals : proposals[i].call <= govCalls[proposals[i].by]
  /\ \A tx \in govPool : tx.call <= govCalls[tx.by]
  /\ \A i, j \in DOMAIN proposals :
       proposals[i].by = proposals[j].by /\ proposals[i].call = proposals[j].call => i = j
  /\ \A tx \in govPool, i \in DOMAIN proposals :
       tx.on = 0 => ~(proposals[i].by = tx.by /\ proposals[i].call = tx.call)

IsOwn(t, i) == proposals[i].by = t /\ proposals[i].call = govCalls[t]

\* The id the chain gave is the one of the proposal of the workflow.
OwnIsOwn ==
  \A t \in Task :
    /\ govOwn[t] # 0 => govOwn[t] \in DOMAIN proposals /\ IsOwn(t, govOwn[t])
    /\ \A i \in DOMAIN proposals : IsOwn(t, i) => govOwn[t] = i

\* What is voted on is there, and an id that was not guessed is the task's own.
IdsKnown ==
  /\ \A tx \in govPool : tx.on # 0 => tx.on \in DOMAIN proposals
  /\ \A t \in Task :
       /\ id[t] # 0 => id[t] = 1 \/ id[t] \in DOMAIN proposals
       /\ govPc[t] = "poll" => id[t] \in DOMAIN proposals
       /\ govPc[t] \in {"vote", "poll"} /\ ~govGuessed[t] => govOwn[t] # 0 /\ id[t] = govOwn[t]
       /\ govRet[t] = "ok" => /\ id[t] \in DOMAIN proposals /\ proposals[id[t]].st = "passed"
                              /\ ~govGuessed[t] => govOwn[t] # 0 /\ id[t] = govOwn[t]

\* A task has a vote to give before it votes, in a workflow it has begun; all
\* calls are within the bound.
WithinBounds ==
  /\ \A t \in Task : /\ govPc[t] \in {"find", "vote"} => ballots[t] < Validators
                     /\ govPc[t] # "idle" => govCalls[t] # 0
  /\ Cardinality(Upto(govCalls)) <= MaxCalls

GovInv == GovTyped /\ ChainTyped /\ OneEach /\ OwnIsOwn /\ IdsKnown /\ WithinBounds

LEMMA LenOfChain ==
  ASSUME ChainTyped
  PROVE  /\ Len(proposals) \in Nat /\ DOMAIN proposals = 1 .. Len(proposals)
         /\ \A i \in DOMAIN proposals : proposals[i] \in Gov!Proposal
  BY LenProperties, ElementOfSeq DEF ChainTyped

LEMMA ProposalAppended ==
  ASSUME ChainTyped, NEW p \in Gov!Proposal, proposals' = Append(proposals, p)
  PROVE  /\ proposals' \in Seq(Gov!Proposal) /\ Len(proposals') = Len(proposals) + 1
         /\ DOMAIN proposals' = 1 .. Len(proposals) + 1
         /\ \A i \in DOMAIN proposals : proposals'[i] = proposals[i]
         /\ proposals'[Len(proposals) + 1] = p
<1>1. proposals \in Seq(Gov!Proposal)
  BY DEF ChainTyped
<1>2. /\ proposals' \in Seq(Gov!Proposal) /\ Len(proposals') = Len(proposals) + 1
      /\ \A i \in 1 .. Len(proposals) : proposals'[i] = proposals[i]
      /\ proposals'[Len(proposals) + 1] = p
  BY <1>1, AppendProperties
<1> QED BY <1>2, LenProperties, LenOfChain

\* Only the status, or the votes, of a proposal change.
LEMMA Updated ==
  ASSUME ChainTyped, NEW i \in DOMAIN proposals, NEW p \in Gov!Proposal,
         p.by = proposals[i].by, p.call = proposals[i].call,
         proposals' = [proposals EXCEPT ![i] = p]
  PROVE  /\ proposals' \in Seq(Gov!Proposal) /\ DOMAIN proposals' = DOMAIN proposals
         /\ \A j \in DOMAIN proposals : /\ j # i => proposals'[j] = proposals[j]
                                        /\ proposals'[j].by = proposals[j].by
                                        /\ proposals'[j].call = proposals[j].call
         /\ proposals'[i] = p
<1>1. i \in 1 .. Len(proposals) /\ proposals \in Seq(Gov!Proposal)
  BY LenOfChain DEF ChainTyped
<1>2. /\ proposals' \in Seq(Gov!Proposal) /\ Len(proposals') = Len(proposals)
      /\ \A j \in 1 .. Len(proposals) : proposals'[j] = IF j = i THEN p ELSE proposals[j]
  BY <1>1, ExceptSeq
<1>3. DOMAIN proposals' = 1 .. Len(proposals')
  BY <1>2, LenProperties
<1> QED BY <1>1, <1>2, <1>3, LenOfChain

-----------------------------------------------------------------------------
(* The chain.                                                              *)

\* A transaction that leaves the queue without an effect.
LEMMA NothingPooled ==
  ASSUME GovInv, govPool' \subseteq govPool,
         UNCHANGED <<Gov!env, proposals, govOwn, govPc, govCalls, id, govGuessed, ballots, govRet>>
  PROVE  GovInv'
<1>1. GovTyped' /\ ChainTyped'
  BY DEF GovInv, GovTyped, ChainTyped, Gov!env
<1>2. OneEach' /\ OwnIsOwn' /\ IdsKnown' /\ WithinBounds'
  BY DEF GovInv, OneEach, OwnIsOwn, IsOwn, IdsKnown, WithinBounds, Upto
<1> QED BY <1>1, <1>2 DEF GovInv

LEMMA CommitUpdate ==
  ASSUME GovInv, govPool' \subseteq govPool,
         NEW i \in DOMAIN proposals, proposals[i].st = "voting", NEW p \in Gov!Proposal,
         p.by = proposals[i].by, p.call = proposals[i].call,
         proposals' = [proposals EXCEPT ![i] = p],
         UNCHANGED <<Gov!env, govOwn, govPc, govCalls, id, govGuessed, ballots, govRet>>
  PROVE  GovInv'
<1>1. /\ proposals' \in Seq(Gov!Proposal) /\ DOMAIN proposals' = DOMAIN proposals
      /\ \A j \in DOMAIN proposals : /\ j # i => proposals'[j] = proposals[j]
                                     /\ proposals'[j].by = proposals[j].by
                                     /\ proposals'[j].call = proposals[j].call
  BY Updated DEF GovInv
<1>2. GovTyped' /\ ChainTyped'
  BY <1>1 DEF GovInv, GovTyped, ChainTyped, Gov!env
<1>3. OneEach' /\ OwnIsOwn' /\ WithinBounds'
  BY <1>1 DEF GovInv, OneEach, OwnIsOwn, IsOwn, WithinBounds, Upto
<1>4. IdsKnown'
  <2>1. \A t \in Task : govRet[t] = "ok" => id[t] # i
    BY DEF GovInv, IdsKnown
  <2> QED BY <1>1, <2>1 DEF GovInv, IdsKnown
<1> QED BY <1>2, <1>3, <1>4 DEF GovInv

\* A proposal of workflow k of task t, which is one it has begun and has none yet.
LEMMA Recorded ==
  ASSUME GovInv, NEW t \in Task, NEW k \in 1 .. MaxCalls, k <= govCalls[t],
         Gov!Record([by |-> t, call |-> k, yes |-> FALSE, st |-> "voting"]),
         \A i \in DOMAIN proposals : ~(proposals[i].by = t /\ proposals[i].call = k),
         govPool' \subseteq govPool,
         \A tx \in govPool' : tx.on = 0 => ~(tx.by = t /\ tx.call = k),
         UNCHANGED <<Gov!env, govPc, govCalls, id, govGuessed, ballots, govRet>>
  PROVE  GovInv'
<1> DEFINE p == [by |-> t, call |-> k, yes |-> FALSE, st |-> "voting"]
<1>0. PICK n : n = Len(proposals) + 1
  OBVIOUS
<1>1. p \in Gov!Proposal /\ p.by = t /\ p.call = k /\ proposals' = Append(proposals, p)
  BY DEF Gov!Proposal, Gov!Status, Gov!Record
<1> HIDE DEF p
<1>2. /\ proposals' \in Seq(Gov!Proposal) /\ DOMAIN proposals' = 1 .. n
      /\ \A i \in DOMAIN proposals : proposals'[i] = proposals[i]
      /\ proposals'[n] = p
  BY <1>0, <1>1, ProposalAppended DEF GovInv
<1>3. /\ Len(proposals) \in Nat /\ DOMAIN proposals = 1 .. Len(proposals)
      /\ \A i \in DOMAIN proposals : proposals[i] \in Gov!Proposal
  BY LenOfChain DEF GovInv
<1>4. n \notin DOMAIN proposals /\ DOMAIN proposals' = DOMAIN proposals \cup {n} /\ n \in Nat /\ n # 0
  BY <1>0, <1>2, <1>3
<1>5. govOwn' = IF k = govCalls[t] THEN [govOwn EXCEPT ![t] = n] ELSE govOwn
  BY <1>0 DEF Gov!Record
<1>6. govOwn[t] # 0 => k # govCalls[t]
  BY DEF GovInv, OwnIsOwn, IsOwn
<1>7. GovTyped' /\ ChainTyped'
  BY <1>2, <1>4, <1>5 DEF GovInv, GovTyped, ChainTyped, Gov!env
<1>8. OneEach'
  BY <1>1, <1>2, <1>4 DEF GovInv, OneEach
<1>9. OwnIsOwn'
  <2> SUFFICES ASSUME NEW u \in Task
               PROVE  /\ govOwn'[u] # 0 => govOwn'[u] \in DOMAIN proposals' /\ IsOwn(u, govOwn[u])'
                      /\ \A i \in DOMAIN proposals' : IsOwn(u, i)' => govOwn'[u] = i
    BY DEF OwnIsOwn
  <2>1. \A i \in DOMAIN proposals : IsOwn(u, i)' <=> IsOwn(u, i)
    BY <1>2 DEF IsOwn
  <2>2. IsOwn(u, n)' <=> u = t /\ k = govCalls[u]
    BY <1>1, <1>2 DEF IsOwn
  <2>3. CASE u = t /\ k = govCalls[u]
    <3>1. govOwn'[u] = n
      BY <1>5, <2>3 DEF GovInv, GovTyped
    <3>2. IsOwn(u, govOwn[u])'
      BY <2>2, <2>3, <3>1 DEF IsOwn
    <3>3. \A i \in DOMAIN proposals : ~IsOwn(u, i)
      BY <2>3 DEF IsOwn
    <3> QED BY <1>4, <2>1, <3>1, <3>2, <3>3
  <2>4. CASE ~(u = t /\ k = govCalls[u])
    <3>1. govOwn'[u] = govOwn[u]
      BY <1>5, <2>4 DEF GovInv, GovTyped
    <3>2. govOwn'[u] # 0 => govOwn'[u] \in DOMAIN proposals /\ IsOwn(u, govOwn[u])'
      BY <1>2, <3>1 DEF GovInv, OwnIsOwn, IsOwn
    <3>3. \A i \in DOMAIN proposals : IsOwn(u, i) => govOwn'[u] = i
      BY <3>1 DEF GovInv, OwnIsOwn
    <3> QED BY <1>4, <2>1, <2>2, <2>4, <3>2, <3>3
  <2> QED BY <2>3, <2>4
<1>10. IdsKnown'
  <2>1. \A u \in Task : govOwn[u] # 0 => govOwn'[u] = govOwn[u]
    BY <1>5, <1>6 DEF GovInv, GovTyped
  <2> QED BY <1>2, <1>4, <2>1 DEF GovInv, IdsKnown
<1>11. WithinBounds'
  BY DEF GovInv, WithinBounds, Upto
<1> QED BY <1>7, <1>8, <1>9, <1>10, <1>11 DEF GovInv

LEMMA GovCommitKeeps ==
  ASSUME GovInv, NEW tx \in govPool, Gov!Commit(tx)
  PROVE  GovInv'
<1>1. /\ tx \in [by : Task, call : 1 .. MaxCalls, on : Nat] /\ tx.call <= govCalls[tx.by]
      /\ govPool' = govPool \ {tx} /\ UNCHANGED <<Gov!env, govPc, govCalls, id, govGuessed, ballots, govRet>>
  BY DEF GovInv, ChainTyped, OneEach, Gov!Commit
<1>2. CASE UNCHANGED <<proposals, govOwn>>
  BY <1>1, <1>2, NothingPooled
<1>3. CASE tx.on = 0 /\ Gov!Record([by |-> tx.by, call |-> tx.call, yes |-> FALSE, st |-> "voting"])
  <2>1. \A i \in DOMAIN proposals : ~(proposals[i].by = tx.by /\ proposals[i].call = tx.call)
    BY <1>3 DEF GovInv, OneEach
  <2>2. \A x \in govPool' : x.on = 0 => ~(x.by = tx.by /\ x.call = tx.call)
    BY <1>1, <1>3 DEF GovInv, ChainTyped
  <2> QED BY <1>1, <1>3, <2>1, <2>2, Recorded
<1>4. CASE /\ tx.on # 0 /\ proposals[tx.on].st = "voting"
           /\ proposals' = [proposals EXCEPT ![tx.on].yes = TRUE] /\ UNCHANGED govOwn
  <2> DEFINE p == [proposals[tx.on] EXCEPT !.yes = TRUE]
  <2>1. tx.on \in DOMAIN proposals /\ proposals[tx.on] \in Gov!Proposal
    BY <1>4, LenOfChain DEF GovInv, IdsKnown
  <2>2. p \in Gov!Proposal /\ p.by = proposals[tx.on].by /\ p.call = proposals[tx.on].call
    BY <2>1 DEF Gov!Proposal
  <2>3. proposals' = [proposals EXCEPT ![tx.on] = p]
    BY <1>4
  <2> QED BY <1>1, <1>4, <2>1, <2>2, <2>3, CommitUpdate
<1> QED BY <1>2, <1>3, <1>4 DEF Gov!Commit

LEMMA TallyKeeps ==
  ASSUME GovInv, NEW i \in DOMAIN proposals, Gov!Tally(i)
  PROVE  GovInv'
<1>1. PICK st \in {"passed", "rejected"} : proposals' = [proposals EXCEPT ![i].st = st]
  BY DEF Gov!Tally
<1> DEFINE p == [proposals[i] EXCEPT !.st = st]
<1>2. proposals[i] \in Gov!Proposal
  BY LenOfChain DEF GovInv
<1>3. p \in Gov!Proposal /\ p.by = proposals[i].by /\ p.call = proposals[i].call
  BY <1>2 DEF Gov!Proposal, Gov!Status
<1>4. proposals' = [proposals EXCEPT ![i] = p]
  BY <1>1
<1>5. proposals[i].st = "voting" /\ UNCHANGED <<Gov!env, govPool, govPc, govCalls, govOwn, id, govGuessed, ballots, govRet>>
  BY DEF Gov!Tally
<1> QED BY <1>3, <1>4, <1>5, CommitUpdate

-----------------------------------------------------------------------------
(* The tasks.                                                              *)

\* A workflow begins: nothing of it is on the chain or on its way to it.
LEMMA GovEnterFacts ==
  ASSUME GovInv, NEW t \in Task, Gov!Enter(t)
  PROVE  /\ govCalls[t] + 1 \in 1 .. MaxCalls /\ govCalls' \in [Task -> 0 .. MaxCalls]
         /\ govCalls'[t] = govCalls[t] + 1 /\ \A u \in Task \ {t} : govCalls'[u] = govCalls[u]
         /\ Cardinality(Upto(govCalls')) <= MaxCalls
         /\ ballots' \in [Task -> 0 .. Validators] /\ ballots'[t] = 0
         /\ \A u \in Task \ {t} : ballots'[u] = ballots[u]
         /\ govPc[t] = "idle"
         /\ \A i \in DOMAIN proposals :
              /\ proposals[i].call <= govCalls'[proposals[i].by]
              /\ ~(proposals[i].by = t /\ proposals[i].call = govCalls'[t])
         /\ \A tx \in govPool : /\ tx.call <= govCalls'[tx.by]
                               /\ ~(tx.by = t /\ tx.call = govCalls'[t])
<1>1. /\ Cardinality(Upto(govCalls)) < MaxCalls /\ govCalls \in [Task -> 0 .. MaxCalls]
      /\ govCalls' = [govCalls EXCEPT ![t] = @ + 1] /\ ballots' = [ballots EXCEPT ![t] = 0]
      /\ govPc[t] = "idle" /\ ballots \in [Task -> 0 .. Validators]
  BY GovCount DEF Gov!Enter, Gov!Begun, Upto, GovInv, GovTyped
<1>2. /\ govCalls[t] + 1 \in 1 .. MaxCalls /\ govCalls' \in [Task -> 0 .. MaxCalls]
      /\ Cardinality(Upto(govCalls')) = Cardinality(Upto(govCalls)) + 1
  BY <1>1, OneMore
<1>3. Cardinality(Upto(govCalls')) <= MaxCalls
  BY <1>1, <1>2, UptoFinite, UseAssumption
<1>4. ballots' \in [Task -> 0 .. Validators]
  BY <1>1, UseAssumption
<1>5. /\ govCalls'[t] = govCalls[t] + 1 /\ \A u \in Task \ {t} : govCalls'[u] = govCalls[u]
      /\ ballots'[t] = 0 /\ \A u \in Task \ {t} : ballots'[u] = ballots[u]
  BY <1>1
<1>6. ASSUME NEW u \in Task, NEW k \in Nat, k <= govCalls[u]
      PROVE  k <= govCalls'[u] /\ ~(u = t /\ k = govCalls'[t])
  <2>1. govCalls[u] \in Nat
    BY <1>1
  <2> QED BY <1>5, <1>6, <2>1
<1>7. \A i \in DOMAIN proposals : /\ proposals[i].by \in Task /\ proposals[i].call \in Nat
                                 /\ proposals[i].call <= govCalls[proposals[i].by]
  BY LenOfChain DEF GovInv, OneEach, Gov!Proposal
<1>8. \A tx \in govPool : tx.by \in Task /\ tx.call \in Nat /\ tx.call <= govCalls[tx.by]
  BY DEF GovInv, OneEach, ChainTyped
<1> QED BY <1>1, <1>2, <1>3, <1>4, <1>5, <1>6, <1>7, <1>8

\* What a workflow leaves behind as it begins: at most a transaction of its own.
LEMMA GovBeginKeeps ==
  ASSUME GovInv, NEW t \in Task, Gov!Enter(t), UNCHANGED <<Gov!env, proposals>>,
         govPool' \subseteq govPool \cup {[by |-> t, call |-> govCalls[t] + 1, on |-> 0]},
         govOwn' = [govOwn EXCEPT ![t] = 0],
         NEW i \in {0, 1}, NEW g \in BOOLEAN, Gov!Know(t, i, g),
         NEW step \in {"idle", "find", "vote"}, govPc' = [govPc EXCEPT ![t] = step],
         NEW r \in {"none", "err"}, govRet' = [govRet EXCEPT ![t] = r],
         step = "vote" => g
  PROVE  GovInv'
<1> DEFINE new == [by |-> t, call |-> govCalls[t] + 1, on |-> 0]
<1>1. /\ govCalls[t] + 1 \in 1 .. MaxCalls /\ govCalls' \in [Task -> 0 .. MaxCalls]
      /\ govCalls'[t] = govCalls[t] + 1 /\ \A u \in Task \ {t} : govCalls'[u] = govCalls[u]
      /\ Cardinality(Upto(govCalls')) <= MaxCalls
      /\ ballots' \in [Task -> 0 .. Validators] /\ ballots'[t] = 0
      /\ \A u \in Task \ {t} : ballots'[u] = ballots[u]
      /\ govPc[t] = "idle"
  BY GovEnterFacts
<1>2. /\ \A j \in DOMAIN proposals :
           /\ proposals[j].call <= govCalls'[proposals[j].by]
           /\ ~(proposals[j].by = t /\ proposals[j].call = govCalls'[t])
      /\ \A tx \in govPool : tx.call <= govCalls'[tx.by] /\ ~(tx.by = t /\ tx.call = govCalls'[t])
  BY GovEnterFacts
<1>3. new \in [by : Task, call : 1 .. MaxCalls, on : Nat] /\ new.by = t /\ new.call = govCalls'[t] /\ new.on = 0
  BY <1>1
<1>4. \A tx \in govPool' : tx \in govPool \/ tx = new
  OBVIOUS
<1> HIDE DEF new
<1>5. GovTyped'
  <2>1. govOwn' \in [Task -> Nat] /\ id' \in [Task -> Nat] /\ govGuessed' \in [Task -> BOOLEAN]
    BY DEF GovInv, GovTyped, Gov!Know
  <2>2. /\ govPc' \in [Task -> {"idle", "find", "vote", "poll"}]
        /\ govRet' \in [Task -> {"none", "ok", "err"}]
    BY DEF GovInv, GovTyped
  <2> QED BY <1>1, <2>1, <2>2 DEF GovInv, GovTyped, Gov!env
<1>6. ChainTyped'
  BY <1>3, <1>4 DEF GovInv, ChainTyped
<1>7. OneEach'
  <2>1. \A tx \in govPool' : tx.call <= govCalls'[tx.by]
    BY <1>1, <1>2, <1>3, <1>4
  <2> QED BY <1>2, <1>3, <1>4, <2>1 DEF GovInv, OneEach
<1>8. OwnIsOwn'
  BY <1>1, <1>2 DEF GovInv, GovTyped, OwnIsOwn, IsOwn
<1>9. /\ govOwn'[t] = 0 /\ id'[t] = i /\ govGuessed'[t] = g /\ govPc'[t] = step /\ govRet'[t] = r
      /\ \A u \in Task \ {t} : /\ govOwn'[u] = govOwn[u] /\ id'[u] = id[u] /\ govGuessed'[u] = govGuessed[u]
                              /\ govPc'[u] = govPc[u] /\ govRet'[u] = govRet[u]
  BY DEF Gov!Know, GovInv, GovTyped
<1>10. IdsKnown'
  <2>1. \A tx \in govPool' : tx.on # 0 => tx.on \in DOMAIN proposals'
    BY <1>3, <1>4 DEF GovInv, IdsKnown
  <2> QED BY <1>9, <2>1 DEF GovInv, IdsKnown
<1>11. WithinBounds'
  BY <1>1, <1>9, UseAssumption DEF GovInv, WithinBounds
<1> QED BY <1>5, <1>6, <1>7, <1>8, <1>10, <1>11 DEF GovInv

LEMMA SubmitToldKeeps ==
  ASSUME GovInv, NEW t \in Task, Gov!SubmitTold(t)
  PROVE  GovInv'
<1> DEFINE p == [by |-> t, call |-> govCalls[t] + 1, yes |-> FALSE, st |-> "voting"]
<1>0. PICK n : n = Len(proposals) + 1
  OBVIOUS
<1>1. /\ govCalls[t] + 1 \in 1 .. MaxCalls /\ govCalls' \in [Task -> 0 .. MaxCalls]
      /\ govCalls'[t] = govCalls[t] + 1 /\ \A u \in Task \ {t} : govCalls'[u] = govCalls[u]
      /\ Cardinality(Upto(govCalls')) <= MaxCalls
      /\ ballots' \in [Task -> 0 .. Validators] /\ ballots'[t] = 0
      /\ \A u \in Task \ {t} : ballots'[u] = ballots[u]
  BY GovEnterFacts DEF Gov!SubmitTold
<1>2. /\ \A j \in DOMAIN proposals :
           /\ proposals[j].call <= govCalls'[proposals[j].by]
           /\ ~(proposals[j].by = t /\ proposals[j].call = govCalls'[t])
      /\ \A tx \in govPool : tx.call <= govCalls'[tx.by] /\ ~(tx.by = t /\ tx.call = govCalls'[t])
  BY GovEnterFacts DEF Gov!SubmitTold
<1>3. /\ p \in Gov!Proposal /\ p.by = t /\ p.call = govCalls'[t] /\ proposals' = Append(proposals, p)
      /\ UNCHANGED <<Gov!env, govPool>>
  BY <1>1 DEF Gov!SubmitTold, Gov!Proposal, Gov!Status
<1> HIDE DEF p
<1>4. /\ proposals' \in Seq(Gov!Proposal) /\ DOMAIN proposals' = 1 .. n
      /\ \A i \in DOMAIN proposals : proposals'[i] = proposals[i]
      /\ proposals'[n] = p
  BY <1>0, <1>3, ProposalAppended DEF GovInv
<1>5. n \notin DOMAIN proposals /\ DOMAIN proposals' = DOMAIN proposals \cup {n} /\ n \in Nat /\ n # 0
  BY <1>0, <1>4, LenOfChain DEF GovInv
<1>6. /\ govOwn' = [govOwn EXCEPT ![t] = n] /\ id' = [id EXCEPT ![t] = n]
      /\ govGuessed' = [govGuessed EXCEPT ![t] = FALSE]
      /\ govPc' = [govPc EXCEPT ![t] = "vote"] /\ govRet' = [govRet EXCEPT ![t] = "none"]
  BY <1>0 DEF Gov!SubmitTold, Gov!Know, Gov!Goto
<1>7. /\ govOwn'[t] = n /\ id'[t] = n /\ govPc'[t] = "vote" /\ govRet'[t] = "none"
      /\ \A u \in Task \ {t} : /\ govOwn'[u] = govOwn[u] /\ id'[u] = id[u] /\ govGuessed'[u] = govGuessed[u]
                              /\ govPc'[u] = govPc[u] /\ govRet'[u] = govRet[u]
  BY <1>6 DEF GovInv, GovTyped
<1>8. GovTyped' /\ ChainTyped'
  BY <1>1, <1>3, <1>4, <1>5, <1>6 DEF GovInv, GovTyped, ChainTyped, Gov!env
<1>9. OneEach'
  <2>1. \A i \in DOMAIN proposals' : proposals'[i].call <= govCalls'[proposals'[i].by]
    BY <1>1, <1>2, <1>3, <1>4, <1>5
  <2>2. \A i, j \in DOMAIN proposals' :
          proposals'[i].by = proposals'[j].by /\ proposals'[i].call = proposals'[j].call => i = j
    BY <1>2, <1>3, <1>4, <1>5 DEF GovInv, OneEach
  <2>3. \A tx \in govPool', i \in DOMAIN proposals' :
          tx.on = 0 => ~(proposals'[i].by = tx.by /\ proposals'[i].call = tx.call)
    BY <1>2, <1>3, <1>4, <1>5 DEF GovInv, OneEach
  <2> QED BY <1>2, <1>3, <2>1, <2>2, <2>3 DEF OneEach
<1>10. OwnIsOwn'
  <2> SUFFICES ASSUME NEW u \in Task
               PROVE  /\ govOwn'[u] # 0 => govOwn'[u] \in DOMAIN proposals' /\ IsOwn(u, govOwn[u])'
                      /\ \A i \in DOMAIN proposals' : IsOwn(u, i)' => govOwn'[u] = i
    BY DEF OwnIsOwn
  <2>1. CASE u = t
    BY <1>2, <1>3, <1>4, <1>5, <1>7, <2>1 DEF IsOwn
  <2>2. CASE u # t
    <3>1. govOwn'[u] = govOwn[u] /\ govCalls'[u] = govCalls[u] /\ ~IsOwn(u, n)'
      BY <1>1, <1>3, <1>4, <1>7, <2>2 DEF IsOwn
    <3>2. \A i \in DOMAIN proposals : IsOwn(u, i)' <=> IsOwn(u, i)
      BY <1>4, <3>1 DEF IsOwn
    <3>3. govOwn[u] # 0 => govOwn[u] \in DOMAIN proposals /\ IsOwn(u, govOwn[u])'
      BY <1>4, <3>1 DEF GovInv, OwnIsOwn, IsOwn
    <3>4. \A i \in DOMAIN proposals : IsOwn(u, i) => govOwn[u] = i
      BY DEF GovInv, OwnIsOwn
    <3> QED BY <1>5, <3>1, <3>2, <3>3, <3>4
  <2> QED BY <2>1, <2>2
<1>11. IdsKnown'
  <2>1. \A tx \in govPool' : tx.on # 0 => tx.on \in DOMAIN proposals'
    BY <1>3, <1>5 DEF GovInv, IdsKnown
  <2>2. ASSUME NEW u \in Task \ {t}
        PROVE  /\ id'[u] # 0 => id'[u] = 1 \/ id'[u] \in DOMAIN proposals'
               /\ govPc'[u] = "poll" => id'[u] \in DOMAIN proposals'
               /\ govPc'[u] \in {"vote", "poll"} /\ ~govGuessed'[u] => govOwn'[u] # 0 /\ id'[u] = govOwn'[u]
               /\ govRet'[u] = "ok" => /\ id'[u] \in DOMAIN proposals' /\ proposals'[id'[u]].st = "passed"
                                       /\ ~govGuessed'[u] => govOwn'[u] # 0 /\ id'[u] = govOwn'[u]
    <3>1. /\ id[u] # 0 => id[u] = 1 \/ id[u] \in DOMAIN proposals
          /\ govPc[u] = "poll" => id[u] \in DOMAIN proposals
          /\ govPc[u] \in {"vote", "poll"} /\ ~govGuessed[u] => govOwn[u] # 0 /\ id[u] = govOwn[u]
          /\ govRet[u] = "ok" => /\ id[u] \in DOMAIN proposals /\ proposals[id[u]].st = "passed"
                                 /\ ~govGuessed[u] => govOwn[u] # 0 /\ id[u] = govOwn[u]
      BY DEF GovInv, IdsKnown
    <3>2. /\ govOwn'[u] = govOwn[u] /\ id'[u] = id[u] /\ govGuessed'[u] = govGuessed[u]
          /\ govPc'[u] = govPc[u] /\ govRet'[u] = govRet[u]
      BY <1>7
    <3> QED BY <1>4, <1>5, <3>1, <3>2
  <2> QED BY <1>5, <1>7, <2>1, <2>2 DEF IdsKnown
<1>12. WithinBounds'
  BY <1>1, <1>7, UseAssumption DEF GovInv, WithinBounds
<1> QED BY <1>8, <1>9, <1>10, <1>11, <1>12 DEF GovInv

\* The later steps of a workflow: they learn an id, send votes or end it.
LEMMA GovLaterKeeps ==
  ASSUME GovInv, NEW t \in Task, govPc[t] # "idle", UNCHANGED <<Gov!env, proposals, govCalls, govOwn>>,
         id' \in [Task -> Nat], govGuessed' \in [Task -> BOOLEAN], ballots' \in [Task -> 0 .. Validators],
         NEW step \in {"idle", "find", "vote", "poll"}, govPc' = [govPc EXCEPT ![t] = step],
         NEW r \in {"none", "ok", "err"}, govRet' = [govRet EXCEPT ![t] = r],
         \A u \in Task \ {t} : id'[u] = id[u] /\ govGuessed'[u] = govGuessed[u] /\ ballots'[u] = ballots[u],
         govPool' \subseteq govPool \cup {[by |-> t, call |-> govCalls[t], on |-> id[t]]},
         govPool' # govPool => id[t] \in DOMAIN proposals,
         id'[t] # 0 => id'[t] = 1 \/ id'[t] \in DOMAIN proposals,
         step = "poll" \/ r = "ok" => id'[t] \in DOMAIN proposals,
         (step \in {"vote", "poll"} \/ r = "ok") /\ ~govGuessed'[t] => govOwn[t] # 0 /\ id'[t] = govOwn[t],
         r = "ok" => proposals[id'[t]].st = "passed",
         step \in {"find", "vote"} => ballots'[t] < Validators
  PROVE  GovInv'
<1> DEFINE new == [by |-> t, call |-> govCalls[t], on |-> id[t]]
<1>1. govCalls[t] \in 0 .. MaxCalls /\ id[t] \in Nat /\ govPc'[t] = step /\ govRet'[t] = r
      /\ \A u \in Task \ {t} : govPc'[u] = govPc[u] /\ govRet'[u] = govRet[u]
  BY DEF GovInv, GovTyped
<1>2. GovTyped'
  BY DEF GovInv, GovTyped, Gov!env
<1>3. new.by = t /\ new.call = govCalls[t] /\ new.on = id[t]
  OBVIOUS
<1>4. \A tx \in govPool' : \/ tx \in govPool
                           \/ tx = new /\ id[t] \in DOMAIN proposals
  OBVIOUS
<1>5. govCalls[t] # 0 /\ new \in [by : Task, call : 1 .. MaxCalls, on : Nat]
  BY <1>1 DEF GovInv, WithinBounds
<1> HIDE DEF new
<1>6. ChainTyped'
  BY <1>4, <1>5 DEF GovInv, ChainTyped
<1>7. id[t] \in DOMAIN proposals => id[t] # 0
  BY LenOfChain DEF GovInv
<1>8. OneEach'
  <2>1. \A tx \in govPool' : tx.call <= govCalls'[tx.by]
    BY <1>1, <1>3, <1>4 DEF GovInv, OneEach
  <2> QED BY <1>3, <1>4, <1>7, <2>1 DEF GovInv, OneEach
<1>9. OwnIsOwn'
  BY DEF GovInv, OwnIsOwn, IsOwn
<1>10. IdsKnown'
  <2>1. \A tx \in govPool' : tx.on # 0 => tx.on \in DOMAIN proposals'
    BY <1>3, <1>4 DEF GovInv, IdsKnown
  <2> QED BY <1>1, <2>1 DEF GovInv, IdsKnown
<1>11. WithinBounds'
  BY <1>1 DEF GovInv, WithinBounds, Upto
<1> QED BY <1>2, <1>6, <1>8, <1>9, <1>10, <1>11 DEF GovInv

LEMMA SubmitKeeps ==
  ASSUME GovInv, NEW t \in Task, Gov!SubmitFails(t) \/ Gov!SubmitUpgrade(t) \/ Gov!SubmitClient(t)
  PROVE  GovInv'
<1>1. CASE Gov!SubmitFails(t)
  BY <1>1, GovBeginKeeps DEF Gov!SubmitFails, Gov!Sent, Gov!Forget, Gov!End
<1>2. CASE Gov!SubmitUpgrade(t)
  BY <1>2, GovBeginKeeps DEF Gov!SubmitUpgrade, Gov!Sent, Gov!Forget, Gov!Goto
<1>3. CASE Gov!SubmitClient(t)
  BY <1>3, GovBeginKeeps DEF Gov!SubmitClient, Gov!Forget, Gov!Goto
<1> QED BY <1>1, <1>2, <1>3

LEMMA FindIdKeeps ==
  ASSUME GovInv, NEW t \in Task, Gov!FindId(t)
  PROVE  GovInv'
<1>1. /\ govPc[t] = "find" /\ UNCHANGED <<Gov!env, govPool, proposals, govCalls, govOwn, ballots>>
      /\ ballots[t] < Validators /\ ballots \in [Task -> 0 .. Validators]
      /\ id \in [Task -> Nat] /\ govGuessed \in [Task -> BOOLEAN] /\ govOwn[t] \in Nat
      /\ govOwn[t] # 0 => govOwn[t] \in DOMAIN proposals
      /\ id[t] # 0 => id[t] = 1 \/ id[t] \in DOMAIN proposals
  BY DEF Gov!FindId, GovInv, GovTyped, WithinBounds, OwnIsOwn, IdsKnown
<1>2. CASE govOwn[t] # 0 /\ Gov!Know(t, govOwn[t], FALSE) /\ Gov!Goto(t, "vote")
  <2>1. id' \in [Task -> Nat] /\ id'[t] = govOwn[t] /\ govGuessed' \in [Task -> BOOLEAN]
    BY <1>1, <1>2 DEF Gov!Know
  <2> QED BY <1>1, <1>2, <2>1, GovLaterKeeps DEF Gov!Know, Gov!Goto
<1>3. CASE Gov!Know(t, 1, TRUE) /\ Gov!Goto(t, "vote")
  <2>1. id' \in [Task -> Nat] /\ id'[t] = 1 /\ govGuessed' \in [Task -> BOOLEAN] /\ govGuessed'[t] = TRUE
    BY <1>1, <1>3 DEF Gov!Know
  <2> QED BY <1>1, <1>3, <2>1, GovLaterKeeps DEF Gov!Know, Gov!Goto
<1>4. CASE Gov!End(t, "err") /\ UNCHANGED <<id, govGuessed>>
  BY <1>1, <1>4, GovLaterKeeps DEF Gov!End
<1> QED BY <1>2, <1>3, <1>4 DEF Gov!FindId

LEMMA VoteKeeps ==
  ASSUME GovInv, NEW t \in Task, Gov!Vote(t)
  PROVE  GovInv'
<1>1. /\ govPc[t] = "vote" /\ UNCHANGED <<Gov!env, proposals, govCalls, govOwn, id, govGuessed>>
      /\ ballots[t] < Validators /\ ballots[t] \in 0 .. Validators /\ ballots \in [Task -> 0 .. Validators]
      /\ id \in [Task -> Nat] /\ govGuessed \in [Task -> BOOLEAN]
      /\ id[t] # 0 => id[t] = 1 \/ id[t] \in DOMAIN proposals
      /\ ~govGuessed[t] => govOwn[t] # 0 /\ id[t] = govOwn[t]
  BY DEF Gov!Vote, GovInv, GovTyped, WithinBounds, IdsKnown
<1>2. CASE /\ Gov!Votable(t)
           /\ govPool' \in {govPool, govPool \cup {[by |-> t, call |-> govCalls[t], on |-> id[t]]}}
           /\ ballots' = [ballots EXCEPT ![t] = @ + 1]
           /\ Gov!Goto(t, IF kind[t] = "upgrade by all" /\ ballots'[t] < Validators THEN "vote" ELSE "poll")
  <2>1. ballots' \in [Task -> 0 .. Validators] /\ ballots'[t] = ballots[t] + 1
    <3>1. ballots[t] + 1 \in 0 .. Validators
      BY <1>1, UseAssumption
    <3> QED BY <1>1, <1>2, <3>1
  <2>2. id[t] \in DOMAIN proposals
    BY <1>2 DEF Gov!Votable
  <2>3. PICK step \in {"vote", "poll"} : Gov!Goto(t, step) /\ (step = "vote" => ballots'[t] < Validators)
    BY <1>2
  <2> QED BY <1>1, <1>2, <2>1, <2>2, <2>3, GovLaterKeeps DEF Gov!Goto
<1>3. CASE UNCHANGED <<govPool, ballots>> /\ Gov!End(t, "err")
  BY <1>1, <1>3, GovLaterKeeps DEF Gov!End
<1> QED BY <1>2, <1>3 DEF Gov!Vote

LEMMA PollKeeps ==
  ASSUME GovInv, NEW t \in Task, Gov!PollPassed(t) \/ Gov!PollTimeout(t)
  PROVE  GovInv'
<1>1. /\ govPc[t] = "poll" /\ UNCHANGED <<Gov!env, govPool, proposals, govCalls, govOwn, id, govGuessed, ballots>>
      /\ ballots \in [Task -> 0 .. Validators]
      /\ id \in [Task -> Nat] /\ govGuessed \in [Task -> BOOLEAN]
      /\ id[t] \in DOMAIN proposals
      /\ ~govGuessed[t] => govOwn[t] # 0 /\ id[t] = govOwn[t]
  BY DEF Gov!PollPassed, Gov!PollTimeout, GovInv, GovTyped, IdsKnown
<1>2. CASE Gov!PollPassed(t)
  BY <1>1, <1>2, GovLaterKeeps DEF Gov!PollPassed, Gov!End
<1>3. CASE Gov!PollTimeout(t)
  BY <1>1, <1>3, GovLaterKeeps DEF Gov!PollTimeout, Gov!End
<1> QED BY <1>2, <1>3

LEMMA GovInvariant == Gov!Spec => []GovInv
<1>1. Gov!Init => GovInv
  <2> SUFFICES ASSUME Gov!Init
               PROVE  GovInv
    OBVIOUS
  <2>1. GovTyped
    BY UseAssumption DEF Gov!Init, GovTyped
  <2>2. ChainTyped /\ DOMAIN proposals = {} /\ govPool = {}
    BY DEF Gov!Init, ChainTyped
  <2>3. OneEach /\ OwnIsOwn /\ IdsKnown
    BY <2>2 DEF Gov!Init, OneEach, OwnIsOwn, IdsKnown
  <2>4. Upto(govCalls) = {}
    BY DEF Gov!Init, Upto
  <2>5. WithinBounds
    <3>1. Cardinality(Upto(govCalls)) = 0
      BY <2>4, FS_EmptySet
    <3>2. \A t \in Task : govPc[t] = "idle"
      BY DEF Gov!Init
    <3> QED BY <3>1, <3>2, UseAssumption DEF WithinBounds
  <2> QED BY <2>1, <2>2, <2>3, <2>5 DEF GovInv
<1>2. GovInv /\ [Gov!Next]_(Gov!vars) => GovInv'
  <2> SUFFICES ASSUME GovInv, [Gov!Next]_(Gov!vars)
               PROVE  GovInv'
    OBVIOUS
  <2>1. ASSUME NEW tx \in govPool, Gov!Commit(tx)
        PROVE  GovInv'
    BY <2>1, GovCommitKeeps
  <2>2. ASSUME NEW i \in DOMAIN proposals, Gov!Tally(i)
        PROVE  GovInv'
    BY <2>2, TallyKeeps
  <2>3. ASSUME NEW t \in Task, Gov!SubmitFails(t) \/ Gov!SubmitUpgrade(t) \/ Gov!SubmitClient(t)
        PROVE  GovInv'
    BY <2>3, SubmitKeeps
  <2>4. ASSUME NEW t \in Task, Gov!SubmitTold(t)
        PROVE  GovInv'
    BY <2>4, SubmitToldKeeps
  <2>5. ASSUME NEW t \in Task, Gov!FindId(t)
        PROVE  GovInv'
    BY <2>5, FindIdKeeps
  <2>6. ASSUME NEW t \in Task, Gov!Vote(t)
        PROVE  GovInv'
    BY <2>6, VoteKeeps
  <2>7. ASSUME NEW t \in Task, Gov!PollPassed(t) \/ Gov!PollTimeout(t)
        PROVE  GovInv'
    BY <2>7, PollKeeps
  <2>8. CASE UNCHANGED Gov!vars
    BY <2>8, NothingPooled DEF Gov!vars
  <2> QED BY <2>1, <2>2, <2>3, <2>4, <2>5, <2>6, <2>7, <2>8 DEF Gov!Next
<1> QED BY <1>1, <1>2, PTL DEF Gov!Spec

\* The chain has no more proposals than workflows were begun.
LEMMA FewProposals == ASSUME GovInv PROVE Len(proposals) <= MaxCalls
<1> DEFINE n == Len(proposals)
           g == [i \in 1 .. n |-> <<proposals[i].by, proposals[i].call>>]
<1>1. /\ n \in Nat /\ DOMAIN proposals = 1 .. n
      /\ \A i \in 1 .. n : proposals[i] \in Gov!Proposal
  BY LenOfChain DEF GovInv
<1>2. \A i \in 1 .. n : <<proposals[i].by, proposals[i].call>> \in Upto(govCalls)
  BY <1>1 DEF GovInv, OneEach, Gov!Proposal, Upto
<1>3. \A i, j \in 1 .. n : <<proposals[i].by, proposals[i].call>> = <<proposals[j].by, proposals[j].call>>
                             => i = j
  BY <1>1 DEF GovInv, OneEach
<1>4. g \in [1 .. n -> Upto(govCalls)] /\ \A i, j \in 1 .. n : g[i] = g[j] => i = j
  BY <1>2, <1>3
<1> HIDE DEF g
<1>5. n <= Cardinality(Upto(govCalls))
  BY <1>1, <1>4, OnePerCall
<1>6. Cardinality(Upto(govCalls)) <= MaxCalls /\ Cardinality(Upto(govCalls)) \in Nat
  BY UptoFinite DEF GovInv, WithinBounds
<1> QED BY <1>1, <1>5, <1>6, UseAssumption

LEMMA GovernanceTyped == Gov!Spec => []Gov!TypeOK
<1>1. GovInv => Gov!TypeOK
  <2> SUFFICES ASSUME GovInv
               PROVE  Gov!TypeOK
    OBVIOUS
  <2>1. Len(proposals) <= MaxCalls /\ DOMAIN proposals \subseteq 0 .. MaxCalls
    BY FewProposals, LenOfChain, UseAssumption DEF GovInv
  <2>2. govOwn \in [Task -> 0 .. MaxCalls]
    BY <2>1, UseAssumption DEF GovInv, GovTyped, OwnIsOwn
  <2>3. id \in [Task -> 0 .. MaxCalls]
    <3>1. \A t \in Task : id[t] \in 0 .. MaxCalls
      <4>1. \A t \in Task : id[t] = 0 \/ id[t] = 1 \/ id[t] \in DOMAIN proposals
        BY DEF GovInv, IdsKnown
      <4>2. 0 \in 0 .. MaxCalls /\ 1 \in 0 .. MaxCalls
        BY UseAssumption
      <4> QED BY <2>1, <4>1, <4>2
    <3> QED BY <3>1 DEF GovInv, GovTyped
  <2>4. govPool \subseteq Gov!TxOf
    <3> SUFFICES ASSUME NEW tx \in govPool
                 PROVE  tx \in Gov!TxOf
      OBVIOUS
    <3>1. tx.on \in 0 .. MaxCalls
      BY <2>1, UseAssumption DEF GovInv, IdsKnown
    <3> QED BY <3>1 DEF GovInv, ChainTyped, Gov!TxOf
  <2> QED BY <2>1, <2>2, <2>3, <2>4 DEF GovInv, GovTyped, ChainTyped, Gov!TypeOK
<1> QED BY <1>1, GovInvariant, PTL

\* Any number of tasks that run any number of workflows: one that ends with Ok
\* saw a proposal pass, and its own one unless it guessed the id where others
\* propose too, or proposed before (cosmos/governance.rs).
THEOREM OwnOnePasses == Gov!Spec => []PassedIsOwn
<1>1. GovInv => Gov!PassedIsOwn
  <2> SUFFICES ASSUME GovInv, NEW t \in Task, govRet[t] = "ok"
               PROVE  /\ proposals[id[t]].st = "passed"
                      /\ ~govGuessed[t] => id[t] = govOwn[t]
                      /\ (govCalls[t] = 1 /\ \A i \in DOMAIN proposals : proposals[i].by = t)
                           => id[t] = govOwn[t]
    BY DEF Gov!PassedIsOwn
  <2>1. /\ id[t] \in DOMAIN proposals /\ proposals[id[t]].st = "passed"
        /\ ~govGuessed[t] => id[t] = govOwn[t]
    BY DEF GovInv, IdsKnown
  <2>2. ASSUME govCalls[t] = 1, \A i \in DOMAIN proposals : proposals[i].by = t
        PROVE  id[t] = govOwn[t]
    <3>1. proposals[id[t]].call = govCalls[t]
      <4>1. /\ proposals[id[t]].call \in 1 .. MaxCalls
            /\ proposals[id[t]].call <= govCalls[proposals[id[t]].by]
        BY <2>1, LenOfChain DEF GovInv, OneEach, Gov!Proposal
      <4> QED BY <2>1, <2>2, <4>1, UseAssumption
    <3>2. IsOwn(t, id[t])
      BY <2>1, <2>2, <3>1 DEF IsOwn
    <3> QED BY <2>1, <3>2 DEF GovInv, OwnIsOwn
  <2> QED BY <2>1, <2>2
<1> QED BY <1>1, GovInvariant, PTL DEF PassedIsOwn

-----------------------------------------------------------------------------
(* Contracts: TypeOK and RunsOwnCode of Contracts.                         *)

\* Cardinality as the instance knows it.
LEMMA ConCount == \A S : Con!Cardinality(S) = Cardinality(S)
  BY DEF Con!Cardinality, Cardinality

-----------------------------------------------------------------------------
(* The invariant.                                                          *)

CodeRec     == [by : Task, nth : 1 .. MaxCalls]
ContractRec == [code : Nat, by : Task, nth : 1 .. MaxCalls]
Tx          == [do : {"store", "instantiate", "execute"}, by : Task, nth : 1 .. MaxCalls, on : Nat]

\* TypeOK but for the ids, which go up to the number of attempts.
ConTyped ==
  /\ tells \in BOOLEAN
  /\ conPc \in [Task -> {"idle", "stored", "sent", "ready"}] /\ stores \in [Task -> 0 .. MaxCalls]
  /\ own \in [Task -> Nat] /\ code \in [Task -> Nat]
  /\ made \in [Task -> Nat] /\ contract \in [Task -> Nat]
  /\ guessed \in [Task -> BOOLEAN] /\ conRet \in [Task -> {"none", "ok", "err"}]

WorldTyped ==
  /\ codes \in Seq(CodeRec) /\ contracts \in Seq(ContractRec)
  /\ conPool \subseteq Tx /\ ran \subseteq (Task \X Nat)

\* Nothing belongs to an attempt that has not begun.
Numbered ==
  /\ \A i \in DOMAIN codes : codes[i].nth <= stores[codes[i].by]
  /\ \A i \in DOMAIN contracts : contracts[i].nth <= stores[contracts[i].by]
  /\ \A tx \in conPool : tx.nth <= stores[tx.by]

\* An attempt stores and instantiates at most once.
OneSent ==
  \A x, y \in conPool : x.do = y.do /\ x.do # "execute" /\ x.by = y.by /\ x.nth = y.nth => x = y

OneCode ==
  /\ \A i, j \in DOMAIN codes : codes[i].by = codes[j].by /\ codes[i].nth = codes[j].nth => i = j
  /\ \A tx \in conPool, i \in DOMAIN codes :
       tx.do = "store" => ~(codes[i].by = tx.by /\ codes[i].nth = tx.nth)

IsCode(t, i) == codes[i].by = t /\ codes[i].nth = stores[t]
IsMade(t, i) == contracts[i].by = t /\ contracts[i].nth = stores[t]
NoneSent(t, k) == \A tx \in conPool : ~(tx.do = "instantiate" /\ tx.by = t /\ tx.nth = k)
IsOnItsWay(t, tx) == tx.do = "instantiate" /\ tx.by = t /\ tx.nth = stores[t]

OneContract ==
  /\ \A i, j \in DOMAIN contracts :
       contracts[i].by = contracts[j].by /\ contracts[i].nth = contracts[j].nth => i = j
  /\ \A tx \in conPool, i \in DOMAIN contracts :
       tx.do = "instantiate" => ~(contracts[i].by = tx.by /\ contracts[i].nth = tx.nth)
  /\ \A t \in Task : conPc[t] = "stored" => /\ \A i \in DOMAIN contracts : ~IsMade(t, i)
                                            /\ \A tx \in conPool : ~IsOnItsWay(t, tx)

\* The ids the chain gave are those of the attempt.
OwnCode ==
  \A t \in Task :
    /\ own[t] # 0 => own[t] \in DOMAIN codes /\ IsCode(t, own[t])
    /\ \A i \in DOMAIN codes : IsCode(t, i) => own[t] = i

MadeContract ==
  \A t \in Task :
    /\ made[t] # 0 => made[t] \in DOMAIN contracts /\ IsMade(t, made[t])
    /\ \A i \in DOMAIN contracts : IsMade(t, i) => made[t] = i

\* A code that was not guessed is the one of the attempt.
Sure(t) == ~guessed[t] => own[t] # 0 /\ code[t] = own[t]

\* What the attempt instantiates, and has instantiated, is the code it goes on
\* with; what it executes is its contract.
Follows ==
  /\ \A tx \in conPool : tx.do = "instantiate" =>
       /\ tx.on \in DOMAIN codes
       /\ tx.nth = stores[tx.by] => tx.on = code[tx.by] /\ Sure(tx.by)
  /\ \A i \in DOMAIN contracts :
       /\ contracts[i].code \in DOMAIN codes
       /\ contracts[i].nth = stores[contracts[i].by] =>
            contracts[i].code = code[contracts[i].by] /\ Sure(contracts[i].by)
  /\ \A t \in Task :
       /\ conPc[t] # "idle" => Sure(t) /\ stores[t] # 0
       /\ conPc[t] = "ready" => contract[t] # 0
       /\ contract[t] # 0 => contract[t] = made[t]
       /\ code[t] # 0 => code[t] = 1 \/ code[t] \in DOMAIN codes

RunsOwn ==
  /\ \A tx \in conPool : tx.do = "store" => tx.on = 0
  /\ \A tx \in conPool : tx.do = "execute" =>
       tx.on \in DOMAIN contracts /\ contracts[tx.on].by = tx.by
  /\ \A p \in ran : p[2] \in DOMAIN contracts /\ contracts[p[2]].by = p[1]

ConInv ==
  /\ ConTyped /\ WorldTyped /\ Numbered /\ OneSent /\ OneCode /\ OneContract
  /\ OwnCode /\ MadeContract /\ Follows /\ RunsOwn
  /\ Cardinality(Upto(stores)) <= MaxCalls

LEMMA Lengths ==
  ASSUME WorldTyped
  PROVE  /\ Len(codes) \in Nat /\ DOMAIN codes = 1 .. Len(codes)
         /\ \A i \in DOMAIN codes : codes[i] \in CodeRec
         /\ Len(contracts) \in Nat /\ DOMAIN contracts = 1 .. Len(contracts)
         /\ \A i \in DOMAIN contracts : contracts[i] \in ContractRec
  BY LenProperties, ElementOfSeq DEF WorldTyped

\* A sequence is one over every set its elements are in.
LEMMA Retyped ==
  ASSUME NEW S, NEW s \in Seq(S), NEW T, \A i \in DOMAIN s : s[i] \in T
  PROVE  s \in Seq(T)
  BY LenProperties

\* What is appended comes last, and all else stays.
LEMMA Appended ==
  ASSUME NEW S, NEW s \in Seq(S), NEW e \in S
  PROVE  /\ Append(s, e) \in Seq(S)
         /\ DOMAIN Append(s, e) = DOMAIN s \cup {Len(s) + 1}
         /\ \A i \in DOMAIN s : Append(s, e)[i] = s[i]
         /\ Append(s, e)[Len(s) + 1] = e
         /\ Len(s) + 1 \in Nat \ {0} /\ Len(s) + 1 \notin DOMAIN s
<1>1. /\ Append(s, e) \in Seq(S) /\ Len(Append(s, e)) = Len(s) + 1
      /\ \A i \in 1 .. Len(s) : Append(s, e)[i] = s[i]
      /\ Append(s, e)[Len(s) + 1] = e
  BY AppendProperties
<1>2. Len(s) \in Nat /\ DOMAIN s = 1 .. Len(s) /\ DOMAIN Append(s, e) = 1 .. Len(s) + 1
  BY <1>1, LenProperties
<1> QED BY <1>1, <1>2

\* A transaction leaves the queue, at most with an execution of it.
LEMMA ConCommitNothing ==
  ASSUME ConInv, conPool' \subseteq conPool,
         \A p \in ran' : \/ p \in ran
                         \/ \E tx \in conPool : tx.do = "execute" /\ p = <<tx.by, tx.on>>,
         UNCHANGED <<tells, codes, contracts, conPc, stores, own, code, guessed, made, contract, conRet>>
  PROVE  ConInv'
<1>1. ConTyped' /\ OwnCode' /\ MadeContract' /\ Cardinality(Upto(stores))' <= MaxCalls
  BY DEF ConInv, ConTyped, OwnCode, MadeContract, IsCode, IsMade, Upto
<1>2. Numbered' /\ OneSent' /\ OneCode'
  BY DEF ConInv, Numbered, OneSent, OneCode
<1>3. OneContract' /\ Follows'
  BY DEF ConInv, OneContract, IsMade, IsOnItsWay, Follows, Sure
<1>4. ASSUME NEW p \in ran'
      PROVE  p \in Task \X Nat /\ p[2] \in DOMAIN contracts /\ contracts[p[2]].by = p[1]
  BY DEF ConInv, WorldTyped, RunsOwn, Tx
<1>5. WorldTyped' /\ RunsOwn'
  BY <1>4 DEF ConInv, WorldTyped, RunsOwn
<1> QED BY <1>1, <1>2, <1>3, <1>5 DEF ConInv

\* The chain records a code of attempt k of t, which has none.
LEMMA StoredKeeps ==
  ASSUME ConInv, NEW t \in Task, NEW k \in 1 .. MaxCalls, k <= stores[t],
         codes' = Append(codes, [by |-> t, nth |-> k]),
         own' = IF k = stores[t] THEN [own EXCEPT ![t] = Len(codes) + 1] ELSE own,
         \A i \in DOMAIN codes : ~(codes[i].by = t /\ codes[i].nth = k),
         conPool' \subseteq conPool,
         \A tx \in conPool' : tx.do = "store" => ~(tx.by = t /\ tx.nth = k),
         UNCHANGED <<tells, contracts, ran, conPc, stores, code, guessed, made, contract, conRet>>
  PROVE  ConInv'
<1> DEFINE r == [by |-> t, nth |-> k]
<1>0. PICK n : n = Len(codes) + 1
  OBVIOUS
<1>1. r \in CodeRec /\ r.by = t /\ r.nth = k /\ codes \in Seq(CodeRec)
  BY DEF CodeRec, ConInv, WorldTyped
<1>2. codes' = Append(codes, r)
  OBVIOUS
<1> HIDE DEF r
<1>3. /\ codes' \in Seq(CodeRec) /\ DOMAIN codes' = DOMAIN codes \cup {n}
      /\ \A i \in DOMAIN codes : codes'[i] = codes[i]
      /\ codes'[n] = r /\ n \in Nat \ {0} /\ n \notin DOMAIN codes
  BY <1>0, <1>1, <1>2, Appended
<1>4. own' = IF k = stores[t] THEN [own EXCEPT ![t] = n] ELSE own
  BY <1>0
<1>5. own \in [Task -> Nat] /\ (own[t] # 0 => k # stores[t])
  <2>1. own \in [Task -> Nat]
    BY DEF ConInv, ConTyped
  <2>2. own[t] # 0 => own[t] \in DOMAIN codes /\ codes[own[t]].by = t /\ codes[own[t]].nth = stores[t]
    BY DEF ConInv, OwnCode, IsCode
  <2> QED BY <2>1, <2>2
<1>6. \A u \in Task : own'[u] = IF u = t /\ k = stores[t] THEN n ELSE own[u]
  BY <1>4, <1>5
<1>7. ConTyped' /\ WorldTyped'
  BY <1>3, <1>4 DEF ConInv, ConTyped, WorldTyped
<1>8. Numbered' /\ OneSent'
  BY <1>1, <1>3 DEF ConInv, Numbered, OneSent
<1>9. OneCode'
  BY <1>1, <1>3 DEF ConInv, OneCode
<1>10. OneContract' /\ MadeContract' /\ RunsOwn' /\ Cardinality(Upto(stores))' <= MaxCalls
  BY DEF ConInv, OneContract, MadeContract, IsMade, IsOnItsWay, RunsOwn, Upto
<1>11. OwnCode'
  <2> SUFFICES ASSUME NEW u \in Task
               PROVE  /\ own'[u] # 0 => own'[u] \in DOMAIN codes' /\ IsCode(u, own[u])'
                      /\ \A i \in DOMAIN codes' : IsCode(u, i)' => own'[u] = i
    BY DEF OwnCode
  <2>1. \A i \in DOMAIN codes : IsCode(u, i)' <=> IsCode(u, i)
    BY <1>3 DEF IsCode
  <2>2. IsCode(u, n)' <=> u = t /\ k = stores[u]
    BY <1>1, <1>3 DEF IsCode
  <2>3. CASE u = t /\ k = stores[u]
    <3>1. own'[u] = n
      BY <1>6, <2>3
    <3>2. IsCode(u, own[u])'
      BY <1>1, <1>3, <2>3, <3>1 DEF IsCode
    <3>3. \A i \in DOMAIN codes : ~IsCode(u, i)
      BY <2>3 DEF IsCode
    <3> QED BY <1>3, <2>1, <3>1, <3>2, <3>3
  <2>4. CASE ~(u = t /\ k = stores[u])
    <3>1. own'[u] = own[u]
      BY <1>6, <2>4
    <3>2. own'[u] # 0 => own'[u] \in DOMAIN codes /\ IsCode(u, own[u])'
      BY <1>3, <3>1 DEF ConInv, OwnCode, IsCode
    <3>3. \A i \in DOMAIN codes : IsCode(u, i) => own'[u] = i
      BY <3>1 DEF ConInv, OwnCode
    <3> QED BY <1>3, <2>1, <2>2, <2>4, <3>2, <3>3
  <2> QED BY <2>3, <2>4
<1>12. Follows'
  <2>1. \A u \in Task : Sure(u) => Sure(u)'
    BY <1>5, <1>6 DEF Sure
  <2>2. \A i \in DOMAIN contracts : contracts[i].by \in Task
    BY Lengths DEF ConInv, ContractRec
  <2>3. \A tx \in conPool' : tx.by \in Task
    BY DEF ConInv, WorldTyped, Tx
  <2> QED BY <1>3, <2>1, <2>2, <2>3 DEF ConInv, Follows
<1> QED BY <1>7, <1>8, <1>9, <1>10, <1>11, <1>12 DEF ConInv

\* The chain makes a contract of attempt k of t, which has none, in a block or at
\* once: then the task knows it.
LEMMA MadeKeeps ==
  ASSUME ConInv, NEW t \in Task, NEW k \in 1 .. MaxCalls, k <= stores[t], NEW c \in DOMAIN codes,
         contracts' = Append(contracts, [code |-> c, by |-> t, nth |-> k]),
         made' = IF k = stores[t] THEN [made EXCEPT ![t] = Len(contracts) + 1] ELSE made,
         \A i \in DOMAIN contracts : ~(contracts[i].by = t /\ contracts[i].nth = k),
         conPool' \subseteq conPool,
         NoneSent(t, k)',
         k = stores[t] => c = code[t] /\ Sure(t),
         conPc' \in [Task -> {"idle", "stored", "sent", "ready"}], contract' \in [Task -> Nat],
         conRet' \in [Task -> {"none", "ok", "err"}],
         \A u \in Task \ {t} : conPc'[u] = conPc[u] /\ contract'[u] = contract[u],
         \/ conPc'[t] = conPc[t] /\ contract'[t] = contract[t] /\ (conPc[t] = "stored" => k # stores[t])
         \/ k = stores[t] /\ conPc'[t] = "ready" /\ contract'[t] = Len(contracts) + 1,
         UNCHANGED <<tells, codes, ran, stores, own, code, guessed>>
  PROVE  ConInv'
<1> DEFINE r == [code |-> c, by |-> t, nth |-> k]
<1>0. PICK n : n = Len(contracts) + 1
  OBVIOUS
<1>1. /\ r \in ContractRec /\ r.by = t /\ r.nth = k /\ r.code = c /\ contracts \in Seq(ContractRec)
  BY Lengths DEF ContractRec, ConInv, WorldTyped
<1>2. contracts' = Append(contracts, r)
  OBVIOUS
<1> HIDE DEF r
<1>3. /\ contracts' \in Seq(ContractRec) /\ DOMAIN contracts' = DOMAIN contracts \cup {n}
      /\ \A i \in DOMAIN contracts : contracts'[i] = contracts[i]
      /\ contracts'[n] = r /\ n \in Nat \ {0} /\ n \notin DOMAIN contracts
  BY <1>0, <1>1, <1>2, Appended
<1>4. made' = IF k = stores[t] THEN [made EXCEPT ![t] = n] ELSE made
  BY <1>0
<1>5. made \in [Task -> Nat] /\ (made[t] # 0 => k # stores[t])
  <2>1. made \in [Task -> Nat]
    BY DEF ConInv, ConTyped
  <2>2. made[t] # 0 => /\ made[t] \in DOMAIN contracts
                       /\ contracts[made[t]].by = t /\ contracts[made[t]].nth = stores[t]
    BY DEF ConInv, MadeContract, IsMade
  <2> QED BY <2>1, <2>2
<1>6. \A u \in Task : made'[u] = IF u = t /\ k = stores[t] THEN n ELSE made[u]
  BY <1>4, <1>5
<1>7. ConTyped' /\ WorldTyped'
  BY <1>3, <1>4, <1>5 DEF ConInv, ConTyped, WorldTyped
<1>8. Numbered' /\ OneSent' /\ OneCode' /\ OwnCode'
  BY <1>1, <1>3 DEF ConInv, Numbered, OneSent, OneCode, OwnCode, IsCode
<1>9. \A u \in Task, i \in DOMAIN contracts : IsMade(u, i)' <=> IsMade(u, i)
  BY <1>3 DEF IsMade
<1>10. \A u \in Task : IsMade(u, n)' <=> u = t /\ k = stores[u]
  BY <1>1, <1>3 DEF IsMade
<1>11. OneContract'
  <2>1. \A i, j \in DOMAIN contracts' :
          contracts'[i].by = contracts'[j].by /\ contracts'[i].nth = contracts'[j].nth => i = j
    <3>1. \A i, j \in DOMAIN contracts :
            contracts[i].by = contracts[j].by /\ contracts[i].nth = contracts[j].nth => i = j
      BY DEF ConInv, OneContract
    <3>2. \A i \in DOMAIN contracts' :
            \/ i \in DOMAIN contracts /\ contracts'[i] = contracts[i]
               /\ ~(contracts[i].by = t /\ contracts[i].nth = k)
            \/ i = n /\ contracts'[i].by = t /\ contracts'[i].nth = k
      BY <1>1, <1>3
    <3>3. ASSUME NEW i \in DOMAIN contracts', NEW j \in DOMAIN contracts',
                 contracts'[i].by = contracts'[j].by, contracts'[i].nth = contracts'[j].nth
          PROVE  i = j
      <4>1. i \in DOMAIN contracts /\ j \in DOMAIN contracts => i = j
        BY <3>1, <3>2, <3>3, <1>3
      <4>2. i = n => j = n
        BY <1>3, <3>2, <3>3
      <4>3. j = n => i = n
        BY <1>3, <3>2, <3>3
      <4> QED BY <1>3, <4>1, <4>2, <4>3
    <3> QED BY <3>3
  <2>2. \A tx \in conPool', i \in DOMAIN contracts' :
          tx.do = "instantiate" => ~(contracts'[i].by = tx.by /\ contracts'[i].nth = tx.nth)
    BY <1>1, <1>3 DEF ConInv, OneContract, NoneSent
  <2>3. ASSUME NEW u \in Task, conPc'[u] = "stored"
        PROVE  conPc[u] = "stored" /\ ~(u = t /\ k = stores[u])
    BY <2>3
  <2>4. ASSUME NEW u \in Task, conPc'[u] = "stored"
        PROVE  /\ \A i \in DOMAIN contracts' : ~IsMade(u, i)'
               /\ \A tx \in conPool' : ~IsOnItsWay(u, tx)'
    <3>1. /\ \A i \in DOMAIN contracts : ~IsMade(u, i)
          /\ \A tx \in conPool : ~IsOnItsWay(u, tx)
      BY <2>3, <2>4 DEF ConInv, OneContract
    <3> QED BY <1>3, <1>9, <1>10, <2>3, <2>4, <3>1 DEF IsOnItsWay
  <2> QED BY <2>1, <2>2, <2>4 DEF OneContract
<1>12. MadeContract'
  <2> SUFFICES ASSUME NEW u \in Task
               PROVE  /\ made'[u] # 0 => made'[u] \in DOMAIN contracts' /\ IsMade(u, made[u])'
                      /\ \A i \in DOMAIN contracts' : IsMade(u, i)' => made'[u] = i
    BY DEF MadeContract
  <2>1. CASE u = t /\ k = stores[u]
    <3>1. made'[u] = n
      BY <1>6, <2>1
    <3>2. IsMade(u, made[u])'
      BY <1>1, <1>3, <2>1, <3>1 DEF IsMade
    <3>3. \A i \in DOMAIN contracts : ~IsMade(u, i)
      BY <2>1 DEF IsMade
    <3> QED BY <1>3, <1>9, <3>1, <3>2, <3>3
  <2>2. CASE ~(u = t /\ k = stores[u])
    <3>1. made'[u] = made[u]
      BY <1>6, <2>2
    <3>2. made'[u] # 0 => made'[u] \in DOMAIN contracts /\ IsMade(u, made[u])'
      BY <1>3, <3>1 DEF ConInv, MadeContract, IsMade
    <3>3. \A i \in DOMAIN contracts : IsMade(u, i) => made'[u] = i
      BY <3>1 DEF ConInv, MadeContract
    <3> QED BY <1>3, <1>9, <1>10, <2>2, <3>2, <3>3
  <2> QED BY <2>1, <2>2
<1>13. Follows'
  <2>1. \A tx \in conPool' : tx.do = "instantiate" =>
          /\ tx.on \in DOMAIN codes'
          /\ tx.nth = stores'[tx.by] => tx.on = code'[tx.by] /\ Sure(tx.by)'
    BY DEF ConInv, Follows, Sure
  <2>2. \A i \in DOMAIN contracts' :
          /\ contracts'[i].code \in DOMAIN codes'
          /\ contracts'[i].nth = stores'[contracts'[i].by] =>
               contracts'[i].code = code'[contracts'[i].by] /\ Sure(contracts[i].by)'
    <3>1. \A i \in DOMAIN contracts :
            /\ contracts[i].code \in DOMAIN codes
            /\ contracts[i].nth = stores[contracts[i].by] =>
                 contracts[i].code = code[contracts[i].by] /\ Sure(contracts[i].by)
      BY DEF ConInv, Follows
    <3>2. ASSUME NEW i \in DOMAIN contracts
          PROVE  /\ contracts'[i].code \in DOMAIN codes'
                 /\ contracts'[i].nth = stores'[contracts'[i].by] =>
                      contracts'[i].code = code'[contracts'[i].by] /\ Sure(contracts[i].by)'
      BY <1>3, <3>1 DEF Sure
    <3>3. /\ contracts'[n].code \in DOMAIN codes'
          /\ contracts'[n].nth = stores'[contracts'[n].by] =>
               contracts'[n].code = code'[contracts'[n].by] /\ Sure(contracts[n].by)'
      BY <1>1, <1>3 DEF Sure
    <3> QED BY <1>3, <3>2, <3>3
  <2>3. ASSUME NEW u \in Task
        PROVE  /\ conPc'[u] # "idle" => Sure(u)' /\ stores'[u] # 0
               /\ conPc'[u] = "ready" => contract'[u] # 0
               /\ contract'[u] # 0 => contract'[u] = made'[u]
               /\ code'[u] # 0 => code'[u] = 1 \/ code'[u] \in DOMAIN codes'
    <3>1. /\ conPc[u] # "idle" => Sure(u) /\ stores[u] # 0
          /\ conPc[u] = "ready" => contract[u] # 0
          /\ contract[u] # 0 => contract[u] = made[u]
          /\ code[u] # 0 => code[u] = 1 \/ code[u] \in DOMAIN codes
      BY DEF ConInv, Follows
    <3>2. CASE conPc'[u] = conPc[u] /\ contract'[u] = contract[u]
      <4>1. contract[u] # 0 => made'[u] = made[u]
        BY <1>5, <1>6, <3>1
      <4> QED BY <3>1, <3>2, <4>1 DEF Sure
    <3>3. CASE u = t /\ k = stores[t] /\ conPc'[t] = "ready" /\ contract'[t] = n
      BY <1>3, <1>6, <3>1, <3>3 DEF Sure
    <3> QED BY <1>0, <3>2, <3>3
  <2> QED BY <2>1, <2>2, <2>3 DEF Follows
<1>14. RunsOwn' /\ Cardinality(Upto(stores))' <= MaxCalls
  BY <1>3 DEF ConInv, RunsOwn, Upto
<1> QED BY <1>7, <1>8, <1>11, <1>12, <1>13, <1>14 DEF ConInv

LEMMA ConCommitKeeps ==
  ASSUME ConInv, NEW tx \in conPool, Con!Commit(tx)
  PROVE  ConInv'
<1>1. /\ tx \in Tx /\ tx.nth <= stores[tx.by] /\ conPool' = conPool \ {tx}
      /\ UNCHANGED <<tells, stores, conPc, code, guessed, contract, conRet>>
  BY DEF ConInv, WorldTyped, Numbered, Con!Commit
<1>2. PICK t \in Task, k \in 1 .. MaxCalls, c \in Nat : t = tx.by /\ k = tx.nth /\ c = tx.on
  BY <1>1 DEF Tx
<1>3. /\ conPc' \in [Task -> {"idle", "stored", "sent", "ready"}] /\ contract' \in [Task -> Nat]
      /\ conRet' \in [Task -> {"none", "ok", "err"}]
  BY <1>1 DEF ConInv, ConTyped
<1>4. CASE tx.do = "store"
  <2>1. \/ Con!Stored(tx.by, tx.nth) /\ UNCHANGED <<contracts, made, ran>>
        \/ UNCHANGED <<codes, own, contracts, made, ran>>
    BY <1>4 DEF Con!Commit
  <2>2. CASE UNCHANGED <<codes, own, contracts, made, ran>>
    BY <1>1, <2>2, ConCommitNothing
  <2>3. CASE Con!Stored(tx.by, tx.nth) /\ UNCHANGED <<contracts, made, ran>>
    <3>1. \A i \in DOMAIN codes : ~(codes[i].by = t /\ codes[i].nth = k)
      BY <1>2, <1>4 DEF ConInv, OneCode
    <3>2. \A x \in conPool' : x.do = "store" => ~(x.by = t /\ x.nth = k)
      BY <1>1, <1>2, <1>4 DEF ConInv, OneSent
    <3>3. /\ codes' = Append(codes, [by |-> t, nth |-> k])
          /\ own' = IF k = stores[t] THEN [own EXCEPT ![t] = Len(codes) + 1] ELSE own
      BY <1>1, <1>2, <2>3 DEF Con!Stored
    <3>4. conPool' \subseteq conPool /\ k <= stores[t]
      BY <1>1, <1>2
    <3> QED BY <1>1, <2>3, <3>1, <3>2, <3>3, <3>4, StoredKeeps
  <2> QED BY <2>1, <2>2, <2>3
<1>5. CASE tx.do = "instantiate"
  <2>1. \/ Con!Instantiated(tx.by, tx.nth, tx.on) /\ UNCHANGED <<codes, own, ran>>
        \/ UNCHANGED <<codes, own, contracts, made, ran>>
    BY <1>5 DEF Con!Commit
  <2>2. CASE UNCHANGED <<codes, own, contracts, made, ran>>
    BY <1>1, <2>2, ConCommitNothing
  <2>3. CASE Con!Instantiated(tx.by, tx.nth, tx.on) /\ UNCHANGED <<codes, own, ran>>
    <3>1. \A i \in DOMAIN contracts : ~(contracts[i].by = t /\ contracts[i].nth = k)
      BY <1>2, <1>5 DEF ConInv, OneContract
    <3>2. NoneSent(t, k)'
      BY <1>1, <1>2, <1>5 DEF ConInv, OneSent, NoneSent
    <3>3. c \in DOMAIN codes /\ (k = stores[t] => c = code[t] /\ Sure(t))
      BY <1>2, <1>5 DEF ConInv, Follows
    <3>4. conPc[t] = "stored" => k # stores[t]
      BY <1>2, <1>5 DEF ConInv, OneContract, IsOnItsWay
    <3>5. /\ contracts' = Append(contracts, [code |-> c, by |-> t, nth |-> k])
          /\ made' = IF k = stores[t] THEN [made EXCEPT ![t] = Len(contracts) + 1] ELSE made
      BY <1>2, <2>3 DEF Con!Instantiated
    <3>6. conPool' \subseteq conPool /\ k <= stores[t]
      BY <1>1, <1>2
    <3>7. /\ conPc' = conPc /\ contract' = contract
          /\ UNCHANGED <<tells, codes, ran, stores, own, code, guessed>>
      BY <1>1, <2>3
    <3>8. \A u \in Task \ {t} : conPc'[u] = conPc[u] /\ contract'[u] = contract[u]
      BY <3>7
    <3>9. conPc'[t] = conPc[t] /\ contract'[t] = contract[t] /\ (conPc[t] = "stored" => k # stores[t])
      BY <3>4, <3>7
    <3> QED BY <1>3, <3>1, <3>2, <3>3, <3>5, <3>6, <3>7, <3>8, <3>9, MadeKeeps
  <2> QED BY <2>1, <2>2, <2>3
<1>6. CASE tx.do = "execute"
  <2>1. ran' \in {ran, ran \cup {<<tx.by, tx.on>>}} /\ UNCHANGED <<codes, own, contracts, made>>
    BY <1>6 DEF Con!Commit
  <2> QED BY <1>1, <1>6, <2>1, ConCommitNothing
<1>7. tx.do \in {"store", "instantiate", "execute"}
  BY <1>1 DEF Tx
<1> QED BY <1>4, <1>5, <1>6, <1>7

\* An attempt begins: nothing of it is on the chain or on its way to it.
LEMMA ConEnterFacts ==
  ASSUME ConInv, NEW t \in Task, Con!Enter(t)
  PROVE  /\ stores[t] + 1 \in 1 .. MaxCalls /\ stores' \in [Task -> 0 .. MaxCalls]
         /\ stores'[t] = stores[t] + 1 /\ \A u \in Task \ {t} : stores'[u] = stores[u]
         /\ Cardinality(Upto(stores')) <= MaxCalls
         /\ made' \in [Task -> Nat] /\ contract' \in [Task -> Nat]
         /\ made'[t] = 0 /\ contract'[t] = 0
         /\ \A u \in Task \ {t} : made'[u] = made[u] /\ contract'[u] = contract[u]
         /\ \A i \in DOMAIN codes : /\ codes[i].nth <= stores'[codes[i].by]
                                   /\ ~(codes[i].by = t /\ codes[i].nth = stores'[t])
         /\ \A i \in DOMAIN contracts : /\ contracts[i].nth <= stores'[contracts[i].by]
                                       /\ ~(contracts[i].by = t /\ contracts[i].nth = stores'[t])
         /\ \A tx \in conPool : /\ tx.nth <= stores'[tx.by]
                               /\ ~(tx.by = t /\ tx.nth = stores'[t])
<1>1. /\ Cardinality(Upto(stores)) < MaxCalls /\ stores \in [Task -> 0 .. MaxCalls]
      /\ stores' = [stores EXCEPT ![t] = @ + 1]
      /\ made' = [made EXCEPT ![t] = 0] /\ contract' = [contract EXCEPT ![t] = 0]
      /\ made \in [Task -> Nat] /\ contract \in [Task -> Nat]
  BY ConCount DEF Con!Enter, Con!Begun, Upto, ConInv, ConTyped
<1>2. /\ stores[t] + 1 \in 1 .. MaxCalls /\ stores' \in [Task -> 0 .. MaxCalls]
      /\ Cardinality(Upto(stores')) = Cardinality(Upto(stores)) + 1
  BY <1>1, OneMore
<1>3. Cardinality(Upto(stores')) <= MaxCalls
  BY <1>1, <1>2, UptoFinite, UseAssumption
<1>4. /\ made' \in [Task -> Nat] /\ contract' \in [Task -> Nat] /\ made'[t] = 0 /\ contract'[t] = 0
      /\ \A u \in Task \ {t} : made'[u] = made[u] /\ contract'[u] = contract[u]
  BY <1>1
<1>5. stores'[t] = stores[t] + 1 /\ \A u \in Task \ {t} : stores'[u] = stores[u]
  BY <1>1
<1>6. ASSUME NEW u \in Task, NEW k \in Nat, k <= stores[u]
      PROVE  k <= stores'[u] /\ ~(u = t /\ k = stores'[t])
  <2>1. stores[u] \in Nat
    BY <1>1
  <2> QED BY <1>5, <1>6, <2>1
<1>7. \A i \in DOMAIN codes : /\ codes[i].by \in Task /\ codes[i].nth \in Nat
                             /\ codes[i].nth <= stores[codes[i].by]
  BY Lengths DEF ConInv, Numbered, CodeRec
<1>8. \A i \in DOMAIN contracts : /\ contracts[i].by \in Task /\ contracts[i].nth \in Nat
                                 /\ contracts[i].nth <= stores[contracts[i].by]
  BY Lengths DEF ConInv, Numbered, ContractRec
<1>9. \A tx \in conPool : tx.by \in Task /\ tx.nth \in Nat /\ tx.nth <= stores[tx.by]
  BY DEF ConInv, Numbered, WorldTyped, Tx
<1> QED BY <1>2, <1>3, <1>4, <1>5, <1>6, <1>7, <1>8, <1>9

\* What it leaves behind as it begins: a code, or at most a transaction of its own.
LEMMA ConBeginKeeps ==
  ASSUME ConInv, NEW t \in Task, Con!Enter(t), UNCHANGED <<tells, contracts, ran>>,
         NEW new, new = [do |-> "store", by |-> t, nth |-> stores[t] + 1, on |-> 0],
         conPool' \subseteq conPool \cup {new},
         codes' \in Seq(CodeRec), DOMAIN codes \subseteq DOMAIN codes',
         \A i \in DOMAIN codes : codes'[i] = codes[i],
         \A i \in DOMAIN codes' \ DOMAIN codes :
           i = own'[t] /\ codes'[i].by = t /\ codes'[i].nth = stores[t] + 1 /\ conPool' = conPool,
         own'[t] # 0 => own'[t] \in DOMAIN codes' \ DOMAIN codes,
         own' \in [Task -> Nat], code' \in [Task -> Nat], guessed' \in [Task -> BOOLEAN],
         \A u \in Task \ {t} : own'[u] = own[u] /\ code'[u] = code[u] /\ guessed'[u] = guessed[u],
         code'[t] # 0 => code'[t] = 1 \/ code'[t] \in DOMAIN codes',
         NEW step \in {"idle", "stored"}, conPc' = [conPc EXCEPT ![t] = step],
         NEW r \in {"none", "err"}, conRet' = [conRet EXCEPT ![t] = r],
         step = "stored" /\ ~guessed'[t] => own'[t] # 0 /\ code'[t] = own'[t]
  PROVE  ConInv'
<1>1. /\ stores[t] + 1 \in 1 .. MaxCalls /\ stores' \in [Task -> 0 .. MaxCalls]
      /\ stores'[t] = stores[t] + 1 /\ \A u \in Task \ {t} : stores'[u] = stores[u]
      /\ Cardinality(Upto(stores')) <= MaxCalls
      /\ made' \in [Task -> Nat] /\ contract' \in [Task -> Nat]
      /\ made'[t] = 0 /\ contract'[t] = 0
      /\ \A u \in Task \ {t} : made'[u] = made[u] /\ contract'[u] = contract[u]
  BY ConEnterFacts
<1>2. /\ \A i \in DOMAIN codes : /\ codes[i].nth <= stores'[codes[i].by]
                                /\ ~(codes[i].by = t /\ codes[i].nth = stores'[t])
      /\ \A i \in DOMAIN contracts : /\ contracts[i].nth <= stores'[contracts[i].by]
                                    /\ ~(contracts[i].by = t /\ contracts[i].nth = stores'[t])
      /\ \A tx \in conPool : /\ tx.nth <= stores'[tx.by]
                            /\ ~(tx.by = t /\ tx.nth = stores'[t])
  BY ConEnterFacts
<1>3. /\ new \in Tx /\ new.do = "store" /\ new.by = t /\ new.nth = stores'[t] /\ new.on = 0
  BY <1>1 DEF Tx
<1>4. \A tx \in conPool' : tx \in conPool \/ tx = new
  OBVIOUS
<1>5. \A i \in DOMAIN codes' : \/ i \in DOMAIN codes /\ codes'[i] = codes[i]
                               \/ i = own'[t] /\ codes'[i].by = t /\ codes'[i].nth = stores'[t]
                                  /\ i \notin DOMAIN codes /\ conPool' = conPool
  BY <1>1
<1>6. /\ conPc'[t] = step /\ \A u \in Task \ {t} : conPc'[u] = conPc[u]
  BY DEF ConInv, ConTyped
<1>7. ConTyped'
  <2>1. /\ conPc' \in [Task -> {"idle", "stored", "sent", "ready"}]
        /\ conRet' \in [Task -> {"none", "ok", "err"}]
    BY DEF ConInv, ConTyped
  <2> QED BY <1>1, <2>1 DEF ConInv, ConTyped
<1>8. WorldTyped'
  BY <1>3, <1>4 DEF ConInv, WorldTyped
<1>9. stores'[t] <= stores'[t]
  BY <1>1
<1>10. Numbered'
  <2>1. \A tx \in conPool' : tx.nth <= stores'[tx.by]
    BY <1>2, <1>3, <1>4, <1>9
  <2>2. \A i \in DOMAIN codes' : codes'[i].nth <= stores'[codes'[i].by]
    BY <1>2, <1>5, <1>9
  <2> QED BY <1>2, <2>1, <2>2 DEF Numbered
<1>11. OneSent'
  BY <1>2, <1>3, <1>4 DEF ConInv, OneSent
<1>12. OneCode'
  <2>1. \A i, j \in DOMAIN codes' :
          codes'[i].by = codes'[j].by /\ codes'[i].nth = codes'[j].nth => i = j
    <3>1. \A i, j \in DOMAIN codes : codes[i].by = codes[j].by /\ codes[i].nth = codes[j].nth => i = j
      BY DEF ConInv, OneCode
    <3>2. \A i \in DOMAIN codes : ~(codes'[i].by = t /\ codes'[i].nth = stores'[t])
      BY <1>2
    <3>3. ASSUME NEW i \in DOMAIN codes', NEW j \in DOMAIN codes',
                 codes'[i].by = codes'[j].by, codes'[i].nth = codes'[j].nth
          PROVE  i = j
      <4>1. i \in DOMAIN codes /\ j \in DOMAIN codes => i = j
        BY <3>1, <3>3
      <4>2. i \notin DOMAIN codes => i = own'[t] /\ j = own'[t]
        BY <1>5, <3>2, <3>3
      <4>3. j \notin DOMAIN codes => i = own'[t] /\ j = own'[t]
        BY <1>5, <3>2, <3>3
      <4> QED BY <4>1, <4>2, <4>3
    <3> QED BY <3>3
  <2>2. \A tx \in conPool', i \in DOMAIN codes' :
          tx.do = "store" => ~(codes'[i].by = tx.by /\ codes'[i].nth = tx.nth)
    <3>1. \A tx \in conPool, i \in DOMAIN codes :
            tx.do = "store" => ~(codes[i].by = tx.by /\ codes[i].nth = tx.nth)
      BY DEF ConInv, OneCode
    <3>2. ASSUME NEW tx \in conPool', NEW i \in DOMAIN codes', tx.do = "store"
          PROVE  ~(codes'[i].by = tx.by /\ codes'[i].nth = tx.nth)
      <4>1. CASE i \in DOMAIN codes
        <5>1. tx \in conPool => ~(codes[i].by = tx.by /\ codes[i].nth = tx.nth)
          BY <3>1, <3>2, <4>1
        <5>2. ~(codes[i].by = new.by /\ codes[i].nth = new.nth)
          BY <1>2, <1>3, <4>1
        <5> QED BY <1>4, <4>1, <5>1, <5>2
      <4>2. CASE i \notin DOMAIN codes
        BY <1>2, <1>5, <4>2
      <4> QED BY <4>1, <4>2
    <3> QED BY <3>2
  <2> QED BY <2>1, <2>2 DEF OneCode
<1>13. OneContract'
  <2>1. \A i, j \in DOMAIN contracts' :
          contracts'[i].by = contracts'[j].by /\ contracts'[i].nth = contracts'[j].nth => i = j
    BY DEF ConInv, OneContract
  <2>2. \A tx \in conPool', i \in DOMAIN contracts' :
          tx.do = "instantiate" => ~(contracts'[i].by = tx.by /\ contracts'[i].nth = tx.nth)
    BY <1>3, <1>4 DEF ConInv, OneContract
  <2>3. ASSUME NEW u \in Task, conPc'[u] = "stored"
        PROVE  /\ \A i \in DOMAIN contracts' : ~IsMade(u, i)'
               /\ \A tx \in conPool' : ~IsOnItsWay(u, tx)'
    <3>1. CASE u = t
      BY <1>2, <1>3, <1>4, <3>1 DEF IsMade, IsOnItsWay
    <3>2. CASE u # t
      <4>1. /\ \A i \in DOMAIN contracts : ~IsMade(u, i)
            /\ \A tx \in conPool : ~IsOnItsWay(u, tx)
        BY <1>6, <2>3, <3>2 DEF ConInv, OneContract
      <4> QED BY <1>1, <1>3, <1>4, <3>2, <4>1 DEF IsMade, IsOnItsWay
    <3> QED BY <3>1, <3>2
  <2> QED BY <2>1, <2>2, <2>3 DEF OneContract
<1>14. OwnCode'
  <2> SUFFICES ASSUME NEW u \in Task
               PROVE  /\ own'[u] # 0 => own'[u] \in DOMAIN codes' /\ IsCode(u, own[u])'
                      /\ \A i \in DOMAIN codes' : IsCode(u, i)' => own'[u] = i
    BY DEF OwnCode
  <2>1. CASE u = t
    BY <1>1, <1>2, <1>5, <2>1 DEF IsCode
  <2>2. CASE u # t
    <3>1. own'[u] = own[u] /\ stores'[u] = stores[u]
      BY <1>1, <2>2
    <3>2. own[u] # 0 => own[u] \in DOMAIN codes /\ codes[own[u]].by = u /\ codes[own[u]].nth = stores[u]
      BY DEF ConInv, OwnCode, IsCode
    <3>3. \A i \in DOMAIN codes : codes[i].by = u /\ codes[i].nth = stores[u] => own[u] = i
      BY DEF ConInv, OwnCode, IsCode
    <3> QED BY <1>5, <2>2, <3>1, <3>2, <3>3 DEF IsCode
  <2> QED BY <2>1, <2>2
<1>15. MadeContract'
  <2> SUFFICES ASSUME NEW u \in Task
               PROVE  /\ made'[u] # 0 => made'[u] \in DOMAIN contracts' /\ IsMade(u, made[u])'
                      /\ \A i \in DOMAIN contracts' : IsMade(u, i)' => made'[u] = i
    BY DEF MadeContract
  <2>1. CASE u = t
    BY <1>1, <1>2, <2>1 DEF IsMade
  <2>2. CASE u # t
    <3>1. made'[u] = made[u] /\ stores'[u] = stores[u]
      BY <1>1, <2>2
    <3> QED BY <3>1 DEF ConInv, MadeContract, IsMade
  <2> QED BY <2>1, <2>2
<1>16. Follows'
  <2>1. \A u \in Task \ {t} : Sure(u)' <=> Sure(u)
    BY DEF Sure
  <2>2. ASSUME NEW tx \in conPool', tx.do = "instantiate"
        PROVE  /\ tx.on \in DOMAIN codes'
               /\ tx.nth = stores'[tx.by] => tx.on = code'[tx.by] /\ Sure(tx.by)'
    <3>1. tx \in conPool /\ tx.by \in Task
      BY <1>3, <1>4, <2>2 DEF ConInv, WorldTyped, Tx
    <3>2. /\ tx.on \in DOMAIN codes
          /\ tx.nth = stores[tx.by] => tx.on = code[tx.by] /\ Sure(tx.by)
      BY <2>2, <3>1 DEF ConInv, Follows
    <3> QED BY <1>1, <1>2, <2>1, <3>1, <3>2
  <2>3. ASSUME NEW i \in DOMAIN contracts
        PROVE  /\ contracts'[i].code \in DOMAIN codes'
               /\ contracts'[i].nth = stores'[contracts'[i].by] =>
                    contracts'[i].code = code'[contracts'[i].by] /\ Sure(contracts[i].by)'
    <3>1. contracts[i].by \in Task
      BY Lengths DEF ConInv, ContractRec
    <3>2. /\ contracts[i].code \in DOMAIN codes
          /\ contracts[i].nth = stores[contracts[i].by] =>
               contracts[i].code = code[contracts[i].by] /\ Sure(contracts[i].by)
      BY DEF ConInv, Follows
    <3> QED BY <1>1, <1>2, <2>1, <3>1, <3>2
  <2>4. ASSUME NEW u \in Task
        PROVE  /\ conPc'[u] # "idle" => Sure(u)' /\ stores'[u] # 0
               /\ conPc'[u] = "ready" => contract'[u] # 0
               /\ contract'[u] # 0 => contract'[u] = made'[u]
               /\ code'[u] # 0 => code'[u] = 1 \/ code'[u] \in DOMAIN codes'
    <3>1. CASE u = t
      BY <1>1, <1>6, <3>1 DEF Sure
    <3>2. CASE u # t
      <4>1. /\ conPc[u] # "idle" => Sure(u) /\ stores[u] # 0
            /\ conPc[u] = "ready" => contract[u] # 0
            /\ contract[u] # 0 => contract[u] = made[u]
            /\ code[u] # 0 => code[u] = 1 \/ code[u] \in DOMAIN codes
        BY DEF ConInv, Follows
      <4> QED BY <1>1, <1>6, <2>1, <3>2, <4>1
    <3> QED BY <3>1, <3>2
  <2> QED BY <2>2, <2>3, <2>4 DEF Follows
<1>17. RunsOwn'
  BY <1>3, <1>4 DEF ConInv, RunsOwn
<1> QED BY <1>1, <1>7, <1>8, <1>10, <1>11, <1>12, <1>13, <1>14, <1>15, <1>16, <1>17 DEF ConInv

LEMMA StoreKeeps ==
  ASSUME ConInv, NEW t \in Task, Con!StoreGuesses(t) \/ Con!StoreFails(t)
  PROVE  ConInv'
<1> DEFINE new == [do |-> "store", by |-> t, nth |-> stores[t] + 1, on |-> 0]
<1>1. /\ Con!Enter(t) /\ UNCHANGED <<tells, contracts, ran, codes>>
      /\ own' = [own EXCEPT ![t] = 0]
  BY DEF Con!StoreGuesses, Con!StoreFails
<1>2. /\ own \in [Task -> Nat] /\ code \in [Task -> Nat] /\ guessed \in [Task -> BOOLEAN]
      /\ codes \in Seq(CodeRec)
      /\ code[t] # 0 => code[t] = 1 \/ code[t] \in DOMAIN codes
  BY DEF ConInv, ConTyped, WorldTyped, Follows
<1>3. Con!Sent(t, "store", 0) = new
  BY <1>1, ConEnterFacts DEF Con!Sent
<1>4. conPool' \subseteq conPool \cup {new}
  BY <1>3 DEF Con!StoreGuesses, Con!StoreFails
<1>5. own' \in [Task -> Nat] /\ own'[t] = 0 /\ \A u \in Task \ {t} : own'[u] = own[u]
  BY <1>1, <1>2
<1> HIDE DEF new
<1>6. new = [do |-> "store", by |-> t, nth |-> stores[t] + 1, on |-> 0]
  BY DEF new
<1>7. CASE Con!StoreGuesses(t)
  <2>1. /\ code' \in [Task -> Nat] /\ guessed' \in [Task -> BOOLEAN] /\ code'[t] = 1 /\ guessed'[t] = TRUE
        /\ \A u \in Task \ {t} : code'[u] = code[u] /\ guessed'[u] = guessed[u]
    BY <1>2, <1>7 DEF Con!StoreGuesses
  <2>2. conPc' = [conPc EXCEPT ![t] = "stored"] /\ conRet' = [conRet EXCEPT ![t] = "none"]
    BY <1>7 DEF Con!StoreGuesses, Con!Goto
  <2> QED BY <1>1, <1>2, <1>4, <1>5, <1>6, <2>1, <2>2, ConBeginKeeps
<1>8. CASE Con!StoreFails(t)
  <2>1. UNCHANGED <<code, guessed>>
    BY <1>8 DEF Con!StoreFails
  <2>2. conPc' = [conPc EXCEPT ![t] = "idle"] /\ conRet' = [conRet EXCEPT ![t] = "err"]
    BY <1>8 DEF Con!StoreFails, Con!Fail
  <2> QED BY <1>1, <1>2, <1>4, <1>5, <1>6, <2>1, <2>2, ConBeginKeeps
<1> QED BY <1>7, <1>8

LEMMA StoreToldKeeps ==
  ASSUME ConInv, NEW t \in Task, Con!StoreTold(t)
  PROVE  ConInv'
<1> DEFINE new == [do |-> "store", by |-> t, nth |-> stores[t] + 1, on |-> 0]
           p == [by |-> t, nth |-> stores[t] + 1]
<1>0. PICK n : n = Len(codes) + 1
  OBVIOUS
<1>1. /\ Con!Enter(t) /\ UNCHANGED <<tells, conPool, contracts, ran>>
      /\ codes' = Append(codes, p)
  BY DEF Con!StoreTold, Con!Stored
<1>2. stores[t] + 1 \in 1 .. MaxCalls /\ stores'[t] = stores[t] + 1
  BY <1>1, ConEnterFacts
<1>3. p \in CodeRec /\ p.by = t /\ p.nth = stores[t] + 1 /\ codes \in Seq(CodeRec)
  BY <1>2 DEF CodeRec, ConInv, WorldTyped
<1>4. new = [do |-> "store", by |-> t, nth |-> stores[t] + 1, on |-> 0]
  OBVIOUS
<1> HIDE DEF new, p
<1>5. /\ codes' \in Seq(CodeRec) /\ DOMAIN codes' = DOMAIN codes \cup {n}
      /\ \A i \in DOMAIN codes : codes'[i] = codes[i]
      /\ codes'[n] = p /\ n \in Nat \ {0} /\ n \notin DOMAIN codes
  BY <1>0, <1>1, <1>3, Appended
<1>6. /\ own' = [own EXCEPT ![t] = n] /\ code' = [code EXCEPT ![t] = n]
      /\ guessed' = [guessed EXCEPT ![t] = FALSE]
      /\ conPc' = [conPc EXCEPT ![t] = "stored"] /\ conRet' = [conRet EXCEPT ![t] = "none"]
  BY <1>0, <1>2 DEF Con!StoreTold, Con!Stored, Con!Goto
<1>7. /\ own' \in [Task -> Nat] /\ code' \in [Task -> Nat] /\ guessed' \in [Task -> BOOLEAN]
      /\ own'[t] = n /\ code'[t] = n /\ guessed'[t] = FALSE
      /\ \A u \in Task \ {t} : own'[u] = own[u] /\ code'[u] = code[u] /\ guessed'[u] = guessed[u]
  BY <1>5, <1>6 DEF ConInv, ConTyped
<1>8. \A i \in DOMAIN codes' \ DOMAIN codes :
        i = own'[t] /\ codes'[i].by = t /\ codes'[i].nth = stores[t] + 1 /\ conPool' = conPool
  BY <1>1, <1>3, <1>5, <1>7
<1>9. conPool' \subseteq conPool \cup {new} /\ DOMAIN codes \subseteq DOMAIN codes'
  BY <1>1, <1>5
<1>10. own'[t] # 0 /\ own'[t] \in DOMAIN codes' \ DOMAIN codes /\ code'[t] \in DOMAIN codes' /\ code'[t] = own'[t]
  BY <1>5, <1>7
<1> QED BY <1>1, <1>4, <1>5, <1>6, <1>7, <1>8, <1>9, <1>10, ConBeginKeeps

\* The later steps of an attempt that make nothing on the chain: they send a
\* transaction, learn the contract or end.
LEMMA ConLaterKeeps ==
  ASSUME ConInv, NEW t \in Task, conPc[t] # "idle",
         UNCHANGED <<tells, codes, contracts, ran, stores, own, code, guessed, made>>,
         NEW do \in {"instantiate", "execute"}, NEW on,
         conPool' \subseteq conPool \cup {[do |-> do, by |-> t, nth |-> stores[t], on |-> on]},
         conPool' # conPool /\ do = "instantiate" =>
           conPc[t] = "stored" /\ on = code[t] /\ on \in DOMAIN codes,
         conPool' # conPool /\ do = "execute" => on = contract[t] /\ contract[t] # 0,
         NEW step \in {"idle", "sent", "ready"}, conPc' = [conPc EXCEPT ![t] = step],
         NEW r \in {"none", "ok", "err"}, conRet' = [conRet EXCEPT ![t] = r],
         contract' \in [Task -> Nat], \A u \in Task \ {t} : contract'[u] = contract[u],
         contract'[t] \in {contract[t], made[t]}, step = "ready" => contract'[t] # 0
  PROVE  ConInv'
<1> DEFINE new == [do |-> do, by |-> t, nth |-> stores[t], on |-> on]
<1>1. /\ Sure(t) /\ stores[t] # 0
      /\ contract[t] # 0 => contract[t] = made[t]
      /\ stores[t] \in 0 .. MaxCalls /\ code[t] \in Nat /\ contract[t] \in Nat
      /\ made[t] # 0 => made[t] \in DOMAIN contracts /\ contracts[made[t]].by = t
  BY DEF ConInv, ConTyped, Follows, MadeContract, IsMade
<1>2. /\ new.do = do /\ new.by = t /\ new.nth = stores[t] /\ new.on = on
      /\ \A tx \in conPool' : tx \in conPool \/ tx = new
  OBVIOUS
<1>3. new \in conPool' => \/ conPool' = conPool
                          \/ do = "instantiate" /\ conPc[t] = "stored" /\ on = code[t] /\ on \in DOMAIN codes
                          \/ do = "execute" /\ on = made[t] /\ made[t] # 0
  BY <1>1
<1>4. new \in conPool' => new \in Tx
  <2>1. CASE conPool' = conPool
    BY <2>1 DEF ConInv, WorldTyped
  <2>2. CASE on \in Nat
    BY <1>1, <2>2 DEF Tx
  <2> QED BY <1>1, <1>3, <2>1, <2>2
<1> HIDE DEF new
<1>5. /\ conPc'[t] = step /\ \A u \in Task \ {t} : conPc'[u] = conPc[u]
  BY DEF ConInv, ConTyped
<1>6. ConTyped' /\ WorldTyped'
  BY <1>2, <1>4 DEF ConInv, ConTyped, WorldTyped
<1>7. Numbered'
  BY <1>1, <1>2 DEF ConInv, Numbered
<1>8. conPc[t] = "stored" => /\ \A i \in DOMAIN contracts : ~(contracts[i].by = t /\ contracts[i].nth = stores[t])
                             /\ \A tx \in conPool : ~(tx.do = "instantiate" /\ tx.by = t /\ tx.nth = stores[t])
  BY DEF ConInv, OneContract, IsMade, IsOnItsWay
<1>10. OneSent' /\ OneCode' /\ RunsOwn'
  <2>1. CASE conPool' = conPool
    BY <2>1 DEF ConInv, OneSent, OneCode, RunsOwn
  <2>2. CASE new \notin conPool'
    BY <1>2, <2>2 DEF ConInv, OneSent, OneCode, RunsOwn
  <2>3. CASE new \in conPool' /\ do = "instantiate" /\ conPc[t] = "stored"
    BY <1>2, <1>8, <2>3 DEF ConInv, OneSent, OneCode, RunsOwn
  <2>4. CASE new \in conPool' /\ do = "execute" /\ on = made[t] /\ made[t] # 0
    BY <1>1, <1>2, <2>4 DEF ConInv, OneSent, OneCode, RunsOwn
  <2> QED BY <1>3, <2>1, <2>2, <2>3, <2>4
<1>11. OneContract'
  <2>1. \A i, j \in DOMAIN contracts' :
          contracts'[i].by = contracts'[j].by /\ contracts'[i].nth = contracts'[j].nth => i = j
    BY DEF ConInv, OneContract
  <2>2. \A tx \in conPool', i \in DOMAIN contracts' :
          tx.do = "instantiate" => ~(contracts'[i].by = tx.by /\ contracts'[i].nth = tx.nth)
    <3>1. \A tx \in conPool, i \in DOMAIN contracts :
            tx.do = "instantiate" => ~(contracts[i].by = tx.by /\ contracts[i].nth = tx.nth)
      BY DEF ConInv, OneContract
    <3>2. CASE conPool' = conPool
      BY <3>1, <3>2
    <3>3. CASE conPool' # conPool
      BY <1>2, <1>8, <3>1, <3>3
    <3> QED BY <3>2, <3>3
  <2>3. ASSUME NEW u \in Task, conPc'[u] = "stored"
        PROVE  /\ \A i \in DOMAIN contracts' : ~IsMade(u, i)'
               /\ \A tx \in conPool' : ~IsOnItsWay(u, tx)'
    <3>1. u # t /\ conPc[u] = "stored"
      BY <1>5, <2>3
    <3>2. /\ \A i \in DOMAIN contracts : ~IsMade(u, i)
          /\ \A tx \in conPool : ~IsOnItsWay(u, tx)
      BY <3>1 DEF ConInv, OneContract
    <3> QED BY <1>2, <3>1, <3>2 DEF IsMade, IsOnItsWay
  <2> QED BY <2>1, <2>2, <2>3 DEF OneContract
<1>12. OwnCode' /\ MadeContract'
  BY DEF ConInv, OwnCode, MadeContract, IsCode, IsMade
<1>13. Follows'
  <2>1. \A u \in Task : Sure(u)' <=> Sure(u)
    BY DEF Sure
  <2>2. \A tx \in conPool' : tx.do = "instantiate" =>
          /\ tx.on \in DOMAIN codes'
          /\ tx.nth = stores'[tx.by] => tx.on = code'[tx.by] /\ Sure(tx.by)'
    <3>1. \A tx \in conPool : tx.do = "instantiate" =>
            /\ tx.on \in DOMAIN codes
            /\ tx.nth = stores[tx.by] => tx.on = code[tx.by] /\ Sure(tx.by)
      BY DEF ConInv, Follows
    <3>2. \A tx \in conPool : tx.do = "instantiate" =>
            /\ tx.on \in DOMAIN codes'
            /\ tx.nth = stores'[tx.by] => tx.on = code'[tx.by] /\ Sure(tx.by)'
      BY <3>1 DEF Sure
    <3>3. CASE conPool' = conPool
      BY <3>2, <3>3
    <3>4. CASE conPool' # conPool
      BY <1>1, <1>2, <2>1, <3>2, <3>4
    <3> QED BY <3>3, <3>4
  <2>3. \A i \in DOMAIN contracts' :
          /\ contracts'[i].code \in DOMAIN codes'
          /\ contracts'[i].nth = stores'[contracts'[i].by] =>
               contracts'[i].code = code'[contracts'[i].by] /\ Sure(contracts[i].by)'
    BY DEF ConInv, Follows, Sure
  <2>4. ASSUME NEW u \in Task
        PROVE  /\ conPc'[u] # "idle" => Sure(u)' /\ stores'[u] # 0
               /\ conPc'[u] = "ready" => contract'[u] # 0
               /\ contract'[u] # 0 => contract'[u] = made'[u]
               /\ code'[u] # 0 => code'[u] = 1 \/ code'[u] \in DOMAIN codes'
    <3>1. /\ conPc[u] # "idle" => Sure(u) /\ stores[u] # 0
          /\ conPc[u] = "ready" => contract[u] # 0
          /\ contract[u] # 0 => contract[u] = made[u]
          /\ code[u] # 0 => code[u] = 1 \/ code[u] \in DOMAIN codes
      BY DEF ConInv, Follows
    <3> QED BY <1>1, <1>5, <2>1, <3>1
  <2> QED BY <2>2, <2>3, <2>4 DEF Follows
<1>14. Cardinality(Upto(stores))' <= MaxCalls
  BY DEF ConInv, Upto
<1> QED BY <1>6, <1>7, <1>10, <1>11, <1>12, <1>13, <1>14 DEF ConInv

LEMMA InstantiateKeeps ==
  ASSUME ConInv, NEW t \in Task, Con!Instantiate(t)
  PROVE  ConInv'
<1>1. /\ conPc[t] = "stored" /\ UNCHANGED <<tells, codes, ran, stores, own, code, guessed>>
      /\ stores[t] \in 1 .. MaxCalls /\ Sure(t)
      /\ conPc \in [Task -> {"idle", "stored", "sent", "ready"}] /\ contract \in [Task -> Nat]
      /\ conRet \in [Task -> {"none", "ok", "err"}]
  BY DEF Con!Instantiate, ConInv, ConTyped, Follows
<1>2. CASE /\ code[t] \in DOMAIN codes
           /\ conPool' \in {conPool, conPool \cup {Con!Sent(t, "instantiate", code[t])}}
           /\ Con!Goto(t, "sent") /\ UNCHANGED <<contracts, made, contract>>
  <2>1. Con!Sent(t, "instantiate", code[t]) = [do |-> "instantiate", by |-> t, nth |-> stores[t], on |-> code[t]]
    BY <1>1 DEF Con!Sent
  <2>2. conPc' = [conPc EXCEPT ![t] = "sent"] /\ conRet' = [conRet EXCEPT ![t] = "none"]
    BY <1>2 DEF Con!Goto
  <2>3. conPool' \subseteq conPool \cup {[do |-> "instantiate", by |-> t, nth |-> stores[t], on |-> code[t]]}
    BY <1>2, <2>1
  <2>4. conPc[t] # "idle" /\ contract' = contract
    BY <1>1, <1>2
  <2> QED BY <1>1, <1>2, <2>2, <2>3, <2>4, ConLaterKeeps
<1>3. CASE /\ code[t] \in DOMAIN codes /\ Con!Instantiated(t, stores[t], code[t])
           /\ contract' = [contract EXCEPT ![t] = Len(contracts) + 1]
           /\ Con!Goto(t, "ready") /\ UNCHANGED conPool
  <2>0. PICK k \in 1 .. MaxCalls, c \in DOMAIN codes : k = stores[t] /\ c = code[t]
    BY <1>1, <1>3
  <2>1. /\ contracts' = Append(contracts, [code |-> c, by |-> t, nth |-> k])
        /\ made' = IF k = stores[t] THEN [made EXCEPT ![t] = Len(contracts) + 1] ELSE made
    BY <1>3, <2>0 DEF Con!Instantiated
  <2>2. /\ \A i \in DOMAIN contracts : ~(contracts[i].by = t /\ contracts[i].nth = k)
        /\ NoneSent(t, k)'
    BY <1>1, <1>3, <2>0 DEF ConInv, OneContract, IsMade, IsOnItsWay, NoneSent
  <2>3. Len(contracts) + 1 \in Nat
    BY Lengths DEF ConInv
  <2>4. /\ conPc' \in [Task -> {"idle", "stored", "sent", "ready"}] /\ conPc'[t] = "ready"
        /\ conRet' \in [Task -> {"none", "ok", "err"}]
        /\ \A u \in Task \ {t} : conPc'[u] = conPc[u]
    BY <1>1, <1>3 DEF Con!Goto
  <2>5. /\ contract' \in [Task -> Nat] /\ contract'[t] = Len(contracts) + 1
        /\ \A u \in Task \ {t} : contract'[u] = contract[u]
    BY <1>1, <1>3, <2>3
  <2>6. k <= stores[t] /\ conPool' \subseteq conPool
    BY <1>1, <1>3, <2>0
  <2>7. UNCHANGED <<tells, codes, ran, stores, own, code, guessed>> /\ (k = stores[t] => c = code[t] /\ Sure(t))
    BY <1>1, <2>0
  <2>8. \/ conPc'[t] = conPc[t] /\ contract'[t] = contract[t] /\ (conPc[t] = "stored" => k # stores[t])
        \/ k = stores[t] /\ conPc'[t] = "ready" /\ contract'[t] = Len(contracts) + 1
    BY <2>0, <2>4, <2>5
  <2>9. \A u \in Task \ {t} : conPc'[u] = conPc[u] /\ contract'[u] = contract[u]
    BY <2>4, <2>5
  <2> QED BY <2>1, <2>2, <2>4, <2>5, <2>6, <2>7, <2>8, <2>9, MadeKeeps
<1>4. CASE UNCHANGED <<conPool, contracts, made, contract>> /\ Con!Fail(t)
  <2>1. conPc' = [conPc EXCEPT ![t] = "idle"] /\ conRet' = [conRet EXCEPT ![t] = "err"]
    BY <1>4 DEF Con!Fail
  <2>2. conPc[t] # "idle" /\ contract' = contract /\ conPool' = conPool
    BY <1>1, <1>4
  <2> QED BY <1>1, <1>4, <2>1, <2>2, ConLaterKeeps
<1> QED BY <1>2, <1>3, <1>4 DEF Con!Instantiate

LEMMA FindAddressKeeps ==
  ASSUME ConInv, NEW t \in Task, Con!FindAddress(t)
  PROVE  ConInv'
<1>1. /\ conPc[t] = "sent" /\ UNCHANGED <<tells, conPool, codes, contracts, ran, stores, own, code, guessed, made>>
      /\ contract \in [Task -> Nat] /\ made \in [Task -> Nat]
  BY DEF Con!FindAddress, ConInv, ConTyped
<1>2. CASE made[t] # 0 /\ contract' = [contract EXCEPT ![t] = made[t]] /\ Con!Goto(t, "ready")
  BY <1>1, <1>2, ConLaterKeeps DEF Con!Goto
<1>3. CASE Con!Fail(t) /\ UNCHANGED contract
  BY <1>1, <1>3, ConLaterKeeps DEF Con!Fail
<1> QED BY <1>2, <1>3 DEF Con!FindAddress

LEMMA ExecuteKeeps ==
  ASSUME ConInv, NEW t \in Task, Con!Execute(t)
  PROVE  ConInv'
<1>1. /\ conPc[t] = "ready" /\ conPc' = [conPc EXCEPT ![t] = "idle"]
      /\ UNCHANGED <<tells, codes, contracts, ran, stores, own, code, guessed, made, contract>>
      /\ contract \in [Task -> Nat] /\ contract[t] # 0
  BY DEF Con!Execute, ConInv, ConTyped, Follows
<1>2. Con!Sent(t, "execute", contract[t]) = [do |-> "execute", by |-> t, nth |-> stores[t], on |-> contract[t]]
  BY <1>1 DEF Con!Sent
<1>3. conPool' \subseteq conPool \cup {[do |-> "execute", by |-> t, nth |-> stores[t], on |-> contract[t]]}
  BY <1>2 DEF Con!Execute
<1>4. PICK r \in {"ok", "err"} : conRet' = [conRet EXCEPT ![t] = r]
  BY DEF Con!Execute
<1> QED BY <1>1, <1>3, <1>4, ConLaterKeeps

LEMMA ConInvariant == Con!Spec => []ConInv
<1>1. Con!Init => ConInv
  <2> SUFFICES ASSUME Con!Init
               PROVE  ConInv
    OBVIOUS
  <2>1. ConTyped
    BY UseAssumption DEF Con!Init, ConTyped
  <2>2. WorldTyped /\ DOMAIN codes = {} /\ DOMAIN contracts = {} /\ conPool = {} /\ ran = {}
    BY DEF Con!Init, WorldTyped
  <2>3. /\ Numbered /\ OneSent /\ OneCode /\ OneContract /\ OwnCode /\ MadeContract /\ Follows /\ RunsOwn
    BY <2>2 DEF Con!Init, Numbered, OneSent, OneCode, OneContract, OwnCode, MadeContract, Follows, RunsOwn
  <2>4. Upto(stores) = {}
    BY DEF Con!Init, Upto
  <2>5. Cardinality(Upto(stores)) <= MaxCalls
    BY <2>4, UseAssumption, FS_EmptySet
  <2> QED BY <2>1, <2>2, <2>3, <2>5 DEF ConInv
<1>2. ConInv /\ [Con!Next]_(Con!vars) => ConInv'
  <2> SUFFICES ASSUME ConInv, [Con!Next]_(Con!vars)
               PROVE  ConInv'
    OBVIOUS
  <2>1. ASSUME NEW tx \in conPool, Con!Commit(tx)
        PROVE  ConInv'
    BY <2>1, ConCommitKeeps
  <2>2. ASSUME NEW t \in Task, Con!StoreGuesses(t) \/ Con!StoreFails(t)
        PROVE  ConInv'
    BY <2>2, StoreKeeps
  <2>3. ASSUME NEW t \in Task, Con!StoreTold(t)
        PROVE  ConInv'
    BY <2>3, StoreToldKeeps
  <2>4. ASSUME NEW t \in Task, Con!Instantiate(t)
        PROVE  ConInv'
    BY <2>4, InstantiateKeeps
  <2>5. ASSUME NEW t \in Task, Con!FindAddress(t)
        PROVE  ConInv'
    BY <2>5, FindAddressKeeps
  <2>6. ASSUME NEW t \in Task, Con!Execute(t)
        PROVE  ConInv'
    BY <2>6, ExecuteKeeps
  <2>7. CASE UNCHANGED Con!vars
    BY <2>7, ConCommitNothing DEF Con!vars
  <2> QED BY <2>1, <2>2, <2>3, <2>4, <2>5, <2>6, <2>7 DEF Con!Next
<1> QED BY <1>1, <1>2, PTL DEF Con!Spec

\* The chain has no more codes, and no more contracts, than attempts were begun.
LEMMA FewOfEach == ASSUME ConInv PROVE Len(codes) <= MaxCalls /\ Len(contracts) <= MaxCalls
<1>1. Cardinality(Upto(stores)) \in Nat /\ Cardinality(Upto(stores)) <= MaxCalls /\ WorldTyped
  BY UptoFinite DEF ConInv
<1>2. Len(codes) <= Cardinality(Upto(stores))
  <2> DEFINE n == Len(codes)
             g == [i \in 1 .. n |-> <<codes[i].by, codes[i].nth>>]
  <2>1. n \in Nat /\ DOMAIN codes = 1 .. n /\ \A i \in 1 .. n : codes[i] \in CodeRec
    BY <1>1, Lengths
  <2>2. \A i \in 1 .. n : <<codes[i].by, codes[i].nth>> \in Upto(stores)
    BY <2>1 DEF ConInv, Numbered, CodeRec, Upto
  <2>3. \A i, j \in 1 .. n : <<codes[i].by, codes[i].nth>> = <<codes[j].by, codes[j].nth>> => i = j
    BY <2>1 DEF ConInv, OneCode
  <2>4. g \in [1 .. n -> Upto(stores)] /\ \A i, j \in 1 .. n : g[i] = g[j] => i = j
    BY <2>2, <2>3
  <2> HIDE DEF n, g
  <2>5. n <= Cardinality(Upto(stores))
    BY <2>1, <2>4, OnePerCall
  <2> QED BY <2>5 DEF n
<1>3. Len(contracts) <= Cardinality(Upto(stores))
  <2> DEFINE n == Len(contracts)
             g == [i \in 1 .. n |-> <<contracts[i].by, contracts[i].nth>>]
  <2>1. n \in Nat /\ DOMAIN contracts = 1 .. n /\ \A i \in 1 .. n : contracts[i] \in ContractRec
    BY <1>1, Lengths
  <2>2. \A i \in 1 .. n : <<contracts[i].by, contracts[i].nth>> \in Upto(stores)
    BY <2>1 DEF ConInv, Numbered, ContractRec, Upto
  <2>3. \A i, j \in 1 .. n : <<contracts[i].by, contracts[i].nth>> = <<contracts[j].by, contracts[j].nth>> => i = j
    BY <2>1 DEF ConInv, OneContract
  <2>4. g \in [1 .. n -> Upto(stores)] /\ \A i, j \in 1 .. n : g[i] = g[j] => i = j
    BY <2>2, <2>3
  <2> HIDE DEF n, g
  <2>5. n <= Cardinality(Upto(stores))
    BY <2>1, <2>4, OnePerCall
  <2> QED BY <2>5 DEF n
<1>4. Len(codes) \in Nat /\ Len(contracts) \in Nat
  BY <1>1, Lengths
<1> QED BY <1>1, <1>2, <1>3, <1>4, UseAssumption

\* The ids and addresses of the contract calls stay within the attempts, and
\* every field has its type.
LEMMA ContractsTyped == Con!Spec => []Con!TypeOK
<1>1. ConInv => Con!TypeOK
  <2> SUFFICES ASSUME ConInv
               PROVE  Con!TypeOK
    OBVIOUS
  <2>1. DOMAIN codes \subseteq Con!Id /\ DOMAIN contracts \subseteq Con!Id /\ 0 \in Con!Id /\ 1 \in Con!Id /\ 1 .. MaxCalls \subseteq Con!Id
    <3>1. /\ Len(codes) \in Nat /\ DOMAIN codes = 1 .. Len(codes)
          /\ Len(contracts) \in Nat /\ DOMAIN contracts = 1 .. Len(contracts)
      BY Lengths DEF ConInv
    <3> QED BY <3>1, FewOfEach, UseAssumption DEF Con!Id
  <2>2. \A t \in Task : own[t] \in Con!Id /\ made[t] \in Con!Id /\ code[t] \in Con!Id /\ contract[t] \in Con!Id
    <3> SUFFICES ASSUME NEW t \in Task
                 PROVE  own[t] \in Con!Id /\ made[t] \in Con!Id /\ code[t] \in Con!Id /\ contract[t] \in Con!Id
      OBVIOUS
    <3>1. own[t] = 0 \/ own[t] \in DOMAIN codes
      BY DEF ConInv, OwnCode
    <3>2. made[t] = 0 \/ made[t] \in DOMAIN contracts
      BY DEF ConInv, MadeContract
    <3>3. code[t] = 0 \/ code[t] = 1 \/ code[t] \in DOMAIN codes
      BY DEF ConInv, Follows
    <3>4. contract[t] = 0 \/ contract[t] = made[t]
      BY DEF ConInv, Follows
    <3> QED BY <2>1, <3>1, <3>2, <3>3, <3>4
  <2>3. own \in [Task -> Con!Id] /\ code \in [Task -> Con!Id] /\ made \in [Task -> Con!Id] /\ contract \in [Task -> Con!Id]
    BY <2>2 DEF ConInv, ConTyped
  <2>4. \A tx \in conPool : tx \in Con!TxOf
    <3>1. \A tx \in conPool : tx \in Tx /\ tx.on \in Con!Id
      BY <2>1 DEF ConInv, WorldTyped, Tx, Follows, RunsOwn
    <3> QED BY <2>1, <3>1 DEF Tx, Con!TxOf
  <2>5. codes \in Seq([by : Task, nth : Con!Id])
    <3>1. codes \in Seq(CodeRec) /\ \A i \in DOMAIN codes : codes[i] \in CodeRec
      BY Lengths DEF ConInv, WorldTyped
    <3>2. \A i \in DOMAIN codes : codes[i] \in [by : Task, nth : Con!Id]
      BY <2>1, <3>1 DEF CodeRec
    <3> QED BY <3>1, <3>2, Retyped
  <2>6. contracts \in Seq([code : Con!Id, by : Task, nth : Con!Id])
    <3>1. contracts \in Seq(ContractRec) /\ \A i \in DOMAIN contracts : contracts[i] \in ContractRec
      BY Lengths DEF ConInv, WorldTyped
    <3>2. \A i \in DOMAIN contracts : contracts[i].code \in Con!Id
      BY <2>1 DEF ConInv, Follows
    <3>3. \A i \in DOMAIN contracts : contracts[i] \in [code : Con!Id, by : Task, nth : Con!Id]
      BY <2>1, <3>1, <3>2 DEF ContractRec
    <3> QED BY <3>1, <3>3, Retyped
  <2>7. \A p \in ran : p \in Task \X Con!Id
    BY <2>1 DEF ConInv, WorldTyped, RunsOwn
  <2>8. /\ tells \in BOOLEAN /\ conPc \in [Task -> {"idle", "stored", "sent", "ready"}]
        /\ stores \in [Task -> Con!Id] /\ guessed \in [Task -> BOOLEAN] /\ conRet \in [Task -> {"none", "ok", "err"}]
    BY DEF ConInv, ConTyped, Con!Id
  <2> QED BY <2>3, <2>4, <2>5, <2>6, <2>7, <2>8 DEF Con!TypeOK
<1> QED BY <1>1, ConInvariant, PTL

\* A task executes only its own contracts, and they run the code it stored (or
\* would have guessed right): cosmos/cosmwasm.rs, store to execute.
THEOREM OwnCodeRuns == Con!Spec => []RunsOwnCode
<1>1. ConInv => Con!RunsOwnCode
  <2> SUFFICES ASSUME ConInv
               PROVE  Con!RunsOwnCode
    OBVIOUS
  <2>1. \A p \in ran : contracts[p[2]].by = p[1]
    BY DEF ConInv, RunsOwn
  <2>2. ASSUME NEW t \in Task, contract[t] # 0
        PROVE  LET c == contracts[contract[t]].code IN
               /\ contracts[contract[t]].by = t
               /\ ~guessed[t] => codes[c] = [by |-> t, nth |-> stores[t]]
               /\ (stores[t] = 1 /\ \A i \in DOMAIN codes : codes[i].by = t) => c = own[t]
    <3> DEFINE k == contract[t]
               c == contracts[k].code
    <3>1. k \in DOMAIN contracts /\ contracts[k].by = t /\ contracts[k].nth = stores[t]
      BY <2>2 DEF ConInv, Follows, MadeContract, IsMade
    <3>2. c \in DOMAIN codes /\ c = code[t] /\ Sure(t)
      BY <3>1 DEF ConInv, Follows
    <3>3. codes[c] \in CodeRec /\ codes[c].nth <= stores[codes[c].by]
      BY <3>2, Lengths DEF ConInv, Numbered
    <3> HIDE DEF k, c
    <3>4. ASSUME ~guessed[t]
          PROVE  codes[c] = [by |-> t, nth |-> stores[t]]
      <4>1. codes[c].by = t /\ codes[c].nth = stores[t]
        BY <3>2, <3>4 DEF ConInv, OwnCode, IsCode, Sure
      <4> QED BY <3>3, <4>1 DEF CodeRec
    <3>5. ASSUME stores[t] = 1, \A i \in DOMAIN codes : codes[i].by = t
          PROVE  c = own[t]
      <4>1. codes[c].by = t /\ codes[c].nth = stores[t]
        BY <3>2, <3>3, <3>5 DEF CodeRec
      <4> QED BY <3>2, <4>1 DEF ConInv, OwnCode, IsCode
    <3> QED BY <3>1, <3>4, <3>5 DEF k, c
  <2> QED BY <2>1, <2>2 DEF Con!RunsOwnCode
<1> QED BY <1>1, ConInvariant, PTL DEF RunsOwnCode

-----------------------------------------------------------------------------
(* Queries: TypeOK and NeverAhead of ChainReads.                           *)

\* What a reader of a count returns: the count, the value of a chain at its
\* start, or an error.
LEMMA CountReadings ==
  ASSUME NEW r \in Rd!Counting, NEW a \in Rd!Answer, NEW v \in 0 .. Most
  PROVE  /\ Rd!Reading(r, a, v) \in {0, v, Rd!Err}
         /\ a = "good" => Rd!Reading(r, a, v) = v \/ r = "timeouts"
         /\ r = "timeouts" => Rd!Reading(r, a, v) \in {0, Rd!Err}
<1>1. CASE r = "balance"
  <2>1. Rd!Reading(r, a, v) = Rd!QueryBalance(a, v)
    BY <1>1, Zenon DEF Rd!Reading
  <2> QED BY <1>1, <2>1 DEF Rd!QueryBalance, Rd!Answer
<1>2. CASE r = "height"
  <2>1. Rd!Reading(r, a, v) = Rd!QueryHeight(a, v)
    BY <1>2, Zenon DEF Rd!Reading
  <2> QED BY <1>2, <2>1 DEF Rd!QueryHeight, Rd!Answer
<1>3. CASE r = "synced"
  <2>1. Rd!Reading(r, a, v) = Rd!IsSynced(a, v)
    BY <1>3, Zenon DEF Rd!Reading
  <2> QED BY <1>3, <2>1 DEF Rd!IsSynced, Rd!Answer
<1>4. CASE r = "acks"
  <2>1. Rd!Reading(r, a, v) = Rd!Acknowledgements(a, v)
    BY <1>4, Zenon DEF Rd!Reading
  <2> QED BY <1>4, <2>1 DEF Rd!Acknowledgements, Rd!Answer
<1>5. CASE r = "timeouts"
  <2>1. Rd!Reading(r, a, v) = Rd!Timeouts(a, v)
    BY <1>5, Zenon DEF Rd!Reading
  <2> QED BY <1>5, <2>1 DEF Rd!Timeouts, Rd!Answer
<1>6. CASE r = "checksums"
  <2>1. Rd!Reading(r, a, v) = Rd!QueryIbcWasmChecksums(a, v)
    BY <1>6, Zenon DEF Rd!Reading
  <2> QED BY <1>6, <2>1 DEF Rd!QueryIbcWasmChecksums, Rd!Answer
<1>7. CASE r = "hermes"
  <2>1. Rd!Reading(r, a, v) = Rd!HermesQuery(a, v)
    BY <1>7, Zenon DEF Rd!Reading
  <2> QED BY <1>7, <2>1 DEF Rd!HermesQuery, Rd!Answer
<1>8. CASE r = "rly"
  <2>1. Rd!Reading(r, a, v) = Rd!RlyQuery(a, v)
    BY <1>8, Zenon DEF Rd!Reading
  <2> QED BY <1>8, <2>1 DEF Rd!RlyQuery, Rd!Answer
<1> QED BY <1>1, <1>2, <1>3, <1>4, <1>5, <1>6, <1>7, <1>8 DEF Rd!Counting

\* Of what is named the value is 1: an address and a block hash are real ones.
LEMMA NameReadings ==
  ASSUME NEW r \in Rd!Naming, NEW a \in Rd!Answer
  PROVE  /\ Rd!Reading(r, a, 1) \in {0, 1, Rd!Junk, Rd!Err}
         /\ r \in {"address", "block hash"} => Rd!Reading(r, a, 1) \in {1, Rd!Err}
<1>1. CASE r = "json"
  <2>1. Rd!Reading(r, a, 1) = Rd!QueryJson(a, 1)
    BY <1>1, Zenon DEF Rd!Reading
  <2> QED BY <1>1, <2>1 DEF Rd!QueryJson, Rd!Answer
<1>2. CASE r = "key address"
  <2>1. Rd!Reading(r, a, 1) = Rd!GetKeyAddress(a, 1)
    BY <1>2, Zenon DEF Rd!Reading
  <2> QED BY <1>2, <2>1 DEF Rd!GetKeyAddress, Rd!Answer
<1>3. CASE r = "address"
  <2>1. Rd!Reading(r, a, 1) = Rd!GetAddress(a, 1)
    BY <1>3, Zenon DEF Rd!Reading
  <2>2. Rd!GetKeyAddress(a, 1) \in {0, 1, Rd!Junk, Rd!Err}
    BY DEF Rd!GetKeyAddress, Rd!Answer
  <2> QED BY <1>3, <2>1, <2>2 DEF Rd!GetAddress
<1>4. CASE r = "node id"
  <2>1. Rd!Reading(r, a, 1) = Rd!NodeId(a, 1)
    BY <1>4, Zenon DEF Rd!Reading
  <2>2. Rd!GetKeyAddress(a, 1) \in {0, 1, Rd!Junk, Rd!Err}
    BY DEF Rd!GetKeyAddress, Rd!Answer
  <2> QED BY <1>4, <2>1, <2>2 DEF Rd!NodeId
<1>5. CASE r = "genesis hash"
  <2>1. Rd!Reading(r, a, 1) = Rd!GenesisHash(a, 1)
    BY <1>5, Zenon DEF Rd!Reading
  <2> QED BY <1>5, <2>1 DEF Rd!GenesisHash, Rd!Answer
<1>6. CASE r = "genesis"
  <2>1. Rd!Reading(r, a, 1) = Rd!ReadGenesis(a, 1)
    BY <1>6, Zenon DEF Rd!Reading
  <2> QED BY <1>6, <2>1 DEF Rd!ReadGenesis, Rd!Answer
<1>7. CASE r = "block hash"
  <2>1. Rd!Reading(r, a, 1) = Rd!QueryBlockHash(a, 1)
    BY <1>7, Zenon DEF Rd!Reading
  <2> QED BY <1>7, <2>1 DEF Rd!QueryBlockHash, Rd!Answer
<1>8. CASE r = "export"
  <2>1. Rd!Reading(r, a, 1) = Rd!ExportState(a, 1)
    BY <1>8, Zenon DEF Rd!Reading
  <2> QED BY <1>8, <2>1 DEF Rd!ExportState, Rd!Answer
<1> QED BY <1>1, <1>2, <1>3, <1>4, <1>5, <1>6, <1>7, <1>8 DEF Rd!Naming

LEMMA ReadingsInRange ==
  ASSUME Rd!TypeOK, NEW r \in Rd!Counting \cup Rd!Naming, NEW a \in Rd!Answer
  PROVE  /\ Rd!Truth(r) \in Nat /\ Rd!Reading(r, a, Rd!Truth(r)) \in 0 .. Rd!Err
         /\ r \in Rd!Counting => Rd!Truth(r) = truth
         /\ r \in Rd!Naming => Rd!Truth(r) = 1
<1>1. truth \in 0 .. Most /\ (r \in Rd!Naming => r \notin Rd!Counting)
  BY DEF Rd!TypeOK, Rd!Naming, Rd!Counting
<1>2. Rd!Err \in Nat /\ Rd!Junk \in 0 .. Rd!Err /\ 1 \in 0 .. Rd!Err /\ truth \in 0 .. Rd!Err
  BY <1>1, UseAssumption DEF Rd!Err, Rd!Junk
<1>3. CASE r \in Rd!Counting
  <2>1. Rd!Truth(r) = truth
    BY <1>3 DEF Rd!Truth
  <2>2. Rd!Reading(r, a, truth) \in {0, truth, Rd!Err}
    BY <1>1, <1>3, CountReadings
  <2> QED BY <1>1, <1>2, <1>3, <2>1, <2>2
<1>4. CASE r \in Rd!Naming
  <2>1. Rd!Truth(r) = 1
    BY <1>1, <1>4 DEF Rd!Truth
  <2>2. Rd!Reading(r, a, 1) \in {0, 1, Rd!Junk, Rd!Err}
    BY <1>4, NameReadings
  <2> QED BY <1>1, <1>2, <1>4, <2>1, <2>2
<1> QED BY <1>3, <1>4

LEMMA ReadsTyped == Rd!Spec => []Rd!TypeOK
<1> USE UseAssumption
<1>1. Rd!Init => Rd!TypeOK
  BY DEF Rd!Init, Rd!TypeOK, Rd!Err
<1>2. Rd!TypeOK /\ [Rd!Next]_(Rd!vars) => Rd!TypeOK'
  <2> SUFFICES ASSUME Rd!TypeOK, [Rd!Next]_(Rd!vars)
               PROVE  Rd!TypeOK'
    OBVIOUS
  <2>1. ASSUME NEW t \in Reader, NEW r \in Rd!Counting \cup Rd!Naming, NEW a \in Rd!Answer, Rd!Take(t, r, a)
        PROVE  /\ what' \in [Reader -> {"none"} \cup Rd!Counting \cup Rd!Naming]
               /\ value' \in [Reader -> 0 .. Rd!Err] /\ first' \in [Reader -> 0 .. Rd!Err]
               /\ silent' \in [Reader -> BOOLEAN]
    <3>1. Rd!Reading(r, a, Rd!Truth(r)) \in 0 .. Rd!Err /\ Rd!Err \in 0 .. Rd!Err
      BY ReadingsInRange DEF Rd!Err
    <3>2. value' \in [Reader -> 0 .. Rd!Err] /\ first' \in [Reader -> 0 .. Rd!Err]
      BY <2>1, <3>1 DEF Rd!Take, Rd!TypeOK
    <3>3. silent' \in [Reader -> BOOLEAN]
      BY <2>1 DEF Rd!Take, Rd!TypeOK
    <3> QED BY <2>1, <3>2, <3>3 DEF Rd!Take, Rd!TypeOK
  <2>2. "balance" \in Rd!Counting \cup Rd!Naming
    BY DEF Rd!Counting
  <2>3. CASE Rd!Grow
    BY <2>3 DEF Rd!Grow, Rd!TypeOK
  <2>4. ASSUME NEW t \in Reader, Rd!Read(t)
        PROVE  Rd!TypeOK'
    BY <2>1, <2>4 DEF Rd!Read, Rd!TypeOK
  <2>5. ASSUME NEW t \in Reader, Rd!Balance(t)
        PROVE  Rd!TypeOK'
    BY <2>1, <2>2, <2>5 DEF Rd!Balance, Rd!TypeOK
  <2>6. ASSUME NEW t \in Reader, Rd!BalanceOlder(t)
        PROVE  Rd!TypeOK'
    BY <2>1, <2>2, <2>6 DEF Rd!BalanceOlder, Rd!TypeOK
  <2>7. CASE UNCHANGED Rd!vars
    BY <2>7 DEF Rd!vars, Rd!TypeOK
  <2> QED BY <2>3, <2>4, <2>5, <2>6, <2>7 DEF Rd!Next
<1> QED BY <1>1, <1>2, PTL DEF Rd!Spec

\* The list of timeouts is empty whatever the relayer answers, so two readings
\* of it do not go apart.
NoTimeouts == \A t \in Reader : what[t] = "timeouts" => value[t] \in {0, Rd!Err}

ReadInv == NoTimeouts /\ Rd!NeverAhead

LEMMA TakeKeeps ==
  ASSUME Rd!TypeOK, ReadInv, NEW t \in Reader, NEW r \in Rd!Counting \cup Rd!Naming, NEW a \in Rd!Answer,
         Rd!Take(t, r, a), UNCHANGED truth
  PROVE  ReadInv'
<1> USE UseAssumption
<1> DEFINE v == Rd!Reading(r, a, Rd!Truth(r))
<1>1. /\ value'[t] = v /\ what'[t] = r
      /\ first'[t] = (IF what[t] = r THEN value[t] ELSE Rd!Err)
      /\ ~silent'[t] => a = "good" \/ v = Rd!Err
      /\ \A u \in Reader \ {t} : /\ value'[u] = value[u] /\ what'[u] = what[u]
                              /\ first'[u] = first[u] /\ silent'[u] = silent[u]
  BY DEF Rd!Take, Rd!TypeOK
<1>2. /\ truth \in 0 .. Most /\ value[t] \in 0 .. Rd!Err
      /\ r \in Rd!Counting => v \in {0, truth, Rd!Err}
      /\ r \in Rd!Counting /\ a = "good" => v = truth \/ r = "timeouts"
      /\ r = "timeouts" => v \in {0, Rd!Err}
      /\ r \in {"address", "block hash"} => v \in {1, Rd!Err}
  <2>1. truth \in 0 .. Most /\ value[t] \in 0 .. Rd!Err
    BY DEF Rd!TypeOK
  <2>2. "timeouts" \in Rd!Counting /\ "address" \in Rd!Naming /\ "block hash" \in Rd!Naming
    BY DEF Rd!Counting, Rd!Naming
  <2> QED BY <2>1, <2>2, ReadingsInRange, CountReadings, NameReadings
<1> HIDE DEF v
<1>3. NoTimeouts'
  BY <1>1, <1>2 DEF ReadInv, NoTimeouts
<1>4. ASSUME v # Rd!Err
      PROVE  /\ r \in Rd!Counting => v <= truth
             /\ r \in {"address", "block hash"} => v = 1
             /\ r \in Rd!Counting /\ first'[t] # Rd!Err /\ ~silent'[t] => first'[t] <= v
  <2>0. truth \in Nat /\ (r \in Rd!Counting => v \in {0, truth})
    <3>1. r \in Rd!Counting => v \in {0, truth}
      BY <1>2, <1>4, Zenon
    <3>2. truth \in Nat
      BY DEF Rd!TypeOK
    <3> QED BY <3>1, <3>2
  <2>1. r \in Rd!Counting => v <= truth
    BY <2>0
  <2>2. ASSUME r \in Rd!Counting, first'[t] # Rd!Err, ~silent'[t]
        PROVE  first'[t] <= v
    <3>1. what[t] = r /\ first'[t] = value[t] /\ value[t] # Rd!Err /\ a = "good"
      BY <1>1, <1>4, <2>2
    <3>2. value[t] <= truth
      BY <2>2, <3>1 DEF ReadInv, Rd!NeverAhead
    <3>3. r = "timeouts" => value[t] = 0
      BY <3>1 DEF ReadInv, NoTimeouts
    <3>4. v = truth \/ r = "timeouts"
      BY <1>2, <2>2, <3>1
    <3>5. CASE r = "timeouts"
      <4>1. first'[t] = 0 /\ v = 0
        BY <1>2, <1>4, <3>1, <3>3, <3>5
      <4> QED BY <4>1
    <3> QED BY <3>1, <3>2, <3>4, <3>5
  <2> QED BY <1>2, <1>4, <2>1, <2>2
<1>5. Rd!NeverAhead'
  <2> SUFFICES ASSUME NEW u \in Reader, value'[u] # Rd!Err
               PROVE  /\ what'[u] \in Rd!Counting => value'[u] <= truth'
                      /\ what'[u] \in {"address", "block hash"} => value'[u] = 1
                      /\ what'[u] \in Rd!Counting /\ first'[u] # Rd!Err /\ ~silent'[u]
                           => first'[u] <= value'[u]
    BY DEF Rd!NeverAhead
  <2>1. CASE u = t
    BY <1>1, <1>4, <2>1
  <2>2. CASE u # t
    BY <1>1, <2>2 DEF ReadInv, Rd!NeverAhead
  <2> QED BY <2>1, <2>2
<1> QED BY <1>3, <1>5 DEF ReadInv

\* Readers of any number of tasks, whatever the nodes answer and however far the
\* chain gets: none returns a count that is ahead of it (cosmos/node.rs and the
\* readers built on it).
THEOREM NoReaderAhead == Rd!Spec => []NeverAhead
<1>1. Rd!Init => ReadInv
  BY UseAssumption DEF Rd!Init, ReadInv, NoTimeouts, Rd!NeverAhead, Rd!Counting, Rd!Naming, Rd!Err
<1>2. Rd!TypeOK /\ ReadInv /\ [Rd!Next]_(Rd!vars) => ReadInv'
  <2> SUFFICES ASSUME Rd!TypeOK, ReadInv, [Rd!Next]_(Rd!vars)
               PROVE  ReadInv'
    OBVIOUS
  <2>1. "balance" \in Rd!Counting \cup Rd!Naming
    BY DEF Rd!Counting
  <2>2. ASSUME UNCHANGED <<what, value, first, silent>>, truth' \in Nat, truth <= truth'
        PROVE  ReadInv'
    <3>1. NoTimeouts'
      BY <2>2 DEF ReadInv, NoTimeouts
    <3>2. ASSUME NEW t \in Reader, what[t] \in Rd!Counting, value[t] # Rd!Err
          PROVE  value[t] <= truth'
      <4>1. value[t] \in Nat /\ truth \in Nat /\ value[t] <= truth
        <5>1. value[t] <= truth
          BY <3>2 DEF ReadInv, Rd!NeverAhead
        <5>2. value[t] \in Nat /\ truth \in Nat
          BY DEF Rd!TypeOK
        <5> QED BY <5>1, <5>2
      <4> QED BY <2>2, <4>1
    <3>3. Rd!NeverAhead'
      BY <2>2, <3>2 DEF ReadInv, Rd!NeverAhead
    <3> QED BY <3>1, <3>3 DEF ReadInv
  <2>3. CASE Rd!Grow
    BY <2>2, <2>3 DEF Rd!Grow, Rd!TypeOK
  <2>4. ASSUME NEW t \in Reader, Rd!Read(t)
        PROVE  ReadInv'
    BY <2>4, TakeKeeps DEF Rd!Read
  <2>5. ASSUME NEW t \in Reader, Rd!Balance(t)
        PROVE  ReadInv'
    <3>1. CASE UNCHANGED <<what, value, first, silent, truth>>
      BY <2>2, <3>1 DEF Rd!TypeOK
    <3> QED BY <2>1, <2>5, <3>1, TakeKeeps DEF Rd!Balance
  <2>6. ASSUME NEW t \in Reader, Rd!BalanceOlder(t)
        PROVE  ReadInv'
    BY <2>1, <2>6, TakeKeeps DEF Rd!BalanceOlder
  <2>7. CASE UNCHANGED Rd!vars
    BY <2>2, <2>7 DEF Rd!vars, Rd!TypeOK
  <2> QED BY <2>3, <2>4, <2>5, <2>6, <2>7 DEF Rd!Next
<1>3. ReadInv => Rd!NeverAhead
  BY DEF ReadInv
<1> QED BY <1>1, <1>2, <1>3, ReadsTyped, PTL DEF Rd!Spec, NeverAhead

-----------------------------------------------------------------------------
(* The five together.                                                      *)

LEMMA RunStarts == MCInit => Init /\ Gen!Init /\ Gov!Init /\ Con!Init /\ Rd!Init
  BY DEF MCInit

LEMMA RunSteps ==
  [MCNext]_mcvars => /\ [Next]_vars /\ [Gen!Next]_(Gen!vars) /\ [Gov!Next]_(Gov!vars)
                     /\ [Con!Next]_(Con!vars) /\ [Rd!Next]_(Rd!vars)
<1> SUFFICES ASSUME [MCNext]_mcvars
             PROVE  /\ [Next]_vars /\ [Gen!Next]_(Gen!vars) /\ [Gov!Next]_(Gov!vars)
                    /\ [Con!Next]_(Con!vars) /\ [Rd!Next]_(Rd!vars)
  OBVIOUS
<1>1. /\ UNCHANGED genVars => UNCHANGED Gen!vars
      /\ UNCHANGED govVars => UNCHANGED Gov!vars
      /\ UNCHANGED conVars => UNCHANGED Con!vars
      /\ UNCHANGED rdVars => UNCHANGED Rd!vars
  <2>1. UNCHANGED genVars => UNCHANGED Gen!vars
    BY DEF genVars, Gen!vars, Gen!files
  <2>2. UNCHANGED govVars => UNCHANGED Gov!vars
    BY DEF govVars, Gov!vars, Gov!env
  <2>3. UNCHANGED conVars => UNCHANGED Con!vars
    BY DEF conVars, Con!vars
  <2>4. UNCHANGED rdVars => UNCHANGED Rd!vars
    BY DEF rdVars, Rd!vars
  <2> QED BY <2>1, <2>2, <2>3, <2>4
<1>2. CASE Next /\ UNCHANGED <<genVars, govVars, conVars, rdVars>>
  BY <1>1, <1>2
<1>3. CASE Gen!Next /\ UNCHANGED <<vars, govVars, conVars, rdVars>>
  BY <1>1, <1>3
<1>4. CASE Gov!Next /\ UNCHANGED <<vars, genVars, conVars, rdVars>>
  BY <1>1, <1>4
<1>5. CASE Con!Next /\ UNCHANGED <<vars, genVars, govVars, rdVars>>
  BY <1>1, <1>5
<1>6. CASE Rd!Next /\ UNCHANGED <<vars, genVars, govVars, conVars>>
  BY <1>1, <1>6
<1>7. CASE UNCHANGED mcvars
  BY <1>1, <1>7 DEF mcvars
<1> QED BY <1>2, <1>3, <1>4, <1>5, <1>6, <1>7 DEF MCNext

\* What is checked of the five together is true of each alone: all that is in
\* the state of the run is well typed, for every value of the constants.
THEOREM RunTyped == MCSpec => []TypesOK
<1>1. MCSpec => Init /\ [][Next]_vars
  BY RunStarts, RunSteps, PTL DEF MCSpec
<1>2. MCSpec => Gen!Spec /\ Gov!Spec /\ Con!Spec /\ Rd!Spec
  BY RunStarts, RunSteps, PTL DEF MCSpec, Gen!Spec, Gov!Spec, Con!Spec, Rd!Spec
<1>3. Init /\ [][Next]_vars => []TypeOK
  BY FilesTyped
<1>4. Gen!Spec /\ Gov!Spec /\ Con!Spec /\ Rd!Spec
      => []Gen!TypeOK /\ []Gov!TypeOK /\ []Con!TypeOK /\ []Rd!TypeOK
  BY GenesisTyped, GovernanceTyped, ContractsTyped, ReadsTyped
<1> QED BY <1>1, <1>2, <1>3, <1>4, PTL DEF TypesOK
=============================================================================
