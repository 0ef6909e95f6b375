----------------------------- MODULE MCChainUse -----------------------------
(* What a test does to a chain, one kind of work per behaviour, told by    *)
(* `part`: its genesis (GenesisPipeline: two validators, one extra genesis *)
(* wallet and a faucet), the files of a node (NodeFiles), proposals        *)
(* (Governance), contracts (Contracts) and queries (ChainReads).  The five *)
(* share no state, so nothing is lost by taking one at a time.             *)
EXTENDS NodeFiles, FiniteSets

CONSTANTS NumVals, NumFulls, Wallets, HasFaucet, HasOverrides, HasModify, MaxStarts,
          Reader, Validators, Most

VARIABLES
  part,
  key, faucetKey, gentxDir, genesis, genConfig, peers, genPc, at, wallets, carried, ids, starts,
  ignored, genRet,
  kind, govTells, govPool, proposals, govPc, govCalls, govOwn, id, govGuessed, ballots, govRet,
  tells, conPool, codes, contracts, ran, conPc, stores, own, code, guessed, made, contract, conRet,
  truth, old, readPc, what, value, first, silent

Gen == INSTANCE GenesisPipeline WITH config <- genConfig, pc <- genPc, ret <- genRet
Gov == INSTANCE Governance WITH
  tells <- govTells, mempool <- govPool, pc <- govPc, calls <- govCalls, own <- govOwn,
  guessed <- govGuessed, ret <- govRet
Con == INSTANCE Contracts WITH mempool <- conPool, pc <- conPc, ret <- conRet
Rd  == INSTANCE ChainReads WITH Task <- Reader, pc <- readPc

genVars == <<key, faucetKey, gentxDir, genesis, genConfig, peers, genPc, at, wallets, carried, ids,
             starts, ignored, genRet>>
govVars == <<kind, govTells, govPool, proposals, govPc, govCalls, govOwn, id, govGuessed, ballots,
             govRet>>
conVars == <<tells, conPool, codes, contracts, ran, conPc, stores, own, code, guessed, made,
             contract, conRet>>
rdVars  == <<truth, old, readPc, what, value, first, silent>>
mcvars  == <<vars, part, genVars, govVars, conVars, rdVars>>

MCWallets == {"w"}

ASSUME GenesisAssumption ==
  /\ NumVals \in Nat \ {0} /\ NumFulls \in Nat /\ MaxStarts \in Nat \ {0}
  /\ HasFaucet \in BOOLEAN /\ HasOverrides \in BOOLEAN /\ HasModify \in BOOLEAN

ASSUME UseAssumption ==
  /\ IsFiniteSet(Task) /\ MaxCalls \in Nat \ {0} /\ Chunks \in Nat \ {0}
  /\ Validators \in Nat \ {0} /\ Most \in Nat

\* Where another part is looked at, the choices of an initial state are fixed.
MCInit ==
  /\ part \in {"genesis", "files", "gov", "con", "read"}
  /\ Init /\ Gen!Init /\ Gov!Init /\ Con!Init /\ Rd!Init
  /\ part # "gov"  => ~govTells /\ \A t \in Task : kind[t] = "upgrade"
  /\ part # "con"  => ~tells
  /\ part # "read" => ~old

MCNext ==
  /\ UNCHANGED part
  /\ \/ part = "files"   /\ Next     /\ UNCHANGED <<genVars, govVars, conVars, rdVars>>
     \/ part = "genesis" /\ Gen!Next /\ UNCHANGED <<vars, govVars, conVars, rdVars>>
     \/ part = "gov"     /\ Gov!Next /\ UNCHANGED <<vars, genVars, conVars, rdVars>>
     \/ part = "con"     /\ Con!Next /\ UNCHANGED <<vars, genVars, govVars, rdVars>>
     \/ part = "read"    /\ Rd!Next  /\ UNCHANGED <<vars, genVars, govVars, conVars>>

MCSpec == MCInit /\ [][MCNext]_mcvars

\* All five are well typed: no file, queue, id or counter leaves its range, and
\* a signing state is inside a data directory that exists.
TypesOK == TypeOK /\ Gen!TypeOK /\ Gov!TypeOK /\ Con!TypeOK /\ Rd!TypeOK

\* What start launches is backed by the keys of all validators, over retries
\* and failures that go unnoticed (cosmos/node.rs, chain/cosmos.rs).
ValidatorsBacked == Gen!ValidatorsBacked

\* What start launches is the same on all nodes, and complete, unless a command
\* failed unnoticed (chain/cosmos.rs).
LaunchConsistent == Gen!LaunchConsistent

\* A workflow that ends with Ok saw its own proposal pass, unless it guessed
\* the id where others propose too (cosmos/governance.rs).
PassedIsOwn == Gov!PassedIsOwn

\* A test executes its own contracts, with the code it stored unless the id was
\* guessed where others store too (cosmos/cosmwasm.rs).
RunsOwnCode == Con!RunsOwnCode

\* No reader is ever ahead of the chain, whatever a node answers
\* (cosmos/node.rs and the readers built on it).
NeverAhead == Rd!NeverAhead
=============================================================================
