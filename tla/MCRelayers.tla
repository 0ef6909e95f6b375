----------------------------- MODULE MCRelayers -----------------------------
(* A hub linked to two other chains, by two paths (HermesPaths), or what a *)
(* relayer is told of two chains before it links them (RelayerSetup): the  *)
(* two share no state, and `part` says which one a behaviour is about.     *)
EXTENDS HermesPaths, FiniteSets

CONSTANTS Task, Configured, MaxSetups

\* There is a chain to link and one to configure.
ASSUME RelayersAssumption == Chain # {} /\ Configured # {} /\ MaxSetups \in Nat

VARIABLES
  part,
  flavor, mem, file, phrase, keys, calls, setupPc, arg, n, conf, known, wallet, alone, clean, firm

Setup == INSTANCE RelayerSetup WITH
  Chain <- Configured, MaxCalls <- MaxSetups, pc <- setupPc

setupVars == <<flavor, mem, file, phrase, keys, calls, setupPc, arg, n, conf, known, wallet, alone,
               clean, firm>>
mcvars    == <<vars, part, setupVars>>

MCLinks == <<[path |-> "p1", chain1 |-> "hub", chain2 |-> "x"],
             [path |-> "p2", chain1 |-> "hub", chain2 |-> "y"]>>

MCInit ==
  /\ part \in {"paths", "setup"} /\ Init /\ Setup!Init
  /\ part # "paths" => path = CHOOSE p \in Path : TRUE
  /\ part # "setup" => flavor = "hermes"

MCNext ==
  \/ part = "paths" /\ Next       /\ UNCHANGED <<part, setupVars>>
  \/ part = "setup" /\ Setup!Next /\ UNCHANGED <<part, vars>>

MCSpec == MCInit /\ [][MCNext]_mcvars

\* Both are well typed: what the relayer keeps in memory, in its files and as
\* ids of IBC objects.
TypesOK == TypeOK /\ Setup!TypeOK

\* What the relayer signs and connects with is what the test told it: every
\* chain it accepted is in the config that was last written undisturbed, and the
\* wallet it returned last is its key (relayer/hermes.rs, relayer/docker_relayer.rs).
ToldIsKept == Setup!ConfigComplete /\ Setup!KeyMatches
=============================================================================
