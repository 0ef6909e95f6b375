----------------------------- MODULE MCPrograms -----------------------------
(* The builder that brings chains and relayers up and down (Interchain:    *)
(* two chains, one relayer, one link), or the example programs that use    *)
(* the library (ExamplePrograms), as `part` says.  They share no state.    *)
EXTENDS Interchain

VARIABLES part, prog, good, seg, at, facts, pend, progRet, shut, slipped, met

Catalogue == INSTANCE ExampleCatalogue

AllPrograms == Catalogue!AllPrograms
AllGoals    == Catalogue!AllGoals

Prog == INSTANCE ExamplePrograms WITH
  Programs <- AllPrograms, Goals <- AllGoals, ret <- progRet

\* The catalogue is made of programs: the calls of all but the upgrade are in an
\* order that works, all but two clean up all that they made, and each sees to
\* its goals.
ASSUME CatalogueAssumption ==
  \A p \in DOMAIN AllPrograms :
    /\ Prog!WellFormed(p)
    /\ p # "cosmos_upgrade" => Prog!InOrder(p)
    /\ p \notin Prog!Untidy => Prog!Tidy(p)
    /\ \A f \in AllGoals[p] : Prog!Shown(p, f)

progVars == <<prog, good, seg, at, facts, pend, progRet, shut, slipped, met>>
mcvars   == <<vars, part, progVars>>

MCLinks == <<[ends |-> {"a", "b"}, relayer |-> "hermes"]>>

\* Where the other part is looked at, the choices of an initial state are fixed.
MCInit ==
  /\ part \in {"builder", "program"}
  /\ Init /\ Prog!Init
  /\ part # "builder" => network /\ by = CHOOSE r \in Relayer : TRUE
  /\ part # "program" => good /\ prog = "pfm"

MCNext ==
  /\ UNCHANGED part
  /\ \/ part = "builder" /\ Next      /\ UNCHANGED progVars
     \/ part = "program" /\ Prog!Next /\ UNCHANGED vars

\* The fairness of Interchain: no step is enabled at its initial state.
MCSpec == MCInit /\ [][MCNext]_mcvars /\ WF_vars(Step)

\* Both are well typed: of chains and relayers, of steps, blocks and results.
TypesOK == TypeOK /\ Prog!TypeOK

\* An example ends with Ok where nothing fails of itself, and where it ends with
\* Ok it has seen what it is there to show (examples/, ict-rs-cw-orch/examples/).
OkIsRight == Prog!Completes /\ Prog!OkMeansDone

\* An example that came to its shutdown leaves nothing behind, whatever failed
\* before (examples/, ict-rs-cw-orch/examples/).
CleanExit == Prog!CleanExit
=============================================================================
