----------------------------- MODULE MCRuntimes -----------------------------
(* Tests and the container runtime below them, one per behaviour, told by  *)
(* `part`: the teardown of a test (TestTeardown: a Cosmos chain and an     *)
(* Anvil node, three workers if the runtime has any), the Drop of a        *)
(* spawned set (SpawnedSet), the two backends (RuntimeBackends) and the    *)
(* creation of networks (NetworkCreation).  They share no state.           *)
EXTENDS TestTeardown

CONSTANTS Node, Name, MaxHandles, MaxNets, Caller, Hash, Pid, Width

\* A set has a node.  2^64 leaves 16 by 240, and so does every power of 16 from
\* 16 on; the largest step between two subnets, 3 * 37, is below all but the first.
ASSUME RuntimesAssumption ==
  /\ Node # {} /\ MaxHandles \in Nat /\ MaxNets \in Nat
  /\ IsFiniteSet(Caller) /\ Hash \subseteq Nat /\ Pid \subseteq Nat
  /\ Width \in Nat /\ Width > 111 /\ Width % 240 = 16

VARIABLES
  part,
  named, box, network, ctx, drop, remaining, unwinding, mishap,
  made, dock, mock, volumes, nets, dnet, mnet, last, agree,
  hash, pid, wraps, networks, name, pc, attempt, octet, ret, id, refused

Set == INSTANCE SpawnedSet WITH left <- remaining
Run == INSTANCE RuntimeBackends
Net == INSTANCE NetworkCreation

setVars == <<named, box, network, ctx, drop, remaining, unwinding, mishap>>
runVars == <<made, dock, mock, volumes, nets, dnet, mnet, last, agree>>
netVars == <<hash, pid, wraps, networks, name, pc, attempt, octet, ret, id, refused>>
mcvars  == <<vars, part, setVars, runVars, netVars>>

\* Where another part is looked at, the choices of an initial state are fixed.
MCInit ==
  /\ part \in {"teardown", "set", "runtime", "network"}
  /\ Init /\ Set!Init /\ Run!Init /\ Net!Init
  /\ part # "teardown" => flavor = "current_thread" /\ backend = "mock" /\ ~keep
  /\ part # "set"      => named /\ ctx = "outside" /\ ~unwinding
  /\ part # "network"  =>
       /\ pid = (CHOOSE p \in Pid : TRUE) /\ ~wraps
       /\ hash = [n \in Name |-> CHOOSE h \in Hash : TRUE]
       /\ name = [c \in Caller |-> CHOOSE n \in Name : TRUE]

MCNext ==
  /\ UNCHANGED part
  /\ \/ part = "teardown" /\ Next     /\ UNCHANGED <<setVars, runVars, netVars>>
     \/ part = "set"      /\ Set!Next /\ UNCHANGED <<vars, runVars, netVars>>
     \/ part = "runtime"  /\ Run!Next /\ UNCHANGED <<vars, setVars, netVars>>
     \/ part = "network"  /\ Net!Next /\ UNCHANGED <<vars, setVars, runVars>>

\* The fairness of TestTeardown: no Stop is enabled at its initial state.
MCSpec == MCInit /\ [][MCNext]_mcvars /\ \A c \in Chain : WF_vars(Stop(c))

\* All four are well typed: removals, containers, handles and subnets stay in
\* their ranges, and a request is in flight only while something is removed.
TypesOK == TypeOK /\ Set!TypeOK /\ Run!TypeOK /\ Net!TypeOK

\* A spawned set dropped where it may block leaves nothing behind, unless a
\* request failed (quickspawn/snapshot.rs).
SetGoneIsClean == Set!SetGoneIsClean

\* A test on the mock and a run on Docker part only at calls where the mock is
\* known to be lenient or strict (runtime/mock.rs, runtime/docker.rs).
FirstDifference == Run!FirstDifference

\* Four different subnets at least are tried before create_network gives up,
\* also where its arithmetic wraps (runtime/docker.rs).
GivesUpAfterFour == Net!GivesUpAfterFour
=============================================================================
