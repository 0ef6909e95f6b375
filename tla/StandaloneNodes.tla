--------------------------- MODULE StandaloneNodes ---------------------------
(***************************************************************************)
(* Three owners of a single container: AnvilChain (chain/ethereum.rs),     *)
(* ZakuraNode (chain/zakura.rs) and NostrRelayerManager                    *)
(* (nostr/relayer_manager.rs).  Two owners of one kind in one test run     *)
(* concurrently and derive the same container name: a test name and a      *)
(* chain id, a test name and a port, or a name and a process id.           *)
(*                                                                         *)
(* The runtime is Docker: a name is taken once, ids are never reused, a    *)
(* removal is forced, a volume in use and a network with a running         *)
(* container stay.  Any call may fail, a future may be dropped at an       *)
(* await, and a killed run may have left a container under the name.  The  *)
(* name of an Anvil network carries a counter: no two owners share one.    *)
(***************************************************************************)
EXTENDS Naturals

CONSTANTS Owner,
          MaxIds,       \* bound: containers ever created
          MaxCalls      \* bound: calls per owner

VARIABLES
  kind,             \* which of the three
  box,              \* the container under the name; its id is 0 if there is none
  ids,              \* ids given out
  volume, network,  \* the Anvil volume, by name, and the network of each owner
  handle, netHeld,  \* container_id and network_id of each owner, 0 and FALSE for None
  initialized,      \* of an AnvilChain
  reused,           \* reused_existing of a ZakuraNode
  pc, local,        \* the step of the owner's call, and the id it has in hand
  calls,
  told,             \* was some owner given an error, a warning or a cancellation?
  swallowed         \* did a removal fail in silence?

dockerVars == <<box, ids, volume, network>>
ownerVars  == <<handle, netHeld, initialized, reused>>
callVars   == <<pc, local, calls>>
vars       == <<kind, dockerVars, ownerVars, callVars, told, swallowed>>

Id    == 0 .. MaxIds
NoBox == [id |-> 0, owner |-> "none", status |-> "absent", ready |-> FALSE]
Box   == [id : Id, owner : Owner \cup {"none", "before"},
          status : {"absent", "created", "running", "stopped"}, ready : BOOLEAN]
Step  == {"idle", "probe", "clean", "net", "pull", "create", "start", "wait", "port",
          "stop", "stop.net"}

TypeOK ==
  /\ kind \in {"anvil", "zakura", "nostr"}
  /\ box \in Box /\ ids \in Id /\ box.id <= ids
  /\ (box.id = 0) = (box.status = "absent") /\ (box.ready => box.status = "running")
  /\ volume \in BOOLEAN /\ network \in [Owner -> BOOLEAN]
  /\ handle \in [Owner -> Id] /\ netHeld \in [Owner -> BOOLEAN]
  /\ initialized \in [Owner -> BOOLEAN] /\ reused \in [Owner -> BOOLEAN]
  /\ pc \in [Owner -> Step] /\ local \in [Owner -> Id] /\ calls \in [Owner -> 0 .. MaxCalls]
  /\ told \in BOOLEAN /\ swallowed \in BOOLEAN
  /\ \A o, p \in Owner : handle[o] = handle[p] /\ o # p => handle[o] = 0

\* What a killed run may have left: a container, which may still answer.
Before ==
  {NoBox} \cup {b \in Box : b.id = 1 /\ b.owner = "before" /\ b.status # "absent"
                            /\ (b.ready => b.status = "running")}

Init ==
  /\ kind \in {"anvil", "zakura", "nostr"}
  /\ box \in IF kind = "nostr" THEN {NoBox} ELSE Before
  /\ ids = box.id /\ volume = (kind = "anvil" /\ box.id # 0)
  /\ network = [o \in Owner |-> FALSE] /\ netHeld = [o \in Owner |-> FALSE]
  /\ handle = [o \in Owner |-> 0]
  /\ initialized = [o \in Owner |-> FALSE] /\ reused = [o \in Owner |-> FALSE]
  /\ pc = [o \in Owner |-> "idle"] /\ local = [o \in Owner |-> 0]
  /\ calls = [o \in Owner |-> 0]
  /\ told = FALSE /\ swallowed = FALSE

-----------------------------------------------------------------------------
(* Calls.                                                                  *)

Goto(o, step) == pc' = [pc EXCEPT ![o] = step] /\ UNCHANGED <<calls, told>>

\* The call is over and its locals are gone.
Return(o, r) ==
  /\ pc' = [pc EXCEPT ![o] = "idle"] /\ local' = [local EXCEPT ![o] = 0]
  /\ told' = (told \/ r = "err") /\ UNCHANGED calls

Fail(o) == Return(o, "err") /\ UNCHANGED <<kind, dockerVars, ownerVars, swallowed>>

Begin(o, step, id) ==
  /\ pc[o] = "idle" /\ calls[o] < MaxCalls
  /\ pc' = [pc EXCEPT ![o] = step] /\ local' = [local EXCEPT ![o] = id]
  /\ calls' = [calls EXCEPT ![o] = @ + 1]
  /\ UNCHANGED <<kind, dockerVars, ownerVars, told, swallowed>>

\* AnvilChain::initialize, which does nothing the second time, and start.
Initialize(o) == kind = "anvil" /\ ~initialized[o] /\ Begin(o, "clean", 0)

StartAnvil(o) == kind = "anvil" /\ handle[o] # 0 /\ Begin(o, "start", handle[o])

StartRefused(o) == kind = "anvil" /\ handle[o] = 0 /\ pc[o] = "idle" /\ Fail(o)

\* spawn_zakura_local makes a new node.
SpawnZakura(o) ==
  kind = "zakura" /\ handle[o] = 0 /\ ~reused[o] /\ Begin(o, "probe", 0)

StartRelay(o) == kind = "nostr" /\ Begin(o, "pull", 0)

\* stop, or teardown, which leaves a reused node alone.
Stop(o) == ~reused[o] /\ Begin(o, "stop", handle[o])

-----------------------------------------------------------------------------
(* Steps towards a running container.                                      *)

Answers == box.status = "running" /\ box.ready

\* A node that answers on the host port is adopted; the probe may miss it.
Probe(o) ==
  /\ pc[o] = "probe"
  /\ \/ /\ Answers /\ reused' = [reused EXCEPT ![o] = TRUE] /\ Return(o, "ok")
     \/ Goto(o, "clean") /\ UNCHANGED <<local, reused>>
  /\ UNCHANGED <<kind, dockerVars, handle, netHeld, initialized, swallowed>>

\* The outcomes of a stop and a forced removal, neither of which need succeed.
AfterRemoval ==
  {NoBox, box} \cup
  IF box.id = 0 THEN {} ELSE {[box EXCEPT !.status = "stopped", !.ready = FALSE]}

InUse(o, b) == b.owner = o /\ b.status = "running"

\* By name, whoever made the container; then the network of this owner.
Clean(o) ==
  /\ pc[o] = "clean"
  /\ \E b \in AfterRemoval, n \in BOOLEAN :
       /\ box' = b
       /\ n => network[o]
       /\ ~n => ~network[o] \/ (kind = "anvil" /\ ~InUse(o, b))
       /\ network' = [network EXCEPT ![o] = n]
  /\ Goto(o, IF kind = "anvil" THEN "net" ELSE "pull")
  /\ UNCHANGED <<kind, ids, volume, ownerVars, local, swallowed>>

CreateNetwork(o) ==
  /\ pc[o] = "net"
  /\ \/ /\ network' = [network EXCEPT ![o] = TRUE] /\ Goto(o, "pull")
        /\ UNCHANGED <<kind, box, ids, volume, ownerVars, local, swallowed>>
     \/ Fail(o)

Pull(o) ==
  /\ pc[o] = "pull"
  /\ \/ Goto(o, "create") /\ UNCHANGED <<kind, dockerVars, ownerVars, local, swallowed>>
     \/ Fail(o)

\* A taken name is refused.
NewBox(o) ==
  /\ box.id = 0 /\ ids < MaxIds
  /\ ids' = ids + 1
  /\ box' = [id |-> ids + 1, owner |-> o, status |-> "created", ready |-> FALSE]
  /\ volume' = (volume \/ kind = "anvil")
  /\ UNCHANGED network

\* The last step of an Anvil's initialize, which only now keeps anything.
Create(o) ==
  /\ pc[o] = "create"
  /\ \/ /\ NewBox(o) /\ kind = "anvil"
        /\ handle' = [handle EXCEPT ![o] = ids + 1]
        /\ netHeld' = [netHeld EXCEPT ![o] = TRUE]
        /\ initialized' = [initialized EXCEPT ![o] = TRUE]
        /\ Return(o, "ok") /\ UNCHANGED <<kind, reused, swallowed>>
     \/ /\ NewBox(o) /\ kind # "anvil"
        /\ local' = [local EXCEPT ![o] = ids + 1] /\ Goto(o, "start")
        /\ UNCHANGED <<kind, ownerVars, swallowed>>
     \/ Fail(o)

\* The container under the name is the one whose id the call has in hand.
Mine(o) == local[o] # 0 /\ box.id = local[o]

Runs(o) ==
  /\ Mine(o)
  /\ box' = IF box.status = "running" THEN box ELSE [box EXCEPT !.status = "running"]
  /\ UNCHANGED <<ids, volume, network>>

\* (Mutant) The relay's id is kept only once its port is known.
StartBoxMut(o) ==
  /\ pc[o] = "start"
  /\ \/ /\ Runs(o) /\ Goto(o, IF kind = "nostr" THEN "idle" ELSE "wait")
        /\ UNCHANGED <<kind, ownerVars, local, swallowed>>
     \/ Fail(o)

\* The relay's id is kept once it runs, a Zakura node's only at the end.
StartBox(o) ==
  /\ pc[o] = "start"
  /\ \/ /\ Runs(o) /\ Goto(o, IF kind = "nostr" THEN "port" ELSE "wait")
        /\ handle' = IF kind = "nostr" THEN [handle EXCEPT ![o] = local[o]] ELSE handle
        /\ UNCHANGED <<kind, netHeld, initialized, reused, local, swallowed>>
     \/ Fail(o)

HostPort(o) ==
  /\ pc[o] = "port"
  /\ \E r \in {"ok", "err"} : Return(o, r)
  /\ UNCHANGED <<kind, dockerVars, ownerVars, swallowed>>

\* (Mutant) Whatever container answers is the one that is kept.
WaitMutAdopt(o) ==
  /\ pc[o] = "wait"
  /\ \/ /\ Answers /\ (kind = "anvil" => box.id = local[o])
        /\ handle' = [handle EXCEPT ![o] = box.id] /\ Return(o, "ok")
        /\ UNCHANGED <<kind, dockerVars, netHeld, initialized, reused, swallowed>>
     \/ Fail(o)

\* Anvil is asked in its own container, Zakura on the host port, whoever
\* listens there; the poll gives up in the end.
Wait(o) ==
  /\ pc[o] = "wait"
  /\ \/ /\ Answers /\ (kind = "anvil" => box.id = local[o])
        /\ handle' = [handle EXCEPT ![o] = local[o]] /\ Return(o, "ok")
        /\ UNCHANGED <<kind, dockerVars, netHeld, initialized, reused, swallowed>>
     \/ Fail(o)

-----------------------------------------------------------------------------
(* Steps towards none.                                                     *)

\* The id is taken, then stop and removal are tried.  The relay manager warns
\* of a failure, the two others ignore it.
StopBox(o) ==
  /\ pc[o] = "stop"
  /\ handle' = [handle EXCEPT ![o] = 0]
  /\ \E b \in IF Mine(o) THEN AfterRemoval ELSE {box} :
       /\ box' = b
       /\ swallowed' = (swallowed \/ (Mine(o) /\ b.id # 0 /\ kind # "nostr"))
       /\ CASE kind = "anvil"  -> Goto(o, "stop.net") /\ UNCHANGED local
            [] kind = "zakura" -> Return(o, "ok")
            [] kind = "nostr"  -> Return(o, IF Mine(o) /\ b.id # 0 THEN "err" ELSE "ok")
  /\ UNCHANGED <<kind, ids, volume, network, netHeld, initialized, reused>>

\* The volume, by its name if initialize got that far, and the network, whose
\* id is taken.  A volume in use is another owner's now.
StopNetwork(o) ==
  /\ pc[o] = "stop.net"
  /\ \E v \in {volume} \cup (IF initialized[o] /\ box.id = 0 THEN {FALSE} ELSE {}),
        n \in {network[o]} \cup (IF netHeld[o] /\ ~InUse(o, box) THEN {FALSE} ELSE {}) :
       /\ volume' = v /\ network' = [network EXCEPT ![o] = n]
       /\ swallowed' = (swallowed \/ (v /\ initialized[o] /\ box.id = 0) \/ (n /\ netHeld[o]))
  /\ netHeld' = [netHeld EXCEPT ![o] = FALSE]
  /\ Return(o, "ok")
  /\ UNCHANGED <<kind, box, ids, handle, initialized, reused>>

-----------------------------------------------------------------------------
(* What else happens.                                                      *)

\* A future is dropped at an await; the request under way may be carried out,
\* and an id that was taken for it is gone.
Cancel(o) ==
  /\ pc[o] # "idle" /\ Return(o, "err")
  /\ \/ UNCHANGED <<dockerVars, ownerVars>>
     \/ pc[o] = "create" /\ NewBox(o) /\ UNCHANGED ownerVars
     \/ pc[o] = "start" /\ Runs(o) /\ UNCHANGED ownerVars
     \/ /\ pc[o] = "net" /\ network' = [network EXCEPT ![o] = TRUE]
        /\ UNCHANGED <<box, ids, volume, ownerVars>>
     \/ /\ pc[o] = "clean" /\ box' \in AfterRemoval
        /\ UNCHANGED <<ids, volume, network, ownerVars>>
     \/ /\ pc[o] = "stop" /\ handle' = [handle EXCEPT ![o] = 0]
        /\ box' \in IF Mine(o) THEN AfterRemoval ELSE {box}
        /\ UNCHANGED <<ids, volume, network, netHeld, initialized, reused>>
     \/ /\ pc[o] = "stop.net" /\ netHeld' = [netHeld EXCEPT ![o] = FALSE]
        /\ UNCHANGED <<dockerVars, handle, initialized, reused>>
  /\ UNCHANGED <<kind, swallowed>>

BoxReady ==
  /\ box.status = "running" /\ ~box.ready /\ box' = [box EXCEPT !.ready = TRUE]
  /\ UNCHANGED <<kind, ids, volume, network, ownerVars, callVars, told, swallowed>>

BoxExits ==
  /\ box.status = "running" /\ box' = [box EXCEPT !.status = "stopped", !.ready = FALSE]
  /\ UNCHANGED <<kind, ids, volume, network, ownerVars, callVars, told, swallowed>>

Continue(o) ==
  \/ Probe(o) \/ Clean(o) \/ CreateNetwork(o) \/ Pull(o) \/ Create(o) \/ StartBox(o)
  \/ HostPort(o) \/ Wait(o) \/ StopBox(o) \/ StopNetwork(o)

Next ==
  \/ \E o \in Owner :
       \/ Initialize(o) \/ StartAnvil(o) \/ StartRefused(o) \/ SpawnZakura(o) \/ StartRelay(o)
       \/ Stop(o) \/ Continue(o) \/ Cancel(o)
  \/ BoxReady \/ BoxExits

Spec == Init /\ [][Next]_vars

-----------------------------------------------------------------------------
(* Properties.                                                             *)

Quiet == \A o \in Owner : pc[o] = "idle"

\* Whatever the namesakes do to each other's containers: a container that
\* nobody can reach any more, a volume or a network that nobody will remove,
\* is there only if an owner was told of an error or a cancellation, or a
\* removal failed in silence, or a killed run left it.
NoOrphan ==
  Quiet /\ ~told /\ ~swallowed =>
    /\ box.id # 0 => box.owner = "before" \/ \E o \in Owner : handle[o] = box.id
    /\ volume => box.id # 0 \/ \E o \in Owner : handle[o] # 0
    /\ \A o \in Owner : network[o] => netHeld[o]

=============================================================================
