----------------------------- MODULE CosmosChain -----------------------------
(***************************************************************************)
(* The life of one Cosmos chain (ict-rs/src/chain/cosmos.rs) over a        *)
(* container runtime: initialize, start, stop, the upgrade sequence        *)
(* stop_all_nodes / upgrade_version / start_all_nodes, and the sidecar     *)
(* calls.  The calls take `&mut self`, so one runs at a time; each `await` *)
(* on the runtime is a step, may fail, and the process may be killed       *)
(* between any two of them and a new one started under the same test name. *)
(*                                                                         *)
(* Names 1..NumVals are validators, then come the full nodes, then the     *)
(* sidecars.  The runtime is Docker: container names are unique, ids are   *)
(* never reused, a volume in use or a network with a running container     *)
(* cannot be removed.  A struct's `container_id` is therefore one of three *)
(* things: "none", "live" (the id of the container that carries the        *)
(* struct's name now) or "dead" (an id the runtime no longer knows).       *)
(*                                                                         *)
(* create_nodes pushes onto `validators` and `full_nodes`: after k calls   *)
(* there are k structs per node name, its copies 1..k.                     *)
(***************************************************************************)
EXTENDS Naturals

CONSTANTS NumVals, NumFulls, NumSidecars,
          MaxCopies          \* bound: calls of create_nodes in one process

ASSUME ConstAssumption ==
  /\ NumVals \in Nat \ {0}   \* CosmosChain::new raises 0 validators to 1
  /\ NumFulls \in Nat
  /\ NumSidecars \in Nat
  /\ MaxCopies \in Nat \ {0}

Node    == 1 .. (NumVals + NumFulls)
Sidecar == (NumVals + NumFulls + 1) .. (NumVals + NumFulls + NumSidecars)
Name    == 1 .. (NumVals + NumFulls + NumSidecars)
Copy    == 1 .. MaxCopies
Slot    == Name \X Copy      \* one slot per struct that may exist
Primary == <<1, 1>>          \* validators.first()

VARIABLES
  \* the runtime
  status,       \* container of each name, "absent" if there is none
  binary,       \* is the chain binary running in it?
  current,      \* was it created from the image the config names now?
  vol,          \* home volume of each node
  net,          \* does the chain's network exist?
  \* the CosmosChain value of the running process
  copies,       \* structs per node name
  held,         \* container_id of each struct
  netHeld,      \* network_id is Some
  initialized,
  preStart,     \* the sidecars whose config says pre_start
  \* the call in progress
  pc, todo,     \* its step, and the slots its loop has still to visit
  ret,          \* result of the last call
  reported      \* has this call returned or logged a failure?

runtimeVars == <<status, binary, current, vol, net>>
chainVars   == <<copies, held, netHeld, initialized, preStart>>
callVars    == <<pc, todo, ret, reported>>
vars        == <<runtimeVars, chainVars, callVars>>

Status == {"absent", "created", "running", "paused", "stopped"}
Handle == {"none", "live", "dead"}
\* "stale" is the home directory an earlier process left behind
Volume == {"absent", "empty", "home", "stale"}
Step   == {"idle",
           "init.clean", "init.net", "init.pull", "init.create", "init.start", "init.home",
           "start.genesis", "start.pre", "start.pre.up", "start.exec", "start.wait",
           "start.post", "start.post.up",
           "stop.side", "stop.node", "stop.vol", "stop.net",
           "halt", "up.pull", "up.remove", "up.create", "up.start", "up.exec", "up.wait",
           "side.create", "side.up", "side.stop"}

TypeOK ==
  /\ status \in [Name -> Status]
  /\ binary \in [Name -> BOOLEAN]
  /\ current \in [Name -> BOOLEAN]
  /\ vol \in [Node -> Volume]
  /\ net \in BOOLEAN
  /\ copies \in 0 .. MaxCopies
  /\ held \in [Name -> [Copy -> Handle]]
  /\ netHeld \in BOOLEAN
  /\ initialized \in BOOLEAN
  /\ preStart \subseteq Sidecar
  /\ pc \in Step
  /\ todo \in SUBSET Slot
  /\ ret \in {"none", "ok", "err"}
  /\ reported \in BOOLEAN

NoHandles == [n \in Name |-> [c \in Copy |-> "none"]]

Init ==
  /\ status = [n \in Name |-> "absent"]
  /\ binary = [n \in Name |-> FALSE]
  /\ current = [n \in Name |-> FALSE]
  /\ vol = [n \in Node |-> "absent"]
  /\ net = FALSE
  /\ copies = 0 /\ held = NoHandles /\ netHeld = FALSE /\ initialized = FALSE /\ preStart = {}
  /\ pc = "idle" /\ todo = {} /\ ret = "none" /\ reported = FALSE

-----------------------------------------------------------------------------
(* The order of the loops: validators before full nodes, and within each   *)
(* vector the structs in the order they were pushed.                       *)

Slots(names, k) == names \X (1 .. k)

Before(s, t) ==
  \/ s[1] <= NumVals /\ t[1] > NumVals
  \/ /\ (s[1] <= NumVals) = (t[1] <= NumVals)
     /\ s[2] < t[2] \/ (s[2] = t[2] /\ s[1] <= t[1])

\* The loop's current struct is copy c of name n.
Current(n, c) == <<n, c>> \in todo /\ \A t \in todo : Before(<<n, c>>, t)

Goto(step) == pc' = step /\ UNCHANGED <<ret, reported>>

\* The call returns Ok, or Err.
Return(r) ==
  /\ pc' = "idle" /\ todo' = {} /\ ret' = r
  /\ reported' = (reported \/ r = "err")

\* A call begins.
Begin(step, slots) ==
  /\ pc = "idle"
  /\ pc' = step /\ todo' = slots /\ ret' = "none" /\ reported' = FALSE
  /\ UNCHANGED <<runtimeVars, chainVars>>

\* A loop has visited every slot: go on with the next one.
LoopDone(from, to, slots) ==
  /\ pc = from /\ todo = {}
  /\ Goto(to) /\ todo' = slots
  /\ UNCHANGED <<runtimeVars, chainVars>>

\* The call gives up with an error, having changed nothing in this step.
FailAt(step) ==
  /\ pc = step
  /\ Return("err")
  /\ UNCHANGED <<runtimeVars, chainVars>>

-----------------------------------------------------------------------------
(* The runtime.                                                            *)

\* (Mutant) A removal leaves the container in a state of its own.
AfterRemovalMut(n) == {"absent", "removing", status[n]}

\* Status of n's container after stop_container and remove_container(force):
\* gone, untouched, or only stopped.
AfterRemoval(n) ==
  {"absent", status[n]} \cup (IF status[n] \in {"running", "paused"} THEN {"stopped"} ELSE {})

\* Handles once the container of n is in status st: a removed container
\* leaves the ids that named it dangling.
Dangling(n, st) ==
  IF st = "absent"
  THEN [held EXCEPT ![n] = [c \in Copy |-> IF held[n][c] = "live" THEN "dead" ELSE held[n][c]]]
  ELSE held

SetStatus(n, st) ==
  /\ status' = [status EXCEPT ![n] = st]
  /\ binary' = [binary EXCEPT ![n] = @ /\ st = "running"]
  /\ current' = [current EXCEPT ![n] = @ /\ st # "absent"]

\* exec works in a running container whose id we hold.
CanExec(n, c) == held[n][c] = "live" /\ status[n] = "running"

-----------------------------------------------------------------------------
(* Steps on one node struct.                                               *)

\* The container is created: its id is kept, ids of a removed one dangle.
CreateSucceeds(n, c, v, next) ==
  /\ status' = [status EXCEPT ![n] = "created"]
  /\ binary' = [binary EXCEPT ![n] = FALSE]
  /\ current' = [current EXCEPT ![n] = TRUE]
  /\ vol' = [vol EXCEPT ![n] = IF v = "absent" THEN "empty" ELSE v]
  /\ held' = [Dangling(n, "absent") EXCEPT ![n][c] = "live"]
  /\ Goto(next)
  /\ UNCHANGED <<net, copies, netHeld, initialized, preStart, todo>>

CreateFails(n, st, v) ==
  /\ SetStatus(n, st)
  /\ vol' = [vol EXCEPT ![n] = v]
  /\ held' = Dangling(n, st)
  /\ Return("err")
  /\ UNCHANGED <<net, copies, netHeld, initialized, preStart>>

\* (Mutant) On a name conflict the container found is adopted.
CreateNodeMut(n, c, keepVolume, next) ==
  \E st \in AfterRemoval(n) :
    \/ st = "absent" /\ CreateSucceeds(n, c, vol[n], next)
    \/ /\ st # "absent"
       /\ SetStatus(n, st)
       /\ held' = [held EXCEPT ![n][c] = "live"]
       /\ Goto(next)
       /\ UNCHANGED <<vol, net, copies, netHeld, initialized, preStart, todo>>

\* ChainNode::create_container and, with keepVolume, create_container_for_
\* upgrade: stop and remove whatever carries the name and, for a fresh node,
\* its volume; ignore the failures of all three; then create.
CreateNode(n, c, keepVolume, next) ==
  \E st \in AfterRemoval(n), v \in {vol[n], "absent"} :
    /\ v = vol[n] \/ (st = "absent" /\ ~keepVolume)
    /\ \/ st = "absent" /\ CreateSucceeds(n, c, v, next)
       \/ CreateFails(n, st, v)

\* start_container: start, then look up the host ports.  The lookup may fail
\* when the container already runs.
StartBox(n, c, next) ==
  \/ /\ held[n][c] = "live" /\ status[n] # "paused"
     /\ status' = [status EXCEPT ![n] = "running"]
     /\ \/ Goto(next) /\ todo' = todo \ {<<n, c>>}
        \/ Return("err")
     /\ UNCHANGED <<binary, current, vol, net, chainVars>>
  \/ /\ Return("err")
     /\ UNCHANGED <<runtimeVars, chainVars>>

\* The handle is taken first, then the container removed: when the removal
\* fails the id is gone.  A dead id makes the removal fail as well.
TakeAndRemove(n, c, st) ==
  \/ /\ held[n][c] = "live" /\ st \in AfterRemoval(n)
     /\ SetStatus(n, st)
     /\ held' = [Dangling(n, st) EXCEPT ![n][c] = "none"]
  \/ /\ held[n][c] # "live" /\ st = status[n]
     /\ held' = [held EXCEPT ![n][c] = "none"]
     /\ UNCHANGED <<status, binary, current>>

RemovalFailed(n, c, st) == held[n][c] = "dead" \/ (held[n][c] = "live" /\ st # "absent")

\* exec_start_chain: launch the binary in the background.
ExecStartChain(n, c) ==
  \/ /\ CanExec(n, c)
     /\ binary' = [binary EXCEPT ![n] = TRUE]
     /\ todo' = todo \ {<<n, c>>}
     /\ UNCHANGED <<status, current, vol, net, chainVars, pc, ret, reported>>
  \/ /\ Return("err")
     /\ UNCHANGED <<runtimeVars, chainVars>>

\* Poll the primary's height once a second; give up after 60 attempts, or
\* when its log shows that the binary crashed.
WaitForBlocks(next, slots) ==
  \/ /\ CanExec(1, 1) /\ binary[1]
     /\ IF next = "idle" THEN Return("ok") ELSE Goto(next) /\ todo' = slots
     /\ UNCHANGED <<runtimeVars, chainVars>>
  \/ /\ Return("err")
     /\ UNCHANGED <<runtimeVars, chainVars>>

-----------------------------------------------------------------------------
(* initialize                                                              *)

\* Returns at once when the chain is initialized.
Initialize ==
  /\ ~initialized
  /\ copies < MaxCopies
  /\ Begin("init.clean", Slots(Node, 1))

\* Pre-cleanup by name of what an earlier run left, errors ignored.
PreClean ==
  /\ pc = "init.clean"
  /\ \E n \in Node, c \in Copy :
       /\ Current(n, c)
       /\ \E st \in AfterRemoval(n) :
            /\ SetStatus(n, st)
            /\ held' = Dangling(n, st)
       /\ todo' = todo \ {<<n, c>>}
  /\ UNCHANGED <<vol, net, copies, netHeld, initialized, preStart, pc, ret, reported>>

PreCleanDone == LoopDone("init.clean", "init.net", {})

\* create_network reuses a network of that name; then create_nodes pushes one
\* struct per node.
CreateNetwork ==
  /\ pc = "init.net"
  /\ net' = TRUE /\ netHeld' = TRUE
  /\ copies' = copies + 1
  /\ Goto("init.pull")
  /\ UNCHANGED <<status, binary, current, vol, held, initialized, preStart, todo>>

InitPull == LoopDone("init.pull", "init.create", Slots(Node, copies))

InitCreate ==
  /\ pc = "init.create"
  /\ \E n \in Node, c \in Copy : Current(n, c) /\ CreateNode(n, c, FALSE, "init.start")

InitStart ==
  /\ pc = "init.start"
  /\ \E n \in Node, c \in Copy : Current(n, c) /\ StartBox(n, c, "init.create")

InitCreateDone == LoopDone("init.create", "init.home", Slots(Node, copies))

\* (Mutant) The exit code of `init` is ignored.
InitHomeMut ==
  /\ pc = "init.home"
  /\ \E n \in Node, c \in Copy :
       /\ Current(n, c)
       /\ vol' = [vol EXCEPT ![n] = IF vol[n] = "empty" THEN "home" ELSE vol[n]]
       /\ todo' = todo \ {<<n, c>>}
  /\ UNCHANGED <<status, binary, current, net, chainVars, pc, ret, reported>>

\* `init` refuses a home that already has a genesis file; a failed one may
\* have written the home in part.
InitHome ==
  /\ pc = "init.home"
  /\ \E n \in Node, c \in Copy :
       /\ Current(n, c)
       /\ \/ /\ CanExec(n, c) /\ vol[n] = "empty"
             /\ vol' = [vol EXCEPT ![n] = "home"]
             /\ \/ todo' = todo \ {<<n, c>>} /\ UNCHANGED <<pc, ret, reported>>
                \/ Return("err")
          \/ Return("err") /\ UNCHANGED vol
  /\ UNCHANGED <<status, binary, current, net, chainVars>>

\* initialize_sidecars pushes the sidecar structs, `initialized` is set.
InitDone ==
  /\ pc = "init.home" /\ todo = {}
  /\ initialized' = TRUE
  /\ preStart' \in SUBSET Sidecar
  /\ Return("ok")
  /\ UNCHANGED <<runtimeVars, copies, held, netHeld>>

-----------------------------------------------------------------------------
(* Sidecars: no pre-cleanup, so a taken name is an error.                  *)

SidecarSlots(pre) == {s \in Slots(Sidecar, 1) : initialized /\ (s[1] \in preStart) = pre}
AllSidecars == SidecarSlots(TRUE) \cup SidecarSlots(FALSE)

SidecarCreate(from, next) ==
  /\ pc = from
  /\ \E n \in Sidecar, c \in Copy :
       /\ Current(n, c)
       /\ \/ /\ status[n] = "absent"
             /\ SetStatus(n, "created")
             /\ held' = [held EXCEPT ![n][c] = "live"]
             /\ Goto(next) /\ UNCHANGED todo
          \/ Return("err") /\ UNCHANGED <<status, binary, current, held>>
  /\ UNCHANGED <<vol, net, copies, netHeld, initialized, preStart>>

\* start_container, then the health poll of wait_for_health.
SidecarUp(from, next) ==
  /\ pc = from
  /\ \E n \in Sidecar, c \in Copy : Current(n, c) /\ StartBox(n, c, next)

SidecarStop(from) ==
  /\ pc = from
  /\ \E n \in Sidecar, c \in Copy :
       /\ Current(n, c)
       /\ \E st \in Status :
            /\ TakeAndRemove(n, c, st)
            /\ reported' = (reported \/ RemovalFailed(n, c, st))
       /\ todo' = todo \ {<<n, c>>}
  /\ UNCHANGED <<vol, net, copies, netHeld, initialized, preStart, pc, ret>>

StartSidecars   == Begin("side.create", AllSidecars)
SidecarsCreate  == SidecarCreate("side.create", "side.up")
SidecarsUp      == SidecarUp("side.up", "side.create")
StopSidecars    == Begin("side.stop", AllSidecars)
SidecarsStop    == SidecarStop("side.stop")

SidecarsDone ==
  /\ pc \in {"side.create", "side.stop"} /\ todo = {}
  /\ Return("ok")
  /\ UNCHANGED <<runtimeVars, chainVars>>

-----------------------------------------------------------------------------
(* start                                                                   *)

\* Refused before initialize; nothing prevents a second call.
Start ==
  /\ initialized
  /\ Begin("start.genesis", {})

\* Config overrides, genesis pipeline, distribution and peers: execs in
\* every node (GenesisPipeline models them); they need every container up.
GenesisPhase ==
  /\ \A s \in Slots(Node, copies) : CanExec(s[1], s[2])
  /\ LoopDone("start.genesis", "start.pre", SidecarSlots(TRUE))

PreSidecarCreate == SidecarCreate("start.pre", "start.pre.up")
PreSidecarUp     == SidecarUp("start.pre.up", "start.pre")
PreSidecarsDone  == LoopDone("start.pre", "start.exec", Slots(Node, copies))

StartExec ==
  /\ pc = "start.exec"
  /\ \E n \in Node, c \in Copy : Current(n, c) /\ ExecStartChain(n, c)

StartExecDone == LoopDone("start.exec", "start.wait", {})
StartWait     == pc = "start.wait" /\ WaitForBlocks("start.post", SidecarSlots(FALSE))

PostSidecarCreate == SidecarCreate("start.post", "start.post.up")
PostSidecarUp     == SidecarUp("start.post.up", "start.post")

\* The faucet server is launched by an exec on the primary, which may fail;
\* a failed health check is only a warning.
StartDone ==
  /\ pc = "start.post" /\ todo = {}
  /\ \E r \in {"ok", "err"} : Return(r)
  /\ UNCHANGED <<runtimeVars, chainVars>>

-----------------------------------------------------------------------------
(* stop: every failure is logged and skipped, the call returns Ok.         *)

Stop         == Begin("stop.side", AllSidecars)
StopSidecar  == SidecarStop("stop.side")
StopSideDone == LoopDone("stop.side", "stop.node", Slots(Node, copies))

\* (Mutant) The results of stop and removal are dropped.
StopNodeMut ==
  /\ pc = "stop.node"
  /\ \E n \in Node, c \in Copy :
       /\ Current(n, c)
       /\ \E st \in Status : TakeAndRemove(n, c, st)
       /\ todo' = todo \ {<<n, c>>}
  /\ UNCHANGED <<vol, net, copies, netHeld, initialized, preStart, pc, ret, reported>>

StopNode ==
  /\ pc = "stop.node"
  /\ \E n \in Node, c \in Copy :
       /\ Current(n, c)
       /\ \E st \in Status :
            /\ TakeAndRemove(n, c, st)
            /\ reported' = (reported \/ RemovalFailed(n, c, st))
       /\ todo' = todo \ {<<n, c>>}
  /\ UNCHANGED <<vol, net, copies, netHeld, initialized, preStart, pc, ret>>

StopNodesDone == LoopDone("stop.node", "stop.vol", Slots(Node, copies))

\* (Mutant) A volume that cannot be removed is skipped in silence.
StopVolumeMut ==
  /\ pc = "stop.vol"
  /\ \E n \in Node, c \in Copy :
       /\ Current(n, c)
       /\ vol' \in {vol, [vol EXCEPT ![n] = "absent"]}
       /\ todo' = todo \ {<<n, c>>}
  /\ UNCHANGED <<status, binary, current, net, chainVars, pc, ret, reported>>

\* A volume that is missing, or that a container still uses, is not removed.
StopVolume ==
  /\ pc = "stop.vol"
  /\ \E n \in Node, c \in Copy :
       /\ Current(n, c)
       /\ \/ /\ vol[n] # "absent" /\ status[n] = "absent"
             /\ vol' = [vol EXCEPT ![n] = "absent"]
             /\ UNCHANGED reported
          \/ reported' = TRUE /\ UNCHANGED vol
       /\ todo' = todo \ {<<n, c>>}
  /\ UNCHANGED <<status, binary, current, net, chainVars, pc, ret>>

StopVolumesDone == LoopDone("stop.vol", "stop.net", {})

\* network_id.take(), then removal: refused while a container runs on it.
StopNetwork ==
  /\ pc = "stop.net"
  /\ netHeld' = FALSE
  /\ pc' = "idle" /\ todo' = {} /\ ret' = "ok"
  /\ \/ ~netHeld /\ UNCHANGED <<net, reported>>
     \/ /\ netHeld /\ net
        /\ \A n \in Name : status[n] \notin {"running", "paused"}
        /\ net' = FALSE /\ UNCHANGED reported
     \/ netHeld /\ reported' = TRUE /\ UNCHANGED net
  /\ UNCHANGED <<status, binary, current, vol, copies, held, initialized, preStart>>

-----------------------------------------------------------------------------
(* Upgrade: stop_all_nodes, upgrade_version, start_all_nodes.              *)

StopAllNodes == Begin("halt", Slots(Node, copies))

HaltNode ==
  /\ pc = "halt"
  /\ \E n \in Node, c \in Copy :
       /\ Current(n, c)
       /\ \/ /\ held[n][c] # "dead"
             /\ IF held[n][c] = "live" /\ status[n] \in {"running", "paused"}
                THEN SetStatus(n, "stopped")
                ELSE UNCHANGED <<status, binary, current>>
             /\ todo' = todo \ {<<n, c>>}
             /\ UNCHANGED <<pc, ret, reported>>
          \/ /\ held[n][c] # "none"
             /\ Return("err")
             /\ UNCHANGED <<status, binary, current>>
  /\ UNCHANGED <<vol, net, chainVars>>

HaltDone ==
  /\ pc = "halt" /\ todo = {}
  /\ Return("ok")
  /\ UNCHANGED <<runtimeVars, chainVars>>

\* Every node struct gets the new image: no container was created from it.
UpgradeVersion ==
  /\ pc = "idle"
  /\ current' = [n \in Name |-> FALSE]
  /\ UNCHANGED <<status, binary, vol, net, chainVars, callVars>>

StartAllNodes == Begin("up.pull", {})

\* (Mutant) Only the validators are recreated.
UpPullMut == LoopDone("up.pull", "up.remove", Slots(1 .. NumVals, copies))
UpPull    == LoopDone("up.pull", "up.remove", Slots(Node, copies))

UpRemove ==
  /\ pc = "up.remove"
  /\ \E n \in Node, c \in Copy :
       /\ Current(n, c)
       /\ \E st \in Status :
            /\ TakeAndRemove(n, c, st)
            /\ IF RemovalFailed(n, c, st)
               THEN Return("err")
               ELSE Goto("up.create") /\ UNCHANGED todo
  /\ UNCHANGED <<vol, net, copies, netHeld, initialized, preStart>>

\* (Mutant) The upgrade creates containers the way initialize does.
UpCreateMut ==
  /\ pc = "up.create"
  /\ \E n \in Node, c \in Copy : Current(n, c) /\ CreateNode(n, c, FALSE, "up.start")

UpCreate ==
  /\ pc = "up.create"
  /\ \E n \in Node, c \in Copy : Current(n, c) /\ CreateNode(n, c, TRUE, "up.start")

UpStart ==
  /\ pc = "up.start"
  /\ \E n \in Node, c \in Copy : Current(n, c) /\ StartBox(n, c, "up.remove")

UpCreateDone == LoopDone("up.remove", "up.exec", Slots(Node, copies))

UpExec ==
  /\ pc = "up.exec"
  /\ \E n \in Node, c \in Copy : Current(n, c) /\ ExecStartChain(n, c)

UpExecDone == LoopDone("up.exec", "up.wait", {})
UpWait     == pc = "up.wait" /\ WaitForBlocks("idle", {})

-----------------------------------------------------------------------------
(* Calls on a single node, failures of whole steps, and the environment.   *)

\* The steps that may fail without having done anything: network creation,
\* image pulls, the execs of the genesis phase.
StepFails == \E s \in {"init.net", "init.pull", "start.genesis", "up.pull"} : FailAt(s)

\* pause_container and unpause_container of a node.
PauseNode(n, c, from, to) ==
  /\ pc = "idle"
  /\ held[n][c] = "live" /\ status[n] = from
  /\ status' = [status EXCEPT ![n] = to]
  /\ UNCHANGED <<binary, current, vol, net, chainVars, callVars>>

Pause == \E n \in Node, c \in Copy :
  PauseNode(n, c, "running", "paused") \/ PauseNode(n, c, "paused", "running")

\* The chain binary may crash; its container idles on.
BinaryDies ==
  \E n \in Node :
    /\ binary[n] /\ status[n] = "running"
    /\ binary' = [binary EXCEPT ![n] = FALSE]
    /\ UNCHANGED <<status, current, vol, net, chainVars, callVars>>

\* The process is killed; another one builds the same chain anew.  The
\* runtime keeps everything, and a home becomes an earlier run's.
Crash ==
  /\ vol' = [n \in Node |-> IF vol[n] = "home" THEN "stale" ELSE vol[n]]
  /\ copies' = 0 /\ held' = NoHandles /\ netHeld' = FALSE
  /\ initialized' = FALSE /\ preStart' = {}
  /\ pc' = "idle" /\ todo' = {} /\ ret' = "none" /\ reported' = FALSE
  /\ UNCHANGED <<status, binary, current, net>>

InitSteps ==
  \/ Initialize \/ PreClean \/ PreCleanDone \/ CreateNetwork \/ InitPull
  \/ InitCreate \/ InitStart \/ InitCreateDone \/ InitHome \/ InitDone
SidecarSteps ==
  \/ StartSidecars \/ SidecarsCreate \/ SidecarsUp
  \/ StopSidecars \/ SidecarsStop \/ SidecarsDone
StartSteps ==
  \/ Start \/ GenesisPhase \/ PreSidecarCreate \/ PreSidecarUp \/ PreSidecarsDone
  \/ StartExec \/ StartExecDone \/ StartWait
  \/ PostSidecarCreate \/ PostSidecarUp \/ StartDone
StopSteps ==
  \/ Stop \/ StopSidecar \/ StopSideDone \/ StopNode \/ StopNodesDone
  \/ StopVolume \/ StopVolumesDone \/ StopNetwork
UpgradeSteps ==
  \/ StopAllNodes \/ HaltNode \/ HaltDone \/ UpgradeVersion
  \/ StartAllNodes \/ UpPull \/ UpRemove \/ UpCreate \/ UpStart \/ UpCreateDone
  \/ UpExec \/ UpExecDone \/ UpWait

Next == \/ InitSteps \/ SidecarSteps \/ StartSteps \/ StopSteps \/ UpgradeSteps
        \/ StepFails \/ Pause \/ BinaryDies \/ Crash

Spec == Init /\ [][Next]_vars

-----------------------------------------------------------------------------
(* Properties.                                                             *)

Present(n) == status[n] # "absent"

Owner(n) ==
  IF ~Present(n) THEN "none"
  ELSE IF \E c \in Copy : held[n][c] = "live" THEN "held" ELSE "lost"

\* Node.create_container replaces whatever carries the name, also for the
\* duplicate structs a failed initialize leaves behind: no two structs ever
\* hold the same container, and a held id names a container that exists.
HandlesSound ==
  \A n \in Name, c \in Copy :
    held[n][c] = "live" =>
      Present(n) /\ \A d \in Copy : held[n][d] = "live" => d = c

\* An initialize that returns Ok hands over, for every node, a running
\* container held by its struct and a home written by this process, whatever
\* an earlier run left behind and whichever pre-cleanup failed.
InitializeIsFresh ==
  [][pc = "init.home" /\ ret' = "ok" =>
       /\ \A n \in Node, c \in 1 .. copies : CanExec(n, c) /\ vol[n] = "home"
       /\ netHeld /\ net]_vars

\* start_all_nodes preserves data volumes; only stop, or the pre-cleanup of
\* an initialize, gives up the home of a node.
HomeKept ==
  [][\A n \in Node :
       vol[n] = "home" /\ vol'[n] # "home" =>
         Crash \/ pc \in {"init.create", "stop.vol"}]_vars

\* A started or upgraded chain runs: when start returns Ok every node is in a
\* container of its struct, and when start_all_nodes does every one of them
\* was created from the current image, also after failed attempts.
StartIsComplete ==
  [][/\ pc = "start.post" /\ ret' = "ok" => \A n \in Node : Owner(n) = "held"
     /\ pc = "up.wait" /\ ret' = "ok" =>
          \A n \in Node, c \in 1 .. copies : CanExec(n, c) /\ current[n]]_vars

\* stop logs what it could not remove.  A stop that had node structs to stop
\* and logged nothing has removed every node container and every volume,
\* those that failed earlier calls lost included.
QuietStopIsClean ==
  [][pc = "stop.net" /\ ret' = "ok" /\ ~reported' /\ copies > 0 =>
       \A n \in Node : ~Present(n) /\ vol[n] = "absent"]_vars

\* "Pre-cleanup: remove stale containers from a previous failed run"
\* (cosmos.rs:1255): after an initialize no container of the chain is one
\* that this process does not hold.
InitializeRemovesStale ==
  [][pc = "init.home" /\ ret' = "ok" => \A n \in Name : (Owner(n))' # "lost"]_vars

\* The chain keeps the promise of ResourceLedger: outside a crash, no
\* container is ever lost without an error or a warning.
Owners == [n \in Name |-> Owner(n)]
Ledger == INSTANCE ResourceLedger WITH owner <- Owners, reported <- reported
NeverLostSilently == Ledger!Spec
=============================================================================
