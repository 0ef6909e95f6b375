-------------------------- MODULE CosmosChainProofs --------------------------
(***************************************************************************)
(* Proofs about CosmosChain for any number of nodes, sidecars and attempts *)
(* to initialize: its type invariant, and what initialize, start, the      *)
(* upgrade and stop hand over.  Its handles are in CosmosChainLedger.      *)
(***************************************************************************)
EXTENDS CosmosChain, TLAPS

LEMMA NodesAreNames == Node \subseteq Name /\ Sidecar \subseteq Name
  BY ConstAssumption DEF Node, Sidecar, Name

LEMMA FirstSlot == 1 \in Node /\ 1 \in Copy
  BY ConstAssumption DEF Node, Copy

LEMMA SlotsInSlot ==
  ASSUME NEW k \in 0 .. MaxCopies
  PROVE  Slots(Node, k) \subseteq Slot /\ Slots(Node, 1) \subseteq Slot
  BY ConstAssumption, NodesAreNames DEF Slots, Slot, Copy

LEMMA SidecarSlotsInSlot ==
  /\ AllSidecars \subseteq Slot
  /\ \A b \in BOOLEAN : SidecarSlots(b) \subseteq Slot
  BY ConstAssumption, NodesAreNames DEF AllSidecars, SidecarSlots, Slots, Slot, Copy

LEMMA RemovalStatus ==
  ASSUME TypeOK, NEW n \in Name
  PROVE  AfterRemoval(n) \subseteq Status
  BY DEF TypeOK, AfterRemoval, Status

LEMMA DanglingType ==
  ASSUME TypeOK, NEW n \in Name, NEW st
  PROVE  Dangling(n, st) \in [Name -> [Copy -> Handle]]
  BY DEF TypeOK, Dangling, Handle

LEMMA NoHandlesType == NoHandles \in [Name -> [Copy -> Handle]]
  BY DEF NoHandles, Handle

-----------------------------------------------------------------------------
(* Each building block of the actions preserves the types of what it sets. *)

LEMMA ReturnType ==
  ASSUME TypeOK, NEW r \in {"ok", "err"}, Return(r)
  PROVE  /\ pc' \in Step /\ todo' \in SUBSET Slot
         /\ ret' \in {"none", "ok", "err"} /\ reported' \in BOOLEAN
  BY DEF TypeOK, Return, Step

LEMMA GotoType ==
  ASSUME TypeOK, NEW s \in Step, Goto(s)
  PROVE  /\ pc' \in Step
         /\ ret' \in {"none", "ok", "err"} /\ reported' \in BOOLEAN
  BY DEF TypeOK, Goto

LEMMA SetStatusType ==
  ASSUME TypeOK, NEW n \in Name, NEW st \in Status, SetStatus(n, st)
  PROVE  /\ status' \in [Name -> Status]
         /\ binary' \in [Name -> BOOLEAN]
         /\ current' \in [Name -> BOOLEAN]
  BY DEF TypeOK, SetStatus

LEMMA BeginType ==
  ASSUME TypeOK, NEW s \in Step, NEW slots \in SUBSET Slot, Begin(s, slots)
  PROVE  TypeOK'
  BY DEF TypeOK, Begin, runtimeVars, chainVars

LEMMA LoopDoneType ==
  ASSUME TypeOK, NEW from, NEW to \in Step, NEW slots \in SUBSET Slot,
         LoopDone(from, to, slots)
  PROVE  TypeOK'
  BY GotoType DEF TypeOK, LoopDone, runtimeVars, chainVars

LEMMA CreateNodeType ==
  ASSUME TypeOK, NEW n \in Node, NEW c \in Copy, NEW keep \in BOOLEAN,
         NEW next \in Step, CreateNode(n, c, keep, next)
  PROVE  TypeOK'
<1> n \in Name
  BY NodesAreNames
<1>1. PICK st \in AfterRemoval(n), v \in {vol[n], "absent"} :
         CreateSucceeds(n, c, v, next) \/ CreateFails(n, st, v)
  BY DEF CreateNode
<1>2. st \in Status /\ v \in Volume
  BY RemovalStatus DEF TypeOK, Volume
<1>3. CASE CreateSucceeds(n, c, v, next)
  <2>1. held' \in [Name -> [Copy -> Handle]]
    BY <1>3, DanglingType DEF CreateSucceeds, Handle
  <2>2. status' \in [Name -> Status] /\ vol' \in [Node -> Volume]
    BY <1>2, <1>3 DEF CreateSucceeds, TypeOK, Status, Volume
  <2> QED
    BY <1>3, <2>1, <2>2, GotoType DEF CreateSucceeds, TypeOK
<1>4. CASE CreateFails(n, st, v)
  BY <1>2, <1>4, DanglingType, SetStatusType, ReturnType DEF CreateFails, TypeOK
<1> QED
  BY <1>1, <1>3, <1>4

LEMMA StartBoxType ==
  ASSUME TypeOK, NEW n \in Name, NEW c \in Copy, NEW next \in Step,
         StartBox(n, c, next)
  PROVE  TypeOK'
<1>1. CASE Return("err") /\ UNCHANGED <<runtimeVars, chainVars>>
  BY <1>1, ReturnType DEF TypeOK, runtimeVars, chainVars
<1>2. CASE /\ status' = [status EXCEPT ![n] = "running"]
           /\ (Goto(next) /\ todo' = todo \ {<<n, c>>}) \/ Return("err")
           /\ UNCHANGED <<binary, current, vol, net, chainVars>>
  <2>1. status' \in [Name -> Status]
    BY <1>2 DEF TypeOK, Status
  <2> QED
    BY <1>2, <2>1, ReturnType, GotoType DEF TypeOK, chainVars
<1> QED
  BY <1>1, <1>2 DEF StartBox

LEMMA TakeAndRemoveType ==
  ASSUME TypeOK, NEW n \in Name, NEW c \in Copy, NEW st \in Status,
         TakeAndRemove(n, c, st)
  PROVE  /\ held' \in [Name -> [Copy -> Handle]]
         /\ status' \in [Name -> Status]
         /\ binary' \in [Name -> BOOLEAN]
         /\ current' \in [Name -> BOOLEAN]
<1>1. CASE SetStatus(n, st) /\ held' = [Dangling(n, st) EXCEPT ![n][c] = "none"]
  <2>1. held' \in [Name -> [Copy -> Handle]]
    BY <1>1, DanglingType DEF Handle
  <2> QED
    BY <1>1, <2>1, SetStatusType
<1>2. CASE /\ held' = [held EXCEPT ![n][c] = "none"]
           /\ UNCHANGED <<status, binary, current>>
  BY <1>2 DEF TypeOK, Handle
<1> QED
  BY <1>1, <1>2 DEF TakeAndRemove

LEMMA ExecStartType ==
  ASSUME TypeOK, NEW n \in Name, NEW c \in Copy, ExecStartChain(n, c)
  PROVE  TypeOK'
  BY ReturnType DEF TypeOK, ExecStartChain, runtimeVars, chainVars

LEMMA WaitType ==
  ASSUME TypeOK, NEW next \in Step, NEW slots \in SUBSET Slot,
         WaitForBlocks(next, slots)
  PROVE  TypeOK'
  BY ReturnType, GotoType DEF TypeOK, WaitForBlocks, runtimeVars, chainVars

-----------------------------------------------------------------------------
(* Type correctness, one lemma per group of actions of Next.               *)

\* An initialize in progress has not reached its create_nodes yet: there is
\* room for one more copy.
Room == pc \in {"init.clean", "init.net"} => copies < MaxCopies

LEMMA InitStepsType == TypeOK /\ Room /\ InitSteps => TypeOK'
<1> SUFFICES ASSUME TypeOK, Room, InitSteps PROVE TypeOK'
  OBVIOUS
<1> USE DEF runtimeVars, chainVars
<1>0. Slots(Node, copies) \in SUBSET Slot /\ Slots(Node, 1) \in SUBSET Slot
  BY SlotsInSlot DEF TypeOK
<1>1. CASE Initialize
  BY <1>0, <1>1, BeginType DEF Initialize, Step
<1>2. CASE PreClean
  <2>0. PICK n \in Node, c \in Copy :
          /\ \E st \in AfterRemoval(n) : SetStatus(n, st) /\ held' = Dangling(n, st)
          /\ todo' = todo \ {<<n, c>>}
    BY <1>2 DEF PreClean
  <2>1. PICK st \in AfterRemoval(n) : SetStatus(n, st) /\ held' = Dangling(n, st)
    BY <2>0
  <2>2. n \in Name /\ st \in Status
    BY NodesAreNames, RemovalStatus
  <2> QED
    BY <1>2, <2>0, <2>1, <2>2, SetStatusType, DanglingType DEF PreClean, TypeOK
<1>3. CASE PreCleanDone
  BY <1>3, LoopDoneType DEF PreCleanDone, Step
<1>4. CASE CreateNetwork
  <2>1. copies' \in 0 .. MaxCopies
    BY <1>4, ConstAssumption DEF CreateNetwork, TypeOK, Room
  <2>2. pc' \in Step /\ ret' \in {"none", "ok", "err"} /\ reported' \in BOOLEAN
    BY <1>4, GotoType DEF CreateNetwork, Step
  <2> QED
    BY <1>4, <2>1, <2>2 DEF CreateNetwork, TypeOK
<1>5. CASE InitPull
  BY <1>0, <1>5, LoopDoneType DEF InitPull, Step
<1>6. CASE InitCreate
  BY <1>6, CreateNodeType DEF InitCreate, Step
<1>7. CASE InitStart
  BY <1>7, StartBoxType, NodesAreNames DEF InitStart, Step
<1>8. CASE InitCreateDone
  BY <1>0, <1>8, LoopDoneType DEF InitCreateDone, Step
<1>9. CASE InitHome
  <2>1. vol' \in [Node -> Volume]
    BY <1>9 DEF InitHome, TypeOK, Volume
  <2>2. pc' \in Step /\ todo' \in SUBSET Slot
        /\ ret' \in {"none", "ok", "err"} /\ reported' \in BOOLEAN
    BY <1>9, ReturnType DEF InitHome, TypeOK
  <2> QED
    BY <1>9, <2>1, <2>2 DEF InitHome, TypeOK
<1>10. CASE InitDone
  BY <1>10, ReturnType DEF InitDone, TypeOK
<1> QED
  BY <1>1, <1>2, <1>3, <1>4, <1>5, <1>6, <1>7, <1>8, <1>9, <1>10 DEF InitSteps

LEMMA SidecarCreateType ==
  ASSUME TypeOK, NEW from, NEW next \in Step, SidecarCreate(from, next)
  PROVE  TypeOK'
<1>1. PICK n \in Sidecar, c \in Copy :
         \/ /\ SetStatus(n, "created")
            /\ held' = [held EXCEPT ![n][c] = "live"]
            /\ Goto(next) /\ UNCHANGED todo
         \/ Return("err") /\ UNCHANGED <<status, binary, current, held>>
  BY DEF SidecarCreate
<1>2. n \in Name /\ "created" \in Status
  BY NodesAreNames DEF Status
<1>3. UNCHANGED <<vol, net, copies, netHeld, initialized, preStart>>
  BY DEF SidecarCreate
<1>4. CASE /\ SetStatus(n, "created") /\ held' = [held EXCEPT ![n][c] = "live"]
           /\ Goto(next) /\ UNCHANGED todo
  <2>1. held' \in [Name -> [Copy -> Handle]]
    BY <1>4 DEF TypeOK, Handle
  <2> QED
    BY <1>2, <1>3, <1>4, <2>1, SetStatusType, GotoType DEF TypeOK
<1>5. CASE Return("err") /\ UNCHANGED <<status, binary, current, held>>
  BY <1>3, <1>5, ReturnType DEF TypeOK
<1> QED
  BY <1>1, <1>4, <1>5

LEMMA SidecarUpType ==
  ASSUME TypeOK, NEW from, NEW next \in Step, SidecarUp(from, next)
  PROVE  TypeOK'
  BY StartBoxType, NodesAreNames DEF SidecarUp

LEMMA SidecarStopType ==
  ASSUME TypeOK, NEW from, SidecarStop(from)
  PROVE  TypeOK'
<1>1. PICK n \in Sidecar, c \in Copy, st \in Status :
         /\ TakeAndRemove(n, c, st)
         /\ reported' = (reported \/ RemovalFailed(n, c, st))
         /\ todo' = todo \ {<<n, c>>}
  BY DEF SidecarStop
<1>2. reported' \in BOOLEAN
  BY <1>1 DEF TypeOK, RemovalFailed
<1> QED
  BY <1>1, <1>2, TakeAndRemoveType, NodesAreNames DEF SidecarStop, TypeOK

LEMMA SidecarStepsType == TypeOK /\ SidecarSteps => TypeOK'
<1> SUFFICES ASSUME TypeOK, SidecarSteps PROVE TypeOK'
  OBVIOUS
<1>1. CASE StartSidecars \/ StopSidecars
  BY <1>1, BeginType, SidecarSlotsInSlot DEF StartSidecars, StopSidecars, Step
<1>2. CASE SidecarsCreate
  BY <1>2, SidecarCreateType DEF SidecarsCreate, Step
<1>3. CASE SidecarsUp
  BY <1>3, SidecarUpType DEF SidecarsUp, Step
<1>4. CASE SidecarsStop
  BY <1>4, SidecarStopType DEF SidecarsStop
<1>5. CASE SidecarsDone
  BY <1>5, ReturnType DEF SidecarsDone, TypeOK, runtimeVars, chainVars
<1> QED
  BY <1>1, <1>2, <1>3, <1>4, <1>5 DEF SidecarSteps

LEMMA StartStepsType == TypeOK /\ StartSteps => TypeOK'
<1> SUFFICES ASSUME TypeOK, StartSteps PROVE TypeOK'
  OBVIOUS
<1>0. /\ Slots(Node, copies) \in SUBSET Slot
      /\ SidecarSlots(TRUE) \in SUBSET Slot /\ SidecarSlots(FALSE) \in SUBSET Slot
  BY SlotsInSlot, SidecarSlotsInSlot DEF TypeOK
<1>1. CASE Start
  BY <1>1, BeginType DEF Start, Step
<1>2. CASE GenesisPhase
  BY <1>0, <1>2, LoopDoneType DEF GenesisPhase, Step
<1>3. CASE PreSidecarCreate \/ PostSidecarCreate
  BY <1>3, SidecarCreateType DEF PreSidecarCreate, PostSidecarCreate, Step
<1>4. CASE PreSidecarUp \/ PostSidecarUp
  BY <1>4, SidecarUpType DEF PreSidecarUp, PostSidecarUp, Step
<1>5. CASE PreSidecarsDone
  BY <1>0, <1>5, LoopDoneType DEF PreSidecarsDone, Step
<1>6. CASE StartExec
  BY <1>6, ExecStartType, NodesAreNames DEF StartExec
<1>7. CASE StartExecDone
  BY <1>7, LoopDoneType DEF StartExecDone, Step
<1>8. CASE StartWait
  BY <1>0, <1>8, WaitType DEF StartWait, Step
<1>9. CASE StartDone
  BY <1>9, ReturnType DEF StartDone, TypeOK, runtimeVars, chainVars
<1> QED
  BY <1>1, <1>2, <1>3, <1>4, <1>5, <1>6, <1>7, <1>8, <1>9 DEF StartSteps

LEMMA StopStepsType == TypeOK /\ StopSteps => TypeOK'
<1> SUFFICES ASSUME TypeOK, StopSteps PROVE TypeOK'
  OBVIOUS
<1>0. Slots(Node, copies) \in SUBSET Slot /\ AllSidecars \in SUBSET Slot
  BY SlotsInSlot, SidecarSlotsInSlot DEF TypeOK
<1>1. CASE Stop
  BY <1>0, <1>1, BeginType DEF Stop, Step
<1>2. CASE StopSidecar
  BY <1>2, SidecarStopType DEF StopSidecar
<1>3. CASE StopSideDone \/ StopNodesDone \/ StopVolumesDone
  BY <1>0, <1>3, LoopDoneType DEF StopSideDone, StopNodesDone, StopVolumesDone, Step
<1>4. CASE StopNode
  <2>1. PICK n \in Node, c \in Copy, st \in Status :
           /\ TakeAndRemove(n, c, st)
           /\ reported' = (reported \/ RemovalFailed(n, c, st))
           /\ todo' = todo \ {<<n, c>>}
    BY <1>4 DEF StopNode
  <2>2. reported' \in BOOLEAN
    BY <2>1 DEF TypeOK, RemovalFailed
  <2> QED
    BY <1>4, <2>1, <2>2, TakeAndRemoveType, NodesAreNames DEF StopNode, TypeOK
<1>5. CASE StopVolume
  BY <1>5 DEF StopVolume, TypeOK, Volume, chainVars
<1>6. CASE StopNetwork
  BY <1>6 DEF StopNetwork, TypeOK, Step
<1> QED
  BY <1>1, <1>2, <1>3, <1>4, <1>5, <1>6 DEF StopSteps

LEMMA UpgradeStepsType == TypeOK /\ UpgradeSteps => TypeOK'
<1> SUFFICES ASSUME TypeOK, UpgradeSteps PROVE TypeOK'
  OBVIOUS
<1>0. Slots(Node, copies) \in SUBSET Slot
  BY SlotsInSlot DEF TypeOK
<1>1. CASE StopAllNodes \/ StartAllNodes
  BY <1>0, <1>1, BeginType DEF StopAllNodes, StartAllNodes, Step
<1>2. CASE HaltNode
  <2>1. PICK n \in Node, c \in Copy :
          \/ /\ \/ SetStatus(n, "stopped")
                \/ UNCHANGED <<status, binary, current>>
             /\ todo' = todo \ {<<n, c>>} /\ UNCHANGED <<pc, ret, reported>>
          \/ Return("err") /\ UNCHANGED <<status, binary, current>>
    BY <1>2 DEF HaltNode
  <2>2. n \in Name /\ "stopped" \in Status
    BY NodesAreNames DEF Status
  <2>3. /\ status' \in [Name -> Status]
        /\ binary' \in [Name -> BOOLEAN] /\ current' \in [Name -> BOOLEAN]
    BY <2>1, <2>2, SetStatusType DEF TypeOK
  <2>4. pc' \in Step /\ todo' \in SUBSET Slot
        /\ ret' \in {"none", "ok", "err"} /\ reported' \in BOOLEAN
    BY <2>1, ReturnType DEF TypeOK
  <2> QED
    BY <1>2, <2>3, <2>4 DEF HaltNode, TypeOK, chainVars
<1>3. CASE HaltDone
  BY <1>3, ReturnType DEF HaltDone, TypeOK, runtimeVars, chainVars
<1>4. CASE UpgradeVersion
  BY <1>4 DEF UpgradeVersion, TypeOK, chainVars, callVars
<1>5. CASE UpPull \/ UpCreateDone \/ UpExecDone
  BY <1>0, <1>5, LoopDoneType DEF UpPull, UpCreateDone, UpExecDone, Step
<1>6. CASE UpRemove
  <2>1. PICK n \in Node, c \in Copy, st \in Status :
           /\ TakeAndRemove(n, c, st)
           /\ Return("err") \/ (Goto("up.create") /\ UNCHANGED todo)
    BY <1>6 DEF UpRemove
  <2>2. pc' \in Step /\ todo' \in SUBSET Slot
        /\ ret' \in {"none", "ok", "err"} /\ reported' \in BOOLEAN
    BY <2>1, ReturnType, GotoType DEF TypeOK, Step
  <2> QED
    BY <1>6, <2>1, <2>2, TakeAndRemoveType, NodesAreNames DEF UpRemove, TypeOK
<1>7. CASE UpCreate
  BY <1>7, CreateNodeType DEF UpCreate, Step
<1>8. CASE UpStart
  BY <1>8, StartBoxType, NodesAreNames DEF UpStart, Step
<1>9. CASE UpExec
  BY <1>9, ExecStartType, NodesAreNames DEF UpExec
<1>10. CASE UpWait
  BY <1>10, WaitType DEF UpWait, Step
<1> QED
  BY <1>1, <1>2, <1>3, <1>4, <1>5, <1>6, <1>7, <1>8, <1>9, <1>10 DEF UpgradeSteps

LEMMA OtherStepsType ==
  TypeOK /\ (StepFails \/ Pause \/ BinaryDies \/ Crash) => TypeOK'
<1> SUFFICES ASSUME TypeOK, StepFails \/ Pause \/ BinaryDies \/ Crash PROVE TypeOK'
  OBVIOUS
<1>1. CASE StepFails
  BY <1>1, ReturnType DEF StepFails, FailAt, TypeOK, runtimeVars, chainVars
<1>2. CASE Pause
  BY <1>2 DEF Pause, PauseNode, TypeOK, Status, chainVars, callVars
<1>3. CASE BinaryDies
  BY <1>3 DEF BinaryDies, TypeOK, chainVars, callVars
<1>4. CASE Crash
  <2>1. copies' \in 0 .. MaxCopies
    BY <1>4, ConstAssumption DEF Crash
  <2> QED
    BY <1>4, <2>1, NoHandlesType DEF Crash, TypeOK, Volume, Step
<1> QED
  BY <1>1, <1>2, <1>3, <1>4

\* Only initialize enters the two steps, and no other step of them, or call
\* between them, adds a copy.
LEMMA RoomKept == TypeOK /\ Room /\ [Next]_vars => Room'
<1> SUFFICES ASSUME TypeOK, Room, [Next]_vars PROVE Room'
  OBVIOUS
<1> USE DEF Room, runtimeVars, chainVars, callVars, Goto, Return, Begin, LoopDone
<1>1. CASE UNCHANGED vars
  BY <1>1 DEF vars
<1>2. CASE InitSteps
  <2>1. CASE Initialize \/ PreClean \/ PreCleanDone
    BY <2>1 DEF Initialize, PreClean, PreCleanDone
  <2>2. CASE CreateNetwork \/ InitPull \/ InitCreateDone
    BY <2>2 DEF CreateNetwork, InitPull, InitCreateDone
  <2>3. CASE InitCreate
    BY <2>3 DEF InitCreate, CreateNode, CreateSucceeds, CreateFails
  <2>4. CASE InitStart
    BY <2>4 DEF InitStart, StartBox
  <2>5. CASE InitHome \/ InitDone
    BY <2>5 DEF InitHome, InitDone
  <2> QED
    BY <1>2, <2>1, <2>2, <2>3, <2>4, <2>5 DEF InitSteps
<1>3. CASE SidecarSteps
  BY <1>3 DEF SidecarSteps, StartSidecars, SidecarsCreate, SidecarsUp, StopSidecars,
     SidecarsStop, SidecarsDone, SidecarCreate, SidecarUp, SidecarStop, StartBox
<1>4. CASE StartSteps
  BY <1>4 DEF StartSteps, Start, GenesisPhase, PreSidecarCreate, PreSidecarUp,
     PreSidecarsDone, StartExec, StartExecDone, StartWait, PostSidecarCreate,
     PostSidecarUp, StartDone, SidecarCreate, SidecarUp, StartBox, ExecStartChain,
     WaitForBlocks
<1>5. CASE StopSteps
  BY <1>5 DEF StopSteps, Stop, StopSidecar, StopSideDone, StopNode, StopNodesDone,
     StopVolume, StopVolumesDone, StopNetwork, SidecarStop
<1>6. CASE UpgradeSteps
  BY <1>6 DEF UpgradeSteps, StopAllNodes, HaltNode, HaltDone, UpgradeVersion,
     StartAllNodes, UpPull, UpRemove, UpCreate, UpStart, UpCreateDone, UpExec,
     UpExecDone, UpWait, CreateNode, CreateSucceeds, CreateFails, StartBox,
     ExecStartChain, WaitForBlocks
<1>7. CASE StepFails \/ Pause \/ BinaryDies \/ Crash
  BY <1>7 DEF StepFails, FailAt, Pause, PauseNode, BinaryDies, Crash
<1> QED
  BY <1>1, <1>2, <1>3, <1>4, <1>5, <1>6, <1>7 DEF Next

\* Every variable of the chain keeps its type, for any number of validators,
\* full nodes, sidecars and attempts to initialize (chain/cosmos.rs).
THEOREM TypeCorrect == Spec => []TypeOK
<1>1. Init => TypeOK /\ Room
  <2> SUFFICES ASSUME Init PROVE TypeOK /\ Room
    OBVIOUS
  <2>1. copies \in 0 .. MaxCopies
    BY ConstAssumption DEF Init
  <2>2. Room
    BY DEF Init, Room
  <2> QED
    BY <2>1, <2>2, NoHandlesType DEF Init, TypeOK, Status, Volume, Step
<1>2. TypeOK /\ Room /\ [Next]_vars => TypeOK' /\ Room'
  <2> SUFFICES ASSUME TypeOK, Room, [Next]_vars PROVE TypeOK'
    BY RoomKept
  <2>1. CASE UNCHANGED vars
    BY <2>1 DEF vars, runtimeVars, chainVars, callVars, TypeOK
  <2>2. CASE Next
    BY <2>2, InitStepsType, SidecarStepsType, StartStepsType, StopStepsType,
       UpgradeStepsType, OtherStepsType DEF Next
  <2> QED
    BY <2>1, <2>2
<1> QED
  BY <1>1, <1>2, PTL DEF Spec

-----------------------------------------------------------------------------
(* What calls hand over: InitializeIsFresh, HomeKept, StartIsComplete and  *)
(* QuietStopIsClean.                                                       *)

\* The structs a loop over the nodes has been at.
Visited(n, c) == n \in Node /\ c \in 1 .. copies /\ <<n, c>> \notin todo

\* A call in progress has not returned; a chain that was initialized has nodes.
Underway == /\ pc # "idle" => ret = "none"
            /\ initialized \/ pc = "start.genesis" => copies # 0

\* initialize: the network is there for the nodes, their homes are written one
\* after the other, each through a handle that works.
Preparing ==
  /\ pc \in {"init.pull", "init.create", "init.start", "init.home"} => netHeld /\ net /\ copies # 0
  /\ pc = "init.home" => \A n, c : Visited(n, c) => CanExec(n, c) /\ vol[n] = "home"

\* start: nothing takes a node down once the genesis could be made in all of them.
Starting ==
  pc \in {"start.pre", "start.pre.up", "start.exec", "start.wait", "start.post", "start.post.up"} =>
    copies # 0 /\ \A n \in Node, c \in 1 .. copies : CanExec(n, c)

\* start_all_nodes: what was visited is of the new image, but for the node
\* between its removal and its creation; later, all of it runs.
Upgrading ==
  /\ pc = "up.remove" => \A n, c : Visited(n, c) => current[n]
  /\ pc = "up.create" => \A n, c : Visited(n, c) => current[n] \/ \E d \in Copy : Current(n, d)
  /\ pc = "up.start"  => /\ \A n, c : Visited(n, c) => current[n]
                         /\ \A n \in Node, c \in Copy : Current(n, c) => current[n]
  /\ pc = "up.exec"   => /\ \A n, c : Visited(n, c) => CanExec(n, c)
                         /\ \A n \in Node, c \in 1 .. copies : current[n]
  /\ pc = "up.wait"   => \A n \in Node, c \in 1 .. copies : CanExec(n, c) /\ current[n]

\* stop: a volume that went quietly was there, and no container used it.
Stopping ==
  /\ pc = "stop.vol" /\ ~reported => \A n, c : Visited(n, c) => ~Present(n) /\ vol[n] = "absent"
  /\ pc = "stop.net" /\ ~reported =>
       \A n \in Node, c \in 1 .. copies : ~Present(n) /\ vol[n] = "absent"

CallsInv == Underway /\ Preparing /\ Starting /\ Upgrading /\ Stopping

LEMMA CopiesAreCopies ==
  ASSUME TypeOK
  PROVE  /\ copies \in Nat /\ 1 .. copies \subseteq Copy
         /\ \A n, c : Visited(n, c) => n \in Node /\ n \in Name /\ c \in Copy /\ c \in 1 .. copies
  BY ConstAssumption, NodesAreNames DEF TypeOK, Copy, Visited

\* Before and Current name one struct.
LEMMA OneCurrent ==
  ASSUME NEW n \in Node, NEW m \in Node, NEW c \in Copy, NEW d \in Copy, Current(n, c), Current(m, d)
  PROVE  n = m /\ c = d
<1>1. Before(<<n, c>>, <<m, d>>) /\ Before(<<m, d>>, <<n, c>>)
  BY DEF Current
<1>2. n \in Nat /\ m \in Nat /\ c \in Nat /\ d \in Nat /\ NumVals \in Nat
  BY ConstAssumption DEF Node, Copy
<1> QED BY <1>1, <1>2 DEF Before

\* Steps of which the parts of the invariant say nothing.
Unbound == {"idle", "init.clean", "init.net", "start.genesis", "stop.side", "stop.node",
            "halt", "up.pull", "side.create", "side.up", "side.stop"}

LEMMA Unbinding ==
  ASSUME pc' \in Unbound, Underway'
  PROVE  CallsInv'
  BY DEF Unbound, CallsInv, Preparing, Starting, Upgrading, Stopping

LEMMA Returns ==
  ASSUME CallsInv, NEW r, Return(r), UNCHANGED <<copies, initialized>>
  PROVE  CallsInv'
<1>1. pc' = "idle" /\ Underway'
  BY DEF CallsInv, Underway, Return
<1> QED BY <1>1, Unbinding DEF Unbound

LEMMA Begins ==
  ASSUME CallsInv, NEW s \in Unbound \ {"start.genesis"}, NEW slots, Begin(s, slots)
  PROVE  CallsInv'
<1>1. pc' = s /\ Underway'
  BY DEF CallsInv, Underway, Begin, chainVars
<1> QED BY <1>1, Unbinding

\* Steps that do not touch what the invariant is about.
LEMMA Rests ==
  ASSUME CallsInv,
         UNCHANGED <<status, current, vol, net, copies, held, netHeld, initialized, pc, todo, ret, reported>>
  PROVE  CallsInv'
  BY DEF CallsInv, Underway, Preparing, Starting, Upgrading, Stopping, Visited, Current, CanExec, Present

\* What a step on a sidecar leaves alone.
NodesAlone ==
  /\ UNCHANGED <<vol, net, copies, netHeld, initialized>>
  /\ \A n \in Node : /\ status'[n] = status[n] /\ held'[n] = held[n]

LEMMA SidecarIsNoNode == \A n \in Sidecar : n \in Name /\ n \notin Node
  BY ConstAssumption, NodesAreNames DEF Sidecar, Node

\* While sidecars come up around the start of a chain.
LEMMA StartGoes ==
  ASSUME CallsInv, NodesAlone, pc # "idle", ret' = ret,
         pc \in {"start.pre", "start.pre.up", "start.exec", "start.wait", "start.post", "start.post.up"},
         pc' \in {"start.pre", "start.pre.up", "start.exec", "start.wait", "start.post", "start.post.up"}
  PROVE  CallsInv'
<1>1. Underway'
  BY DEF CallsInv, Underway, NodesAlone
<1>2. Starting'
  BY DEF CallsInv, Starting, NodesAlone, CanExec
<1>3. Preparing' /\ Upgrading' /\ Stopping'
  BY DEF Preparing, Upgrading, Stopping
<1> QED BY <1>1, <1>2, <1>3 DEF CallsInv

LEMMA SidecarCreates ==
  ASSUME TypeOK, CallsInv, NEW from, NEW to, SidecarCreate(from, to)
  PROVE  \/ CallsInv'
         \/ NodesAlone /\ pc = from /\ pc' = to /\ ret' = ret
<1>1. PICK n \in Sidecar, c \in Copy :
         \/ /\ SetStatus(n, "created")
            /\ held' = [held EXCEPT ![n][c] = "live"]
            /\ Goto(to) /\ UNCHANGED todo
         \/ Return("err") /\ UNCHANGED <<status, binary, current, held>>
  BY DEF SidecarCreate
<1>2. UNCHANGED <<vol, net, copies, netHeld, initialized, preStart>> /\ pc = from
  BY DEF SidecarCreate
<1>3. CASE Return("err")
  BY <1>2, <1>3, Returns
<1>4. CASE SetStatus(n, "created") /\ held' = [held EXCEPT ![n][c] = "live"] /\ Goto(to)
  <2>1. NodesAlone
    BY <1>2, <1>4, SidecarIsNoNode, NodesAreNames DEF NodesAlone, SetStatus, TypeOK
  <2> QED BY <1>2, <1>4, <2>1 DEF Goto
<1> QED BY <1>1, <1>3, <1>4

LEMMA SidecarComesUp ==
  ASSUME TypeOK, CallsInv, NEW from, NEW to, SidecarUp(from, to)
  PROVE  \/ CallsInv'
         \/ NodesAlone /\ pc = from /\ pc' = to /\ ret' = ret
<1>1. PICK n \in Sidecar, c \in Copy : StartBox(n, c, to)
  BY DEF SidecarUp
<1>2. pc = from
  BY DEF SidecarUp
<1>3. CASE Return("err") /\ UNCHANGED <<copies, initialized>>
  BY <1>3, Returns
<1>4. CASE status' = [status EXCEPT ![n] = "running"] /\ Goto(to) /\ UNCHANGED <<vol, net, chainVars>>
  <2>1. NodesAlone
    BY <1>4, SidecarIsNoNode, NodesAreNames DEF NodesAlone, TypeOK, chainVars
  <2> QED BY <1>2, <1>4, <2>1 DEF Goto
<1> QED BY <1>1, <1>3, <1>4 DEF StartBox, runtimeVars, chainVars

LEMMA InitStepsKept == ASSUME TypeOK, CallsInv, InitSteps PROVE CallsInv'
<1> USE DEF runtimeVars, chainVars
<1>0. /\ copies \in Nat /\ 1 .. copies \subseteq Copy
      /\ \A n, c : Visited(n, c) => n \in Node /\ n \in Name /\ c \in Copy /\ c \in 1 .. copies
  BY CopiesAreCopies
<1>1. CASE Initialize
  BY <1>1, Begins DEF Initialize, Unbound
<1>2. CASE PreClean
  <2>1. pc' = "init.clean" /\ Underway'
    BY <1>2 DEF PreClean, CallsInv, Underway
  <2> QED BY <2>1, Unbinding DEF Unbound
<1>3. CASE PreCleanDone
  <2>1. pc' = "init.net" /\ Underway'
    BY <1>3 DEF PreCleanDone, LoopDone, Goto, CallsInv, Underway
  <2> QED BY <2>1, Unbinding DEF Unbound
<1>4. CASE CreateNetwork
  <2>1. pc' = "init.pull" /\ netHeld' /\ net' /\ copies' # 0
    BY <1>0, <1>4 DEF CreateNetwork, Goto
  <2>2. Underway'
    BY <1>4, <2>1 DEF CreateNetwork, Goto, CallsInv, Underway
  <2> QED BY <2>1, <2>2 DEF CallsInv, Preparing, Starting, Upgrading, Stopping
<1>5. CASE InitPull
  BY <1>5 DEF InitPull, LoopDone, Goto, CallsInv, Underway, Preparing, Starting, Upgrading, Stopping
<1>6. CASE InitCreate
  <2>1. PICK n \in Node, c \in Copy : CreateNode(n, c, FALSE, "init.start")
    BY <1>6 DEF InitCreate
  <2>2. CASE Return("err") /\ UNCHANGED <<copies, initialized>>
    BY <2>2, Returns
  <2>3. CASE Goto("init.start") /\ UNCHANGED <<net, copies, netHeld, initialized>>
    BY <1>6, <2>3 DEF InitCreate, Goto, CallsInv, Underway, Preparing, Starting, Upgrading, Stopping
  <2> QED BY <2>1, <2>2, <2>3 DEF CreateNode, CreateSucceeds, CreateFails
<1>7. CASE InitStart
  <2>1. PICK n \in Node, c \in Copy : StartBox(n, c, "init.create")
    BY <1>7 DEF InitStart
  <2>2. CASE Return("err") /\ UNCHANGED <<copies, initialized>>
    BY <2>2, Returns
  <2>3. CASE Goto("init.create") /\ UNCHANGED <<net, copies, netHeld, initialized>>
    BY <1>7, <2>3 DEF InitStart, Goto, CallsInv, Underway, Preparing, Starting, Upgrading, Stopping
  <2> QED BY <2>1, <2>2, <2>3 DEF StartBox
<1>8. CASE InitCreateDone
  <2>1. pc = "init.create" /\ pc' = "init.home" /\ ret' = ret /\ todo' = Slots(Node, copies)
        /\ UNCHANGED <<net, copies, netHeld, initialized>>
    BY <1>8 DEF InitCreateDone, LoopDone, Goto
  <2>2. \A n, c : ~Visited(n, c)'
    BY <2>1 DEF Visited, Slots
  <2> QED BY <2>1, <2>2 DEF CallsInv, Underway, Preparing, Starting, Upgrading, Stopping
<1>9. CASE InitHome
  <2>1. PICK n \in Node, c \in Copy :
          \/ /\ CanExec(n, c) /\ vol[n] = "empty" /\ vol' = [vol EXCEPT ![n] = "home"]
             /\ todo' = todo \ {<<n, c>>} /\ UNCHANGED <<pc, ret, reported>>
          \/ Return("err")
    BY <1>9 DEF InitHome
  <2>2. pc = "init.home" /\ UNCHANGED <<status, binary, current, net, chainVars>>
    BY <1>9 DEF InitHome
  <2>3. CASE Return("err")
    BY <2>2, <2>3, Returns
  <2>4. CASE /\ CanExec(n, c) /\ vol' = [vol EXCEPT ![n] = "home"]
             /\ todo' = todo \ {<<n, c>>} /\ UNCHANGED <<pc, ret, reported>>
    <3>1. \A m, d : Visited(m, d)' => Visited(m, d) \/ (m = n /\ d = c)
      BY <2>2, <2>4 DEF Visited
    <3>2. \A m, d : CanExec(m, d)' <=> CanExec(m, d)
      BY <2>2 DEF CanExec
    <3>3. vol'[n] = "home" /\ \A m \in Node : vol[m] = "home" => vol'[m] = "home"
      BY <2>4 DEF TypeOK
    <3>4. \A m, d : Visited(m, d) => CanExec(m, d) /\ vol[m] = "home"
      BY <2>2 DEF CallsInv, Preparing
    <3>5. \A m, d : Visited(m, d)' => CanExec(m, d)' /\ vol'[m] = "home"
      BY <1>0, <2>4, <3>1, <3>2, <3>3, <3>4
    <3> QED BY <2>2, <2>4, <3>5 DEF CallsInv, Underway, Preparing, Starting, Upgrading, Stopping
  <2> QED BY <2>1, <2>3, <2>4
<1>10. CASE InitDone
  <2>1. pc' = "idle" /\ copies' # 0
    BY <1>10 DEF InitDone, Return, CallsInv, Preparing
  <2>2. Underway'
    BY <2>1 DEF Underway
  <2> QED BY <2>1, <2>2, Unbinding DEF Unbound
<1> QED
  BY <1>1, <1>2, <1>3, <1>4, <1>5, <1>6, <1>7, <1>8, <1>9, <1>10 DEF InitSteps

LEMMA SidecarStepsKept == ASSUME TypeOK, CallsInv, SidecarSteps PROVE CallsInv'
<1>1. CASE StartSidecars \/ StopSidecars
  BY <1>1, Begins DEF StartSidecars, StopSidecars, Unbound
<1>2. CASE SidecarsCreate
  <2>1. CASE NodesAlone /\ pc = "side.create" /\ pc' = "side.up" /\ ret' = ret
    BY <2>1, Unbinding DEF Unbound, CallsInv, Underway, NodesAlone
  <2> QED BY <1>2, <2>1, SidecarCreates DEF SidecarsCreate
<1>3. CASE SidecarsUp
  <2>1. CASE NodesAlone /\ pc = "side.up" /\ pc' = "side.create" /\ ret' = ret
    BY <2>1, Unbinding DEF Unbound, CallsInv, Underway, NodesAlone
  <2> QED BY <1>3, <2>1, SidecarComesUp DEF SidecarsUp
<1>4. CASE SidecarsStop
  <2>1. pc' = "side.stop" /\ Underway'
    BY <1>4 DEF SidecarsStop, SidecarStop, CallsInv, Underway
  <2> QED BY <2>1, Unbinding DEF Unbound
<1>5. CASE SidecarsDone
  BY <1>5, Returns DEF SidecarsDone, runtimeVars, chainVars
<1> QED
  BY <1>1, <1>2, <1>3, <1>4, <1>5 DEF SidecarSteps

LEMMA StartStepsKept == ASSUME TypeOK, CallsInv, StartSteps PROVE CallsInv'
<1> USE DEF runtimeVars, chainVars
<1>1. CASE Start
  <2>1. pc' = "start.genesis" /\ Underway'
    BY <1>1 DEF Start, Begin, CallsInv, Underway
  <2> QED BY <2>1, Unbinding DEF Unbound
<1>2. CASE GenesisPhase
  <2>1. /\ pc = "start.genesis" /\ pc' = "start.pre" /\ ret' = ret
        /\ UNCHANGED <<status, held, copies, initialized>>
    BY <1>2 DEF GenesisPhase, LoopDone, Goto
  <2>2. ASSUME NEW n \in Node, NEW c \in 1 .. copies PROVE CanExec(n, c)
    <3>1. <<n, c>> \in Slots(Node, copies) /\ <<n, c>>[1] = n /\ <<n, c>>[2] = c
      BY DEF Slots
    <3>2. CanExec(<<n, c>>[1], <<n, c>>[2])
      BY <1>2, <3>1, Zenon DEF GenesisPhase
    <3> QED BY <3>1, <3>2
  <2>3. copies # 0
    BY <2>1 DEF CallsInv, Underway
  <2>4. Starting'
    BY <2>1, <2>2, <2>3 DEF Starting, CanExec
  <2> QED BY <2>1, <2>4 DEF CallsInv, Underway, Preparing, Upgrading, Stopping
<1>3. CASE PreSidecarCreate
  <2>1. CASE NodesAlone /\ pc = "start.pre" /\ pc' = "start.pre.up" /\ ret' = ret
    BY <2>1, StartGoes
  <2> QED BY <1>3, <2>1, SidecarCreates DEF PreSidecarCreate
<1>4. CASE PreSidecarUp
  <2>1. CASE NodesAlone /\ pc = "start.pre.up" /\ pc' = "start.pre" /\ ret' = ret
    BY <2>1, StartGoes
  <2> QED BY <1>4, <2>1, SidecarComesUp DEF PreSidecarUp
<1>5. CASE PostSidecarCreate
  <2>1. CASE NodesAlone /\ pc = "start.post" /\ pc' = "start.post.up" /\ ret' = ret
    BY <2>1, StartGoes
  <2> QED BY <1>5, <2>1, SidecarCreates DEF PostSidecarCreate
<1>6. CASE PostSidecarUp
  <2>1. CASE NodesAlone /\ pc = "start.post.up" /\ pc' = "start.post" /\ ret' = ret
    BY <2>1, StartGoes
  <2> QED BY <1>6, <2>1, SidecarComesUp DEF PostSidecarUp
<1>7. CASE PreSidecarsDone \/ StartExecDone
  BY <1>7, StartGoes DEF PreSidecarsDone, StartExecDone, LoopDone, Goto, NodesAlone
<1>8. CASE StartExec
  <2>1. PICK n \in Node, c \in Copy : ExecStartChain(n, c)
    BY <1>8 DEF StartExec
  <2>2. CASE Return("err") /\ UNCHANGED <<runtimeVars, chainVars>>
    BY <2>2, Returns
  <2>3. CASE UNCHANGED <<status, current, vol, net, chainVars, pc, ret, reported>>
    BY <1>8, <2>3, StartGoes DEF StartExec, NodesAlone
  <2> QED BY <2>1, <2>2, <2>3 DEF ExecStartChain
<1>9. CASE StartWait
  <2>1. CASE Return("err") /\ UNCHANGED <<runtimeVars, chainVars>>
    BY <2>1, Returns
  <2>2. CASE Goto("start.post") /\ UNCHANGED <<runtimeVars, chainVars>>
    BY <1>9, <2>2, StartGoes DEF StartWait, Goto, NodesAlone
  <2> QED BY <1>9, <2>1, <2>2 DEF StartWait, WaitForBlocks
<1>10. CASE StartDone
  BY <1>10, Returns DEF StartDone
<1> QED
  BY <1>1, <1>2, <1>3, <1>4, <1>5, <1>6, <1>7, <1>8, <1>9, <1>10 DEF StartSteps

LEMMA StopStepsKept == ASSUME TypeOK, CallsInv, StopSteps PROVE CallsInv'
<1> USE DEF runtimeVars, chainVars
<1>0. /\ copies \in Nat /\ 1 .. copies \subseteq Copy
      /\ \A n, c : Visited(n, c) => n \in Node /\ n \in Name /\ c \in Copy /\ c \in 1 .. copies
  BY CopiesAreCopies
<1>1. CASE Stop
  BY <1>1, Begins DEF Stop, Unbound
<1>2. CASE StopSidecar \/ StopNode
  <2>1. pc' \in {"stop.side", "stop.node"} /\ pc' = pc /\ Underway'
    BY <1>2 DEF StopSidecar, SidecarStop, StopNode, CallsInv, Underway
  <2> QED BY <2>1, Unbinding DEF Unbound
<1>3. CASE StopSideDone
  <2>1. pc' = "stop.node" /\ Underway'
    BY <1>3 DEF StopSideDone, LoopDone, Goto, CallsInv, Underway
  <2> QED BY <2>1, Unbinding DEF Unbound
<1>4. CASE StopNodesDone
  <2>1. /\ pc = "stop.node" /\ pc' = "stop.vol" /\ ret' = ret /\ todo' = Slots(Node, copies)
        /\ UNCHANGED <<copies, initialized>>
    BY <1>4 DEF StopNodesDone, LoopDone, Goto
  <2>2. \A n, c : ~Visited(n, c)'
    BY <2>1 DEF Visited, Slots
  <2> QED BY <2>1, <2>2 DEF CallsInv, Underway, Preparing, Starting, Upgrading, Stopping
<1>5. CASE StopVolume
  <2>1. PICK n \in Node, c \in Copy :
          /\ \/ /\ vol[n] # "absent" /\ status[n] = "absent"
                /\ vol' = [vol EXCEPT ![n] = "absent"] /\ UNCHANGED reported
             \/ reported' = TRUE /\ UNCHANGED vol
          /\ todo' = todo \ {<<n, c>>}
    BY <1>5 DEF StopVolume
  <2>2. /\ pc = "stop.vol" /\ pc' = pc /\ ret' = ret
        /\ UNCHANGED <<status, copies, initialized>>
    BY <1>5 DEF StopVolume
  <2>3. Underway'
    BY <2>2 DEF CallsInv, Underway
  <2>4. ASSUME ~reported', NEW m, NEW d, Visited(m, d)'
        PROVE  ~Present(m)' /\ vol'[m] = "absent"
    <3>1. Visited(m, d) \/ (m = n /\ d = c)
      BY <2>1, <2>2, <2>4 DEF Visited
    <3>2. /\ vol' = [vol EXCEPT ![n] = "absent"] /\ status[n] = "absent" /\ ~reported
      BY <2>1, <2>4
    <3>3. Visited(m, d) => ~Present(m) /\ vol[m] = "absent"
      BY <2>2, <3>2 DEF CallsInv, Stopping
    <3>4. m \in Node
      BY <1>0, <3>1
    <3> QED BY <2>2, <3>1, <3>2, <3>3, <3>4 DEF Present, TypeOK
  <2>5. Stopping'
    BY <2>2, <2>4 DEF Stopping
  <2> QED BY <2>2, <2>3, <2>5 DEF CallsInv, Preparing, Starting, Upgrading
<1>6. CASE StopVolumesDone
  <2>1. /\ pc = "stop.vol" /\ todo = {} /\ pc' = "stop.net" /\ UNCHANGED <<ret, reported>>
        /\ UNCHANGED <<status, vol, copies, initialized>>
    BY <1>6 DEF StopVolumesDone, LoopDone, Goto
  <2>2. \A n \in Node, c \in 1 .. copies : Visited(n, c)
    BY <2>1 DEF Visited
  <2>3. Stopping'
    BY <2>1, <2>2 DEF CallsInv, Stopping, Present
  <2> QED BY <2>1, <2>3 DEF CallsInv, Underway, Preparing, Starting, Upgrading
<1>7. CASE StopNetwork
  <2>1. pc' = "idle" /\ Underway'
    BY <1>7 DEF StopNetwork, CallsInv, Underway
  <2> QED BY <2>1, Unbinding DEF Unbound
<1> QED
  BY <1>1, <1>2, <1>3, <1>4, <1>5, <1>6, <1>7 DEF StopSteps

LEMMA UpgradeStepsKept == ASSUME TypeOK, CallsInv, UpgradeSteps PROVE CallsInv'
<1> USE DEF runtimeVars, chainVars
<1>0. /\ copies \in Nat /\ 1 .. copies \subseteq Copy
      /\ \A n, c : Visited(n, c) => n \in Node /\ n \in Name /\ c \in Copy /\ c \in 1 .. copies
  BY CopiesAreCopies
<1>1. CASE StopAllNodes \/ StartAllNodes
  BY <1>1, Begins DEF StopAllNodes, StartAllNodes, Unbound
<1>2. CASE HaltNode
  <2>1. CASE Return("err") /\ UNCHANGED <<copies, initialized>>
    BY <2>1, Returns
  <2>2. CASE pc = "halt" /\ UNCHANGED <<pc, ret, copies, initialized>>
    BY <2>2, Unbinding DEF Unbound, CallsInv, Underway
  <2> QED BY <1>2, <2>1, <2>2 DEF HaltNode
<1>3. CASE HaltDone
  BY <1>3, Returns DEF HaltDone
<1>4. CASE UpgradeVersion
  <2>1. pc' = "idle" /\ Underway'
    BY <1>4 DEF UpgradeVersion, callVars, CallsInv, Underway
  <2> QED BY <2>1, Unbinding DEF Unbound
<1>5. CASE UpPull
  <2>1. /\ pc = "up.pull" /\ pc' = "up.remove" /\ ret' = ret /\ todo' = Slots(Node, copies)
        /\ UNCHANGED <<copies, initialized>>
    BY <1>5 DEF UpPull, LoopDone, Goto
  <2>2. \A n, c : ~Visited(n, c)'
    BY <2>1 DEF Visited, Slots
  <2> QED BY <2>1, <2>2 DEF CallsInv, Underway, Preparing, Starting, Upgrading, Stopping
<1>6. CASE UpRemove
  <2>1. PICK n \in Node, c \in Copy, st \in Status :
          /\ Current(n, c) /\ TakeAndRemove(n, c, st)
          /\ Return("err") \/ (Goto("up.create") /\ UNCHANGED todo)
    BY <1>6 DEF UpRemove
  <2>2. pc = "up.remove" /\ UNCHANGED <<vol, net, copies, netHeld, initialized>>
    BY <1>6 DEF UpRemove
  <2>3. CASE Return("err")
    BY <2>2, <2>3, Returns
  <2>4. CASE Goto("up.create") /\ UNCHANGED todo
    <3>1. \A m \in Name : m # n => current'[m] = current[m]
      BY <2>1, NodesAreNames DEF TakeAndRemove, SetStatus, TypeOK
    <3>2. \A m, d : Current(m, d)' <=> Current(m, d)
      BY <2>4 DEF Current
    <3>3. \A m, d : Visited(m, d)' => Visited(m, d)
      BY <2>2, <2>4 DEF Visited
    <3>4. \A m, d : Visited(m, d) => current[m]
      BY <2>2 DEF CallsInv, Upgrading
    <3>5. \A m, d : Visited(m, d)' => current'[m] \/ \E e \in Copy : Current(m, e)'
      BY <1>0, <2>1, <3>1, <3>2, <3>3, <3>4
    <3> QED
      BY <2>2, <2>4, <3>5 DEF Goto, CallsInv, Underway, Preparing, Starting, Upgrading, Stopping
  <2> QED BY <2>1, <2>3, <2>4
<1>7. CASE UpCreate
  <2>1. PICK n \in Node, c \in Copy : Current(n, c) /\ CreateNode(n, c, TRUE, "up.start")
    BY <1>7 DEF UpCreate
  <2>2. pc = "up.create"
    BY <1>7 DEF UpCreate
  <2>3. CASE Return("err") /\ UNCHANGED <<copies, initialized>>
    BY <2>3, Returns
  <2>4. CASE /\ current' = [current EXCEPT ![n] = TRUE] /\ Goto("up.start")
             /\ UNCHANGED <<net, copies, netHeld, initialized, todo>>
    <3>1. current'[n] /\ \A m \in Name : current[m] => current'[m]
      BY <2>4, NodesAreNames DEF TypeOK
    <3>2. \A m, d : Current(m, d)' <=> Current(m, d)
      BY <2>4 DEF Current
    <3>3. \A m, d : Visited(m, d)' => Visited(m, d)
      BY <2>4 DEF Visited
    <3>4. \A m, d : Visited(m, d) => current[m] \/ \E e \in Copy : Current(m, e)
      BY <2>2 DEF CallsInv, Upgrading
    <3>5. \A m \in Node, d \in Copy : Current(m, d) => m = n
      BY <2>1, OneCurrent
    <3>6. \A m, d : Visited(m, d)' => current'[m]
      BY <1>0, <3>1, <3>3, <3>4, <3>5
    <3>7. \A m \in Node, d \in Copy : Current(m, d)' => current'[m]
      BY <3>1, <3>2, <3>5
    <3> QED
      BY <2>2, <2>4, <3>6, <3>7 DEF Goto, CallsInv, Underway, Preparing, Starting, Upgrading, Stopping
  <2> QED BY <2>1, <2>3, <2>4 DEF CreateNode, CreateSucceeds, CreateFails
<1>8. CASE UpStart
  <2>1. PICK n \in Node, c \in Copy : Current(n, c) /\ StartBox(n, c, "up.remove")
    BY <1>8 DEF UpStart
  <2>2. pc = "up.start"
    BY <1>8 DEF UpStart
  <2>3. CASE Return("err") /\ UNCHANGED <<copies, initialized>>
    BY <2>3, Returns
  <2>4. CASE /\ Goto("up.remove") /\ todo' = todo \ {<<n, c>>}
             /\ UNCHANGED <<current, vol, net, copies, netHeld, initialized>>
    <3>1. \A m, d : Visited(m, d)' => Visited(m, d) \/ (m = n /\ d = c)
      BY <2>4 DEF Visited
    <3>2. current[n] /\ \A m, d : Visited(m, d) => current[m]
      BY <2>1, <2>2 DEF CallsInv, Upgrading
    <3>3. \A m, d : Visited(m, d)' => current'[m]
      BY <2>4, <3>1, <3>2
    <3> QED
      BY <2>2, <2>4, <3>3 DEF Goto, CallsInv, Underway, Preparing, Starting, Upgrading, Stopping
  <2> QED BY <2>1, <2>3, <2>4 DEF StartBox
<1>9. CASE UpCreateDone
  <2>1. /\ pc = "up.remove" /\ todo = {} /\ pc' = "up.exec" /\ ret' = ret
        /\ todo' = Slots(Node, copies) /\ UNCHANGED <<current, copies, initialized>>
    BY <1>9 DEF UpCreateDone, LoopDone, Goto
  <2>2. \A n, c : ~Visited(n, c)'
    BY <2>1 DEF Visited, Slots
  <2>3. \A n \in Node, c \in 1 .. copies : Visited(n, c)
    BY <2>1 DEF Visited
  <2>4. Upgrading'
    BY <2>1, <2>2, <2>3 DEF CallsInv, Upgrading
  <2> QED BY <2>1, <2>4 DEF CallsInv, Underway, Preparing, Starting, Stopping
<1>10. CASE UpExec
  <2>1. PICK n \in Node, c \in Copy : ExecStartChain(n, c)
    BY <1>10 DEF UpExec
  <2>2. CASE Return("err")
    BY <2>1, <2>2, Returns DEF ExecStartChain
  <2>3. CASE /\ CanExec(n, c) /\ todo' = todo \ {<<n, c>>}
             /\ UNCHANGED <<status, current, vol, net, chainVars, pc, ret, reported>>
    <3>1. \A m, d : Visited(m, d)' => Visited(m, d) \/ (m = n /\ d = c)
      BY <2>3 DEF Visited
    <3>2. \A m, d : CanExec(m, d)' <=> CanExec(m, d)
      BY <2>3 DEF CanExec
    <3>3. pc = "up.exec" /\ pc' = pc
      BY <1>10, <2>3 DEF UpExec
    <3>4. \A m, d : Visited(m, d) => CanExec(m, d)
      BY <3>3 DEF CallsInv, Upgrading
    <3>5. \A m, d : Visited(m, d)' => CanExec(m, d)'
      BY <2>3, <3>1, <3>2, <3>4
    <3>6. Upgrading'
      BY <2>3, <3>3, <3>5 DEF CallsInv, Upgrading
    <3> QED BY <2>3, <3>3, <3>6 DEF CallsInv, Underway, Preparing, Starting, Stopping
  <2> QED BY <2>1, <2>2, <2>3 DEF ExecStartChain
<1>11. CASE UpExecDone
  <2>1. /\ pc = "up.exec" /\ todo = {} /\ pc' = "up.wait" /\ ret' = ret
        /\ UNCHANGED <<status, current, held, copies, initialized>>
    BY <1>11 DEF UpExecDone, LoopDone, Goto
  <2>2. \A n \in Node, c \in 1 .. copies : Visited(n, c)
    BY <2>1 DEF Visited
  <2>3. Upgrading'
    BY <2>1, <2>2 DEF CallsInv, Upgrading, CanExec
  <2> QED BY <2>1, <2>3 DEF CallsInv, Underway, Preparing, Starting, Stopping
<1>12. CASE UpWait
  BY <1>12, Returns DEF UpWait, WaitForBlocks
<1> QED
  BY <1>1, <1>2, <1>3, <1>4, <1>5, <1>6, <1>7, <1>8, <1>9, <1>10, <1>11, <1>12 DEF UpgradeSteps

LEMMA OtherStepsKept ==
  ASSUME TypeOK, CallsInv, StepFails \/ Pause \/ BinaryDies \/ Crash
  PROVE  CallsInv'
<1>1. CASE StepFails
  BY <1>1, Returns DEF StepFails, FailAt, runtimeVars, chainVars
<1>2. CASE Pause
  <2>1. pc' = "idle" /\ Underway'
    BY <1>2 DEF Pause, PauseNode, callVars, chainVars, CallsInv, Underway
  <2> QED BY <2>1, Unbinding DEF Unbound
<1>3. CASE BinaryDies
  BY <1>3, Rests DEF BinaryDies, chainVars, callVars
<1>4. CASE Crash
  BY <1>4, Unbinding DEF Crash, Unbound, Underway
<1> QED BY <1>1, <1>2, <1>3, <1>4

LEMMA CallsKept == TypeOK /\ CallsInv /\ [Next]_vars => CallsInv'
<1> SUFFICES ASSUME TypeOK, CallsInv, [Next]_vars PROVE CallsInv'
  OBVIOUS
<1>1. CASE UNCHANGED vars
  BY <1>1, Rests DEF vars, runtimeVars, chainVars, callVars
<1>2. CASE Next
  BY <1>2, InitStepsKept, SidecarStepsKept, StartStepsKept, StopStepsKept, UpgradeStepsKept,
     OtherStepsKept DEF Next
<1> QED BY <1>1, <1>2

LEMMA CallsHold == Spec => []CallsInv
<1>1. Init => CallsInv
  BY DEF Init, CallsInv, Underway, Preparing, Starting, Upgrading, Stopping
<1> QED BY <1>1, CallsKept, TypeCorrect, PTL DEF Spec

\* Which step returns Ok from the last steps of initialize and stop.
LEMMA LastSteps ==
  ASSUME Next, ret' = "ok", ret # "ok", pc \in {"init.home", "stop.net"}
  PROVE  (pc = "init.home" /\ todo = {}) \/ StopNetwork
<1> USE DEF Return, Goto, Begin, LoopDone, FailAt, chainVars, callVars
<1>1. CASE InitSteps
  BY <1>1 DEF InitSteps, Initialize, PreClean, PreCleanDone, CreateNetwork, InitPull,
     InitCreate, InitStart, InitCreateDone, InitHome, InitDone
<1>2. CASE SidecarSteps
  BY <1>2 DEF SidecarSteps, StartSidecars, SidecarsCreate, SidecarsUp, StopSidecars,
     SidecarsStop, SidecarsDone, SidecarCreate, SidecarUp, SidecarStop
<1>3. CASE StartSteps
  BY <1>3 DEF StartSteps, Start, GenesisPhase, PreSidecarCreate, PreSidecarUp,
     PreSidecarsDone, StartExec, StartExecDone, StartWait, PostSidecarCreate,
     PostSidecarUp, StartDone, SidecarCreate, SidecarUp
<1>4. CASE StopSteps
  BY <1>4 DEF StopSteps, Stop, StopSidecar, StopSideDone, StopNode, StopNodesDone,
     StopVolume, StopVolumesDone, SidecarStop
<1>5. CASE UpgradeSteps
  BY <1>5 DEF UpgradeSteps, StopAllNodes, HaltNode, HaltDone, UpgradeVersion,
     StartAllNodes, UpPull, UpRemove, UpCreate, UpStart, UpCreateDone, UpExec, UpExecDone, UpWait
<1>6. CASE StepFails \/ Pause \/ BinaryDies \/ Crash
  BY <1>6 DEF StepFails, Pause, PauseNode, BinaryDies, Crash
<1> QED BY <1>1, <1>2, <1>3, <1>4, <1>5, <1>6 DEF Next

\* initialize hands over nodes that run, with homes of its own: for any number
\* of nodes, after any failures, over whatever an earlier process left
\* (chain/cosmos.rs, initialize).
THEOREM InitializeAlwaysFresh == Spec => InitializeIsFresh
<1>1. ASSUME TypeOK, CallsInv, Next, pc = "init.home", ret' = "ok"
      PROVE  /\ \A n \in Node, c \in 1 .. copies : CanExec(n, c) /\ vol[n] = "home"
             /\ netHeld /\ net
  <2>1. ret # "ok"
    BY <1>1 DEF CallsInv, Underway
  <2>2. todo = {}
    BY <1>1, <2>1, LastSteps DEF StopNetwork
  <2>3. \A n \in Node, c \in 1 .. copies : Visited(n, c)
    BY <2>2 DEF Visited
  <2> QED BY <1>1, <2>3 DEF CallsInv, Preparing
<1>2. TypeOK /\ CallsInv /\ [Next]_vars =>
        [pc = "init.home" /\ ret' = "ok" =>
           /\ \A n \in Node, c \in 1 .. copies : CanExec(n, c) /\ vol[n] = "home"
           /\ netHeld /\ net]_vars
  BY <1>1
<1> QED BY <1>2, TypeCorrect, CallsHold, PTL DEF Spec, InitializeIsFresh

\* Where start returns Ok every node is in a container of its struct, and where
\* start_all_nodes does all of them are of the new image, after any number of
\* failed or repeated calls (chain/cosmos.rs, start and start_all_nodes).
THEOREM StartAlwaysComplete == Spec => StartIsComplete
<1>1. ASSUME TypeOK, CallsInv, pc = "start.post", NEW n \in Node
      PROVE  Owner(n) = "held"
  <2>1. 1 \in 1 .. copies /\ 1 \in Copy
    BY <1>1, CopiesAreCopies, FirstSlot DEF CallsInv, Starting
  <2>2. CanExec(n, 1)
    BY <1>1, <2>1 DEF CallsInv, Starting
  <2> QED BY <2>1, <2>2 DEF CanExec, Owner, Present
<1>2. ASSUME CallsInv, pc = "up.wait"
      PROVE  \A n \in Node, c \in 1 .. copies : CanExec(n, c) /\ current[n]
  BY <1>2 DEF CallsInv, Upgrading
<1>3. TypeOK /\ CallsInv =>
        [/\ pc = "start.post" /\ ret' = "ok" => \A n \in Node : Owner(n) = "held"
         /\ pc = "up.wait" /\ ret' = "ok" =>
              \A n \in Node, c \in 1 .. copies : CanExec(n, c) /\ current[n]]_vars
  BY <1>1, <1>2
<1> QED BY <1>3, TypeCorrect, CallsHold, PTL DEF Spec, StartIsComplete

\* A stop that had nodes to stop and reported nothing has left no container of
\* a node and no volume (chain/cosmos.rs, stop).
THEOREM QuietStopAlwaysClean == Spec => QuietStopIsClean
<1>1. ASSUME TypeOK, CallsInv, Next, pc = "stop.net", ret' = "ok", ~reported', copies > 0, NEW n \in Node
      PROVE  ~Present(n) /\ vol[n] = "absent"
  <2>1. ret # "ok"
    BY <1>1 DEF CallsInv, Underway
  <2>2. StopNetwork
    BY <1>1, <2>1, LastSteps
  <2>3. ~reported
    BY <1>1, <2>2 DEF StopNetwork
  <2>4. 1 \in 1 .. copies
    BY <1>1, CopiesAreCopies
  <2> QED BY <1>1, <2>3, <2>4 DEF CallsInv, Stopping
<1>2. TypeOK /\ CallsInv /\ [Next]_vars =>
        [pc = "stop.net" /\ ret' = "ok" /\ ~reported' /\ copies > 0 =>
           \A n \in Node : ~Present(n) /\ vol[n] = "absent"]_vars
  BY <1>1
<1> QED BY <1>2, TypeCorrect, CallsHold, PTL DEF Spec, QuietStopIsClean

LEMMA CreationKeepsHome ==
  ASSUME TypeOK, NEW n \in Node, NEW c \in Copy, NEW next, CreateNode(n, c, TRUE, next), NEW m \in Node,
         vol[m] = "home"
  PROVE  vol'[m] = "home"
  BY DEF CreateNode, CreateSucceeds, CreateFails, TypeOK

\* The home of a node is given up in three places only: the creation of a fresh
\* node, the last step of stop on it, and the end of the process, after which it
\* counts as an earlier run's (chain/cosmos.rs, cosmos/node.rs).
THEOREM HomeAlwaysKept == Spec => HomeKept
<1>1. ASSUME TypeOK, Next, NEW n \in Node, vol[n] = "home", vol'[n] # "home", ~Crash,
             pc \notin {"init.create", "stop.vol"}
      PROVE  FALSE
  <2> USE DEF runtimeVars, Begin, LoopDone, FailAt, Goto
  <2>0. ~UNCHANGED vol
    BY <1>1
  <2>1. CASE InitSteps
    <3>1. CASE InitHome
      BY <1>1, <3>1 DEF InitHome, TypeOK
    <3>2. CASE InitStart
      BY <2>0, <3>2 DEF InitStart, StartBox
    <3> QED
      BY <1>1, <2>0, <2>1, <3>1, <3>2 DEF InitSteps, Initialize, PreClean, PreCleanDone, CreateNetwork,
         InitPull, InitCreate, InitCreateDone, InitDone
  <2>2. CASE SidecarSteps
    BY <2>0, <2>2 DEF SidecarSteps, StartSidecars, SidecarsCreate, SidecarsUp, StopSidecars,
       SidecarsStop, SidecarsDone, SidecarCreate, SidecarUp, SidecarStop, StartBox
  <2>3. CASE StartSteps
    BY <2>0, <2>3 DEF StartSteps, Start, GenesisPhase, PreSidecarCreate, PreSidecarUp,
       PreSidecarsDone, StartExec, StartExecDone, StartWait, PostSidecarCreate,
       PostSidecarUp, StartDone, SidecarCreate, SidecarUp, StartBox, ExecStartChain, WaitForBlocks
  <2>4. CASE StopSteps
    BY <1>1, <2>0, <2>4 DEF StopSteps, Stop, StopSidecar, StopSideDone, StopNode, StopNodesDone,
       StopVolume, StopVolumesDone, StopNetwork, SidecarStop
  <2>5. CASE UpgradeSteps
    <3>1. CASE UpCreate
      BY <1>1, <3>1, CreationKeepsHome DEF UpCreate
    <3> QED
      BY <2>0, <2>5, <3>1 DEF UpgradeSteps, StopAllNodes, HaltNode, HaltDone, UpgradeVersion,
         StartAllNodes, UpPull, UpRemove, UpStart, UpCreateDone, UpExec, UpExecDone, UpWait,
         StartBox, ExecStartChain, WaitForBlocks
  <2>6. CASE StepFails \/ Pause \/ BinaryDies
    BY <2>0, <2>6 DEF StepFails, Pause, PauseNode, BinaryDies
  <2> QED BY <1>1, <2>1, <2>2, <2>3, <2>4, <2>5, <2>6 DEF Next
<1>2. TypeOK /\ [Next]_vars =>
        [\A n \in Node : vol[n] = "home" /\ vol'[n] # "home" =>
           Crash \/ pc \in {"init.create", "stop.vol"}]_vars
  BY <1>1
<1> QED BY <1>2, TypeCorrect, PTL DEF Spec, HomeKept
=============================================================================
