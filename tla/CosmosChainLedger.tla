-------------------------- MODULE CosmosChainLedger --------------------------
(***************************************************************************)
(* Proofs that, for any number of nodes, sidecars and attempts to          *)
(* initialize, no two structs of a chain hold the same container           *)
(* (HandlesSound) and that the chain implements ResourceLedger.  Both rest *)
(* on the same facts: what each building block of the actions does to the  *)
(* owner of one container name.  Then, of the calls as CosmosChainCalls    *)
(* remembers them: each comes to one of the outcomes of ChainCalls, from   *)
(* what each building block does to what a caller sees of the chain.       *)
(***************************************************************************)
EXTENDS CosmosChainProofs, CosmosChainCalls

\* The handles and the presence of every container but n's are untouched.
OnlyAt(n) == \A m \in Name \ {n} : held'[m] = held[m] /\ Present(m)' = Present(m)

\* Nothing about containers and handles changes.
Untouched == held' = held /\ \A n \in Name : Present(n)' = Present(n)

LEMMA SetStatusPresent ==
  ASSUME TypeOK, NEW n \in Name, NEW st, SetStatus(n, st)
  PROVE  /\ Present(n)' = (st # "absent")
         /\ \A m \in Name \ {n} : Present(m)' = Present(m)
  BY DEF TypeOK, SetStatus, Present

LEMMA DanglingAt ==
  ASSUME TypeOK, NEW n \in Name, NEW st
  PROVE  /\ \A m \in Name \ {n} : Dangling(n, st)[m] = held[m]
         /\ st # "absent" => Dangling(n, st) = held
         /\ st = "absent" => \A c \in Copy : Dangling(n, st)[n][c] # "live"
         /\ \A m \in Name, c \in Copy : Dangling(n, st)[m][c] = "live" => held[m][c] = "live"
  BY DEF TypeOK, Dangling, Handle

\* A container present after a removal that did not remove it was present.
LEMMA StillPresent ==
  ASSUME TypeOK, NEW n \in Name, NEW st \in AfterRemoval(n), st # "absent"
  PROVE  Present(n)
  BY DEF TypeOK, AfterRemoval, Present, Status

-----------------------------------------------------------------------------
(* Handles stay sound.                                                     *)

LEMMA SoundUntouched ==
  ASSUME HandlesSound, Untouched
  PROVE  HandlesSound'
  BY DEF HandlesSound, Untouched, Present

\* It is enough to look at the name a step works on.
LEMMA SoundAt ==
  ASSUME HandlesSound, NEW n \in Name, OnlyAt(n),
         \A c \in Copy : held'[n][c] = "live" =>
           Present(n)' /\ \A d \in Copy : held'[n][d] = "live" => d = c
  PROVE  HandlesSound'
  BY DEF HandlesSound, OnlyAt, Present

LEMMA SoundRemoval ==
  ASSUME TypeOK, HandlesSound, NEW n \in Name, NEW st \in AfterRemoval(n),
         SetStatus(n, st), held' = Dangling(n, st)
  PROVE  HandlesSound' /\ OnlyAt(n)
<1>1. OnlyAt(n)
  BY SetStatusPresent, DanglingAt DEF OnlyAt
<1>2. ASSUME NEW c \in Copy, held'[n][c] = "live"
      PROVE  Present(n)' /\ \A d \in Copy : held'[n][d] = "live" => d = c
  <2>1. st # "absent" /\ held' = held
    BY <1>2, DanglingAt
  <2> QED
    BY <1>2, <2>1, SetStatusPresent DEF HandlesSound
<1> QED
  BY <1>1, <1>2, SoundAt

LEMMA SoundCreate ==
  ASSUME TypeOK, HandlesSound, NEW n \in Name, NEW c \in Copy, NEW v, NEW next,
         CreateSucceeds(n, c, v, next)
  PROVE  HandlesSound' /\ OnlyAt(n) /\ Present(n)' /\ held'[n][c] = "live"
<1>1. Dangling(n, "absent") \in [Name -> [Copy -> Handle]]
  BY DanglingType
<1>2. /\ \A m \in Name \ {n} : held'[m] = Dangling(n, "absent")[m]
      /\ held'[n] = [Dangling(n, "absent")[n] EXCEPT ![c] = "live"]
  BY <1>1 DEF CreateSucceeds
<1>3. /\ held'[n][c] = "live"
      /\ \A d \in Copy \ {c} : held'[n][d] # "live"
  BY <1>1, <1>2, DanglingAt
<1>4. Present(n)' /\ \A m \in Name \ {n} : Present(m)' = Present(m)
  BY DEF CreateSucceeds, Present, TypeOK
<1>5. OnlyAt(n)
  BY <1>2, <1>4, DanglingAt DEF OnlyAt
<1> QED
  BY <1>3, <1>4, <1>5, SoundAt

LEMMA SoundTake ==
  ASSUME TypeOK, HandlesSound, NEW n \in Name, NEW c \in Copy, NEW st \in Status,
         TakeAndRemove(n, c, st)
  PROVE  HandlesSound' /\ OnlyAt(n)
<1>1. CASE /\ held[n][c] = "live" /\ st \in AfterRemoval(n) /\ SetStatus(n, st)
           /\ held' = [Dangling(n, st) EXCEPT ![n][c] = "none"]
  <2>1. Dangling(n, st) \in [Name -> [Copy -> Handle]]
    BY DanglingType
  <2>2. /\ \A m \in Name \ {n} : held'[m] = Dangling(n, st)[m]
        /\ held'[n] = [Dangling(n, st)[n] EXCEPT ![c] = "none"]
    BY <1>1, <2>1
  <2>3. OnlyAt(n)
    BY <1>1, <2>2, SetStatusPresent, DanglingAt DEF OnlyAt
  <2>4. \A d \in Copy : held'[n][d] # "live"
    BY <1>1, <2>1, <2>2, DanglingAt DEF HandlesSound
  <2> QED
    BY <2>3, <2>4, SoundAt
<1>2. CASE /\ held[n][c] # "live" /\ held' = [held EXCEPT ![n][c] = "none"]
           /\ UNCHANGED <<status, binary, current>>
  <2>1. /\ \A m \in Name \ {n} : held'[m] = held[m]
        /\ held'[n] = [held[n] EXCEPT ![c] = "none"]
    BY <1>2 DEF TypeOK
  <2>2. OnlyAt(n)
    BY <1>2, <2>1 DEF OnlyAt, Present
  <2>3. \A d \in Copy : held'[n][d] = "live" => held[n][d] = "live"
    BY <2>1 DEF TypeOK
  <2> QED
    BY <1>2, <2>2, <2>3, SoundAt DEF HandlesSound, Present
<1> QED
  BY <1>1, <1>2 DEF TakeAndRemove

-----------------------------------------------------------------------------
(* What a building block is in the ledger.                                 *)

LEMMA OwnersAt ==
  ASSUME NEW n \in Name, OnlyAt(n)
  PROVE  Owners' = [Owners EXCEPT ![n] = Owner(n)']
<1>1. \A m \in Name \ {n} : Owner(m)' = Owner(m)
  BY DEF OnlyAt, Owner, Present
<1> QED
  BY <1>1 DEF Owners

LEMMA LedgerReport ==
  ASSUME TypeOK', Untouched
  PROVE  Ledger!Next
<1>1. Owners' = Owners
  BY DEF Untouched, Owners, Owner, Present
<1> QED
  BY <1>1 DEF Ledger!Next, Ledger!Report, TypeOK

LEMMA LedgerRelease ==
  ASSUME NEW n \in Name, OnlyAt(n), ~Present(n)', reported' \in {reported, TRUE}
  PROVE  Ledger!Next
<1>1. Owner(n)' = "none"
  BY DEF Owner, Present
<1>2. Ledger!Release(n)
  BY <1>1, OwnersAt DEF Ledger!Release
<1> QED
  BY <1>2 DEF Ledger!Next

LEMMA LedgerAcquire ==
  ASSUME NEW n \in Name, NEW c \in Copy, OnlyAt(n), Present(n)',
         held'[n][c] = "live", reported' = reported
  PROVE  Ledger!Next
<1>1. Owner(n)' = "held"
  BY DEF Owner, Present
<1>2. Ledger!Acquire(n)
  BY <1>1, OwnersAt DEF Ledger!Acquire
<1> QED
  BY <1>2 DEF Ledger!Next

\* A handle that is taken is the only one of its container: the container is
\* removed, or lost with a report.
LEMMA LedgerTake ==
  ASSUME TypeOK, TypeOK', HandlesSound,
         NEW n \in Name, NEW c \in Copy, NEW st \in Status, TakeAndRemove(n, c, st),
         reported' = (reported \/ RemovalFailed(n, c, st))
  PROVE  Ledger!Next
<1>0. OnlyAt(n)
  BY SoundTake
<1>1. CASE held[n][c] = "live" /\ st = "absent"
  <2>1. ~Present(n)'
    BY <1>1, SetStatusPresent DEF TakeAndRemove
  <2>2. reported' \in {reported, TRUE}
    BY DEF TypeOK
  <2> QED
    BY <1>0, <2>1, <2>2, LedgerRelease
<1>2. CASE held[n][c] = "live" /\ st # "absent"
  <2>1. Owner(n) = "held"
    BY <1>2 DEF HandlesSound, Owner
  <2>2. held' = [held EXCEPT ![n][c] = "none"] /\ SetStatus(n, st)
    BY <1>2, DanglingAt DEF TakeAndRemove
  <2>a. Present(n)'
    BY <1>2, <2>2, SetStatusPresent
  <2>b. \A d \in Copy : d # c => held[n][d] # "live"
    BY <1>2 DEF HandlesSound
  <2>c. held'[n] = [held[n] EXCEPT ![c] = "none"] /\ held[n] \in [Copy -> Handle]
    BY <2>2 DEF TypeOK
  <2>d. \A d \in Copy : held'[n][d] # "live"
    BY <2>b, <2>c
  <2>3. Present(n)' /\ \A d \in Copy : held'[n][d] # "live"
    BY <2>a, <2>d
  <2>4. Owner(n)' = "lost"
    BY <2>3 DEF Owner, Present
  <2>5. reported' = TRUE
    BY <1>2 DEF RemovalFailed
  <2>6. Ledger!Lose(n)
    BY <1>0, <2>1, <2>4, <2>5, OwnersAt DEF Ledger!Lose, Owners
  <2> QED
    BY <2>6 DEF Ledger!Next
<1>3. CASE held[n][c] # "live"
  <2>1. /\ held' = [held EXCEPT ![n][c] = "none"]
        /\ UNCHANGED <<status, binary, current>>
    BY <1>3 DEF TakeAndRemove
  <2>2. \A d \in Copy : held'[n][d] = "live" <=> held[n][d] = "live"
    BY <1>3, <2>1 DEF TypeOK
  <2>3. Owner(n)' = Owner(n)
    BY <2>1, <2>2 DEF Owner, Present
  <2>4. Owners' = Owners
    BY <1>0, <2>3, OwnersAt DEF Owners
  <2> QED
    BY <2>4 DEF Ledger!Next, Ledger!Report, TypeOK
<1> QED
  BY <1>1, <1>2, <1>3

LEMMA LedgerDie ==
  ASSUME TypeOK, Crash
  PROVE  HandlesSound' /\ Ledger!Next
<1>1. \A n \in Name, c \in Copy : held'[n][c] = "none"
  BY DEF Crash, NoHandles
<1>2. \A n \in Name : Present(n)' = Present(n)
  BY DEF Crash, Present
<1>3. \A n \in Name : Owner(n)' = IF Owner(n) = "none" THEN "none" ELSE "lost"
  BY <1>1, <1>2 DEF Owner, Present
<1>4. Ledger!Die
  BY <1>3 DEF Ledger!Die, Owners, Crash
<1> QED
  BY <1>1, <1>4 DEF Ledger!Next, HandlesSound

-----------------------------------------------------------------------------
(* The steps of the chain.                                                 *)

Sound == HandlesSound' /\ Ledger!Next

LEMMA UntouchedSound ==
  ASSUME TypeOK', HandlesSound, Untouched
  PROVE  Sound
  BY SoundUntouched, LedgerReport DEF Sound

LEMMA TakeSound ==
  ASSUME TypeOK, TypeOK', HandlesSound,
         NEW n \in Name, NEW c \in Copy, NEW st \in Status, TakeAndRemove(n, c, st),
         reported' = (reported \/ RemovalFailed(n, c, st))
  PROVE  Sound
  BY SoundTake, LedgerTake DEF Sound

\* A removal through the name, all its failures ignored.
LEMMA RemovalSound ==
  ASSUME TypeOK, TypeOK', HandlesSound, NEW n \in Name, NEW st \in AfterRemoval(n),
         SetStatus(n, st), held' = Dangling(n, st), reported' \in {reported, TRUE}
  PROVE  Sound
<1>1. HandlesSound' /\ OnlyAt(n)
  BY SoundRemoval
<1>2. CASE st = "absent"
  <2>1. ~Present(n)'
    BY <1>2, SetStatusPresent
  <2> QED
    BY <1>1, <2>1, LedgerRelease DEF Sound
<1>3. CASE st # "absent"
  <2>1. Present(n) /\ Present(n)' /\ held' = held
    BY <1>3, StillPresent, SetStatusPresent, DanglingAt
  <2>2. Untouched
    BY <1>1, <2>1 DEF Untouched, OnlyAt, Present
  <2> QED
    BY <2>2, UntouchedSound
<1> QED
  BY <1>2, <1>3

LEMMA CreateNodeSound ==
  ASSUME TypeOK, TypeOK', HandlesSound, NEW n \in Name, NEW c \in Copy,
         NEW keepVolume, NEW next, CreateNode(n, c, keepVolume, next)
  PROVE  Sound
<1>1. PICK st \in AfterRemoval(n) :
        \E v : CreateSucceeds(n, c, v, next) \/ CreateFails(n, st, v)
  BY DEF CreateNode
<1>2. PICK v : CreateSucceeds(n, c, v, next) \/ CreateFails(n, st, v)
  BY <1>1
<1>3. CASE CreateSucceeds(n, c, v, next)
  <2>1. /\ HandlesSound' /\ OnlyAt(n)
        /\ Present(n)' /\ held'[n][c] = "live"
    BY <1>3, SoundCreate
  <2>2. reported' = reported
    BY <1>3 DEF CreateSucceeds, Goto
  <2> QED
    BY <2>1, <2>2, LedgerAcquire DEF Sound
<1>4. CASE CreateFails(n, st, v)
  <2>1. SetStatus(n, st) /\ held' = Dangling(n, st)
    BY <1>4 DEF CreateFails
  <2>2. reported' \in {reported, TRUE}
    BY <1>4 DEF CreateFails, Return, TypeOK
  <2> QED
    BY <2>1, <2>2, RemovalSound
<1> QED
  BY <1>2, <1>3, <1>4

LEMMA StartBoxSound ==
  ASSUME TypeOK, TypeOK', HandlesSound, NEW n \in Name, NEW c \in Copy, NEW next,
         StartBox(n, c, next)
  PROVE  Sound
<1>1. Untouched
  <2>1. held' = held
    BY DEF StartBox, chainVars
  <2>2. CASE UNCHANGED runtimeVars
    BY <2>1, <2>2 DEF Untouched, Present, runtimeVars
  <2>3. CASE held[n][c] = "live" /\ status' = [status EXCEPT ![n] = "running"]
    <3>1. Present(n)
      BY <2>3 DEF HandlesSound
    <3> QED
      BY <2>1, <2>3, <3>1 DEF Untouched, Present, TypeOK
  <2> QED
    BY <2>2, <2>3 DEF StartBox
<1> QED
  BY <1>1, UntouchedSound

\* No container carries the sidecar's name before, so no handle does.
LEMMA SidecarCreateSound ==
  ASSUME TypeOK, TypeOK', HandlesSound, NEW from, NEW next, SidecarCreate(from, next)
  PROVE  Sound
<1>1. PICK n \in Sidecar, c \in Copy :
         \/ /\ status[n] = "absent" /\ SetStatus(n, "created")
            /\ held' = [held EXCEPT ![n][c] = "live"]
            /\ Goto(next)
         \/ UNCHANGED <<status, held>>
  BY DEF SidecarCreate
<1>2. n \in Name
  BY NodesAreNames
<1>3. CASE UNCHANGED <<status, held>>
  BY <1>3, UntouchedSound DEF Untouched, Present
<1>4. CASE /\ status[n] = "absent" /\ SetStatus(n, "created")
           /\ held' = [held EXCEPT ![n][c] = "live"]
           /\ Goto(next)
  <2>1. \A d \in Copy : held[n][d] # "live"
    BY <1>2, <1>4 DEF HandlesSound, Present
  <2>2. /\ held'[n] = [held[n] EXCEPT ![c] = "live"]
        /\ \A m \in Name \ {n} : held'[m] = held[m]
    BY <1>2, <1>4 DEF TypeOK
  <2>3. /\ held'[n][c] = "live"
        /\ \A d \in Copy \ {c} : held'[n][d] # "live"
    <3>1. held[n] \in [Copy -> Handle]
      BY <1>2 DEF TypeOK
    <3> QED
      BY <2>1, <2>2, <3>1
  <2>4. Present(n)' /\ OnlyAt(n)
    <3>1. Present(n)' = ("created" # "absent") /\ \A m \in Name \ {n} : Present(m)' = Present(m)
      BY <1>2, <1>4, SetStatusPresent
    <3> QED
      BY <2>2, <3>1 DEF OnlyAt
  <2>5. HandlesSound'
    BY <1>2, <2>3, <2>4, SoundAt
  <2>6. Ledger!Next
    BY <1>2, <1>4, <2>3, <2>4, LedgerAcquire DEF Goto
  <2> QED
    BY <2>5, <2>6 DEF Sound
<1> QED
  BY <1>1, <1>3, <1>4

LEMMA SidecarUpSound ==
  ASSUME TypeOK, TypeOK', HandlesSound, NEW from, NEW next, SidecarUp(from, next)
  PROVE  Sound
  BY StartBoxSound, NodesAreNames DEF SidecarUp

LEMMA SidecarStopSound ==
  ASSUME TypeOK, TypeOK', HandlesSound, NEW from, SidecarStop(from)
  PROVE  Sound
  BY TakeSound, NodesAreNames DEF SidecarStop

\* Steps that touch neither containers nor handles.
LEMMA QuietSound ==
  ASSUME TypeOK', HandlesSound, UNCHANGED <<status, held>>
  PROVE  Sound
  BY UntouchedSound DEF Untouched, Present

LEMMA InitStepsSound ==
  ASSUME TypeOK, TypeOK', HandlesSound, InitSteps
  PROVE  Sound
<1> USE DEF runtimeVars, chainVars
<1>1. CASE \/ Initialize \/ PreCleanDone \/ CreateNetwork \/ InitPull
           \/ InitCreateDone \/ InitHome \/ InitDone
  BY <1>1, QuietSound DEF Initialize, Begin, PreCleanDone, LoopDone, CreateNetwork,
     InitPull, InitCreateDone, InitHome, InitDone
<1>2. CASE PreClean
  <2>1. PICK n \in Node : \E st \in AfterRemoval(n) :
          SetStatus(n, st) /\ held' = Dangling(n, st)
    BY <1>2 DEF PreClean
  <2>2. reported' \in {reported, TRUE}
    BY <1>2 DEF PreClean
  <2> QED
    BY <2>1, <2>2, RemovalSound, NodesAreNames
<1>3. CASE InitCreate
  BY <1>3, CreateNodeSound, NodesAreNames DEF InitCreate
<1>4. CASE InitStart
  BY <1>4, StartBoxSound, NodesAreNames DEF InitStart
<1> QED
  BY <1>1, <1>2, <1>3, <1>4 DEF InitSteps

LEMMA SidecarStepsSound ==
  ASSUME TypeOK, TypeOK', HandlesSound, SidecarSteps
  PROVE  Sound
<1>1. CASE StartSidecars \/ StopSidecars \/ SidecarsDone
  BY <1>1, QuietSound DEF StartSidecars, StopSidecars, SidecarsDone, Begin,
     runtimeVars, chainVars
<1>2. CASE SidecarsCreate
  BY <1>2, SidecarCreateSound DEF SidecarsCreate
<1>3. CASE SidecarsUp
  BY <1>3, SidecarUpSound DEF SidecarsUp
<1>4. CASE SidecarsStop
  BY <1>4, SidecarStopSound DEF SidecarsStop
<1> QED
  BY <1>1, <1>2, <1>3, <1>4 DEF SidecarSteps

LEMMA StartStepsSound ==
  ASSUME TypeOK, TypeOK', HandlesSound, StartSteps
  PROVE  Sound
<1> USE DEF runtimeVars, chainVars
<1>1. CASE \/ Start \/ GenesisPhase \/ PreSidecarsDone \/ StartExec
           \/ StartExecDone \/ StartWait \/ StartDone
  BY <1>1, QuietSound DEF Start, Begin, GenesisPhase, LoopDone, PreSidecarsDone,
     StartExec, ExecStartChain, StartExecDone, StartWait, WaitForBlocks, StartDone
<1>2. CASE PreSidecarCreate \/ PostSidecarCreate
  BY <1>2, SidecarCreateSound DEF PreSidecarCreate, PostSidecarCreate
<1>3. CASE PreSidecarUp \/ PostSidecarUp
  BY <1>3, SidecarUpSound DEF PreSidecarUp, PostSidecarUp
<1> QED
  BY <1>1, <1>2, <1>3 DEF StartSteps

LEMMA StopStepsSound ==
  ASSUME TypeOK, TypeOK', HandlesSound, StopSteps
  PROVE  Sound
<1>1. CASE \/ Stop \/ StopSideDone \/ StopNodesDone \/ StopVolume
           \/ StopVolumesDone \/ StopNetwork
  BY <1>1, QuietSound DEF Stop, Begin, StopSideDone, StopNodesDone, StopVolume,
     StopVolumesDone, LoopDone, StopNetwork, runtimeVars, chainVars
<1>2. CASE StopSidecar
  BY <1>2, SidecarStopSound DEF StopSidecar
<1>3. CASE StopNode
  BY <1>3, TakeSound, NodesAreNames DEF StopNode
<1> QED
  BY <1>1, <1>2, <1>3 DEF StopSteps

LEMMA HaltSound ==
  ASSUME TypeOK, TypeOK', HandlesSound, HaltNode
  PROVE  Sound
<1>1. PICK n \in Node :
        \/ status[n] \in {"running", "paused"} /\ SetStatus(n, "stopped")
        \/ UNCHANGED status
  BY DEF HaltNode
<1>2. held' = held
  BY DEF HaltNode, chainVars
<1>3. CASE status[n] \in {"running", "paused"} /\ SetStatus(n, "stopped")
  <2>1. n \in Name /\ Present(n)
    BY <1>3, NodesAreNames DEF Present
  <2>2. Present(n)' /\ \A m \in Name \ {n} : Present(m)' = Present(m)
    <3>1. Present(n)' = ("stopped" # "absent") /\ \A m \in Name \ {n} : Present(m)' = Present(m)
      BY <1>3, <2>1, SetStatusPresent
    <3> QED
      BY <3>1
  <2> QED
    BY <1>2, <2>1, <2>2, UntouchedSound DEF Untouched, Present
<1> QED
  BY <1>1, <1>2, <1>3, QuietSound

LEMMA UpgradeStepsSound ==
  ASSUME TypeOK, TypeOK', HandlesSound, UpgradeSteps
  PROVE  Sound
<1> USE DEF runtimeVars, chainVars
<1>1. CASE \/ StopAllNodes \/ HaltDone \/ UpgradeVersion \/ StartAllNodes
           \/ UpPull \/ UpCreateDone \/ UpExec \/ UpExecDone \/ UpWait
  BY <1>1, QuietSound DEF StopAllNodes, Begin, HaltDone, UpgradeVersion, StartAllNodes,
     UpPull, UpCreateDone, LoopDone, UpExec, ExecStartChain, UpExecDone, UpWait,
     WaitForBlocks
<1>2. CASE HaltNode
  BY <1>2, HaltSound
<1>3. CASE UpRemove
  <2>1. PICK n \in Node, c \in Copy, st \in Status :
          /\ TakeAndRemove(n, c, st)
          /\ IF RemovalFailed(n, c, st)
             THEN Return("err")
             ELSE Goto("up.create") /\ UNCHANGED todo
    BY <1>3 DEF UpRemove
  <2>2. reported' = (reported \/ RemovalFailed(n, c, st))
    BY <2>1 DEF Return, Goto, RemovalFailed, TypeOK
  <2> QED
    BY <2>1, <2>2, TakeSound, NodesAreNames
<1>4. CASE UpCreate
  BY <1>4, CreateNodeSound, NodesAreNames DEF UpCreate
<1>5. CASE UpStart
  BY <1>5, StartBoxSound, NodesAreNames DEF UpStart
<1> QED
  BY <1>1, <1>2, <1>3, <1>4, <1>5 DEF UpgradeSteps

LEMMA OtherStepsSound ==
  ASSUME TypeOK, TypeOK', HandlesSound, StepFails \/ Pause \/ BinaryDies \/ Crash
  PROVE  Sound
<1>1. CASE StepFails \/ BinaryDies
  BY <1>1, QuietSound DEF StepFails, FailAt, BinaryDies, runtimeVars, chainVars
<1>2. CASE Pause
  <2>1. PICK n \in Node, to \in {"paused", "running"} :
          /\ status[n] \in {"paused", "running"}
          /\ status' = [status EXCEPT ![n] = to]
          /\ held' = held
    BY <1>2 DEF Pause, PauseNode, chainVars
  <2>2. Untouched
    BY <2>1, NodesAreNames DEF Untouched, Present, TypeOK
  <2> QED
    BY <2>2, UntouchedSound
<1>3. CASE Crash
  BY <1>3, LedgerDie DEF Sound
<1> QED
  BY <1>1, <1>2, <1>3

-----------------------------------------------------------------------------
\* No two node or sidecar structs ever hold the same container, and every
\* container_id that is not dangling names a container that exists: true for
\* any number of nodes, and of failed initialize calls in one process.
THEOREM HandlesAlwaysSound == Spec => []HandlesSound
<1>1. Init => HandlesSound
  BY DEF Init, HandlesSound, NoHandles
<1>2. TypeOK /\ TypeOK' /\ HandlesSound /\ [Next]_vars => HandlesSound'
  <2> SUFFICES ASSUME TypeOK, TypeOK', HandlesSound, [Next]_vars PROVE HandlesSound'
    OBVIOUS
  <2>1. CASE UNCHANGED vars
    BY <2>1, QuietSound DEF vars, runtimeVars, chainVars, Sound
  <2>2. CASE Next
    BY <2>2, InitStepsSound, SidecarStepsSound, StartStepsSound, StopStepsSound,
       UpgradeStepsSound, OtherStepsSound DEF Next, Sound
  <2> QED
    BY <2>1, <2>2
<1> QED
  BY <1>1, <1>2, TypeCorrect, PTL DEF Spec

\* The chain implements ResourceLedger: in any run, with any number of nodes
\* and sidecars, a container drops out of reach only when the process dies or
\* in a call that returns an error or logs a warning.
THEOREM ChainKeepsLedger == Spec => NeverLostSilently
<1>1. Init => Ledger!Init
  BY DEF Init, Ledger!Init, Owners, Owner, Present
<1>2. TypeOK /\ TypeOK' /\ HandlesSound /\ [Next]_vars => [Ledger!Next]_(Ledger!vars)
  <2> SUFFICES ASSUME TypeOK, TypeOK', HandlesSound, [Next]_vars
               PROVE  [Ledger!Next]_(Ledger!vars)
    OBVIOUS
  <2>1. CASE UNCHANGED vars
    BY <2>1 DEF vars, runtimeVars, chainVars, callVars, Ledger!vars, Owners, Owner, Present
  <2>2. CASE Next
    BY <2>2, InitStepsSound, SidecarStepsSound, StartStepsSound, StopStepsSound,
       UpgradeStepsSound, OtherStepsSound DEF Next, Sound
  <2> QED
    BY <2>1, <2>2
<1> QED
  BY <1>1, <1>2, TypeCorrect, HandlesAlwaysSound, PTL
  DEF Spec, NeverLostSilently, Ledger!Spec

-----------------------------------------------------------------------------
(* What each step does to what a caller sees of the chain.                 *)

\* What most steps leave alone: what the struct knows of itself, ...
Quiet == UNCHANGED <<copies, netHeld, initialized, net>>

\* ... and which nodes have a container and a home.
Kept == \A n \in Node : /\ Present(n)' <=> Present(n)
                        /\ vol'[n] = "absent" <=> vol[n] = "absent"

\* Nothing that was not there appears.
Fewer == \A n \in Node : /\ Present(n)' => Present(n)
                         /\ vol[n] = "absent" => vol'[n] = "absent"

\* A home that a container uses stays where it is.
Housed == \A n \in Node : Present(n) => vol[n] # "absent"

Goes(to)  == pc' \in to /\ ret' = ret
Quits(r)  == pc' = "idle" /\ ret' = r

LEMMA StatusKept ==
  ASSUME UNCHANGED <<status, vol>>
  PROVE  Kept
  BY DEF Kept, Present

LEMMA SidecarKept ==
  ASSUME TypeOK, NEW n \in Sidecar, NEW st, SetStatus(n, st), UNCHANGED vol
  PROVE  Kept
  BY SidecarIsNoNode, NodesAreNames, SetStatusPresent DEF Kept

LEMMA SidecarCreateEffect ==
  ASSUME TypeOK, NEW from, NEW to, SidecarCreate(from, to)
  PROVE  Quiet /\ Kept /\ pc = from /\ (Goes({to}) \/ Quits("err"))
<1>1. Quiet /\ pc = from /\ UNCHANGED vol
  BY DEF SidecarCreate, Quiet
<1>2. PICK n \in Sidecar :
        \/ SetStatus(n, "created") /\ Goto(to)
        \/ Return("err") /\ UNCHANGED status
  BY DEF SidecarCreate
<1> QED
  BY <1>1, <1>2, SidecarKept, StatusKept DEF Goto, Return, Goes, Quits

LEMMA StartBoxEffect ==
  ASSUME TypeOK, HandlesSound, NEW n \in Name, NEW c \in Copy, NEW to, StartBox(n, c, to)
  PROVE  Quiet /\ Kept /\ (Goes({to}) \/ Quits("err"))
<1>1. Quiet /\ UNCHANGED vol
  BY DEF StartBox, Quiet, chainVars, runtimeVars
<1>2. Goes({to}) \/ Quits("err")
  BY DEF StartBox, Goto, Return, Goes, Quits
<1>3. CASE held[n][c] = "live" /\ status' = [status EXCEPT ![n] = "running"]
  <2>1. Present(n)
    BY <1>3 DEF HandlesSound
  <2>2. \A m \in Name : Present(m)' <=> Present(m)
    BY <1>3, <2>1 DEF Present, TypeOK
  <2> QED
    BY <1>1, <1>2, <2>2, NodesAreNames DEF Kept
<1>4. CASE UNCHANGED status
  BY <1>1, <1>2, <1>4, StatusKept
<1> QED
  BY <1>3, <1>4 DEF StartBox, runtimeVars

LEMMA SidecarUpEffect ==
  ASSUME TypeOK, HandlesSound, NEW from, NEW to, SidecarUp(from, to)
  PROVE  Quiet /\ Kept /\ pc = from /\ (Goes({to}) \/ Quits("err"))
  BY StartBoxEffect, NodesAreNames DEF SidecarUp

LEMMA SidecarStopEffect ==
  ASSUME TypeOK, NEW from, SidecarStop(from)
  PROVE  Quiet /\ Kept /\ pc = from /\ Goes({from})
<1>1. Quiet /\ pc = from /\ Goes({from}) /\ UNCHANGED vol
  BY DEF SidecarStop, Quiet, Goes
<1>2. PICK n \in Sidecar, c \in Copy, st \in Status : TakeAndRemove(n, c, st)
  BY DEF SidecarStop
<1> QED
  BY <1>1, <1>2, SidecarKept, StatusKept DEF TakeAndRemove

LEMMA LoopEffect ==
  ASSUME NEW from, NEW to, NEW slots, LoopDone(from, to, slots)
  PROVE  Quiet /\ Kept /\ pc = from /\ Goes({to}) /\ todo' = slots
  BY StatusKept DEF LoopDone, Quiet, Goes, Goto, runtimeVars, chainVars

LEMMA BeginEffect ==
  ASSUME NEW s, NEW slots, Begin(s, slots)
  PROVE  Quiet /\ Kept /\ pc = "idle" /\ pc' = s /\ ret' = "none" /\ todo' = slots
  BY StatusKept DEF Begin, Quiet, runtimeVars, chainVars

LEMMA ExecEffect ==
  ASSUME NEW n, NEW c, ExecStartChain(n, c)
  PROVE  Quiet /\ Kept /\ (Goes({pc}) \/ Quits("err"))
  BY StatusKept DEF ExecStartChain, Quiet, Goes, Quits, Return, runtimeVars, chainVars

SideCall == {"side.create", "side.up", "side.stop"}

LEMMA StartEffect ==
  ASSUME TypeOK, HandlesSound, StartSteps
  PROVE  /\ Quiet /\ Kept
         /\ \/ pc = "idle" /\ initialized /\ pc' \in StartCall /\ ret' = "none"
            \/ pc \in StartCall /\ (Goes(StartCall) \/ Quits("err"))
            \/ pc = "start.post" /\ Quits("ok")
<1> USE DEF StartCall
<1>1. CASE Start
  BY <1>1, BeginEffect DEF Start
<1>2. CASE GenesisPhase \/ PreSidecarsDone \/ StartExecDone
  BY <1>2, LoopEffect DEF GenesisPhase, PreSidecarsDone, StartExecDone, Goes
<1>3. CASE PreSidecarCreate \/ PostSidecarCreate
  BY <1>3, SidecarCreateEffect DEF PreSidecarCreate, PostSidecarCreate, Goes
<1>4. CASE PreSidecarUp \/ PostSidecarUp
  BY <1>4, SidecarUpEffect DEF PreSidecarUp, PostSidecarUp, Goes
<1>5. CASE StartExec
  BY <1>5, ExecEffect DEF StartExec, Goes
<1>6. CASE StartWait
  BY <1>6, StatusKept DEF StartWait, WaitForBlocks, Quiet, Goes, Quits, Goto, Return,
     runtimeVars, chainVars
<1>7. CASE StartDone
  BY <1>7, StatusKept DEF StartDone, Quiet, Quits, Return, runtimeVars, chainVars
<1> QED
  BY <1>1, <1>2, <1>3, <1>4, <1>5, <1>6, <1>7 DEF StartSteps

LEMMA SidecarEffect ==
  ASSUME TypeOK, HandlesSound, SidecarSteps
  PROVE  /\ Quiet /\ Kept
         /\ \/ pc = "idle" /\ pc' \in SideCall /\ ret' = "none"
            \/ pc \in SideCall /\ (Goes(SideCall) \/ \E r \in {"ok", "err"} : Quits(r))
<1> USE DEF SideCall
<1>1. CASE StartSidecars \/ StopSidecars
  BY <1>1, BeginEffect DEF StartSidecars, StopSidecars
<1>2. CASE SidecarsCreate
  BY <1>2, SidecarCreateEffect DEF SidecarsCreate, Goes
<1>3. CASE SidecarsUp
  BY <1>3, SidecarUpEffect DEF SidecarsUp, Goes
<1>4. CASE SidecarsStop
  BY <1>4, SidecarStopEffect DEF SidecarsStop, Goes
<1>5. CASE SidecarsDone
  BY <1>5, StatusKept DEF SidecarsDone, Quiet, Quits, Return, runtimeVars, chainVars
<1> QED
  BY <1>1, <1>2, <1>3, <1>4, <1>5 DEF SidecarSteps

-----------------------------------------------------------------------------
\* A removal: the container is gone or as much there as before.
LEMMA TakeEffect ==
  ASSUME TypeOK, NEW n \in Name, NEW c \in Copy, NEW st \in Status, TakeAndRemove(n, c, st)
  PROVE  \A m \in Name : Present(m)' => Present(m)
<1>1. CASE st \in AfterRemoval(n) /\ SetStatus(n, st)
  BY <1>1, SetStatusPresent, StillPresent
<1>2. CASE UNCHANGED status
  BY <1>2 DEF Present
<1> QED
  BY <1>1, <1>2 DEF TakeAndRemove

LEMMA StopEffect ==
  ASSUME TypeOK, Housed, StopSteps, ~StopNetwork
  PROVE  /\ Quiet /\ Housed'
         /\ \/ Kept
            \/ Fewer /\ pc \in {"stop.node", "stop.vol"} /\ \E s \in todo : s[1] \in Node
         /\ \/ pc = "idle" /\ pc' = "stop.side" /\ ret' = "none"
            \/ pc \in StopCall /\ Goes(StopCall)
         /\ \/ pc' = "stop.side"
            \/ pc' = pc /\ todo' \subseteq todo
            \/ todo' \subseteq Slots(Node, copies)
<1> USE DEF StopCall
<1>1. CASE Stop
  BY <1>1, BeginEffect DEF Stop, Housed, Kept
<1>2. CASE StopSidecar
  BY <1>2, SidecarStopEffect DEF StopSidecar, Housed, Kept, Goes
<1>3. CASE StopSideDone \/ StopNodesDone \/ StopVolumesDone
  BY <1>3, LoopEffect DEF StopSideDone, StopNodesDone, StopVolumesDone, Housed, Kept, Goes
<1>4. CASE StopNode
  <2>1. PICK n \in Node, c \in Copy, st \in Status :
          Current(n, c) /\ TakeAndRemove(n, c, st) /\ todo' = todo \ {<<n, c>>}
    BY <1>4 DEF StopNode
  <2>2. \A m \in Node : Present(m)' => Present(m)
    BY <2>1, TakeEffect, NodesAreNames
  <2>3. Quiet /\ pc = "stop.node" /\ Goes({pc}) /\ UNCHANGED vol
    BY <1>4 DEF StopNode, Quiet, Goes
  <2>4. Fewer /\ Housed'
    BY <2>2, <2>3 DEF Fewer, Housed
  <2> QED
    BY <2>1, <2>3, <2>4 DEF Current, Goes
<1>5. CASE StopVolume
  <2>1. PICK n \in Node, c \in Copy :
          /\ Current(n, c) /\ todo' = todo \ {<<n, c>>}
          /\ \/ status[n] = "absent" /\ vol' = [vol EXCEPT ![n] = "absent"]
             \/ UNCHANGED vol
    BY <1>5 DEF StopVolume
  <2>2. Quiet /\ pc = "stop.vol" /\ Goes({pc}) /\ UNCHANGED status
    BY <1>5 DEF StopVolume, Quiet, Goes, chainVars
  <2>3. Fewer /\ Housed'
    BY <2>1, <2>2 DEF Fewer, Housed, Present, TypeOK
  <2> QED
    BY <2>1, <2>2, <2>3 DEF Current, Goes
<1> QED
  BY <1>1, <1>2, <1>3, <1>4, <1>5 DEF StopSteps

\* A creation: the node's home may be a new one, and is not given up when kept.
LEMMA CreateEffect ==
  ASSUME TypeOK, Housed, NEW n \in Node, NEW c \in Copy, NEW keepVolume, NEW next,
         CreateNode(n, c, keepVolume, next)
  PROVE  /\ Quiet /\ Housed' /\ (Goes({next}) \/ Quits("err"))
         /\ keepVolume => \A m \in Node : vol[m] # "absent" => vol'[m] # "absent"
<1>1. PICK st \in AfterRemoval(n), v \in {vol[n], "absent"} :
        /\ v = vol[n] \/ (st = "absent" /\ ~keepVolume)
        /\ \/ st = "absent" /\ CreateSucceeds(n, c, v, next)
           \/ CreateFails(n, st, v)
  BY DEF CreateNode
<1>2. n \in Name
  BY NodesAreNames
<1>3. CASE CreateSucceeds(n, c, v, next)
  <2>1. Quiet /\ Goes({next})
    BY <1>3 DEF CreateSucceeds, Quiet, Goes, Goto
  <2>2. vol'[n] # "absent" /\ \A m \in Node \ {n} : vol'[m] = vol[m]
    BY <1>3 DEF CreateSucceeds, TypeOK
  <2>3. \A m \in Node \ {n} : Present(m)' <=> Present(m)
    BY <1>3 DEF CreateSucceeds, Present, TypeOK
  <2> QED
    BY <2>1, <2>2, <2>3 DEF Housed
<1>4. CASE CreateFails(n, st, v)
  <2>1. Quiet /\ Quits("err")
    BY <1>4 DEF CreateFails, Quiet, Quits, Return
  <2>2. vol'[n] = v /\ \A m \in Node \ {n} : vol'[m] = vol[m]
    BY <1>4 DEF CreateFails, TypeOK
  <2>3. Present(n)' = (st # "absent") /\ \A m \in Name \ {n} : Present(m)' = Present(m)
    BY <1>2, <1>4, SetStatusPresent DEF CreateFails
  <2>4. Present(n)' => Present(n) /\ v = vol[n]
    BY <1>1, <1>2, <2>3, StillPresent
  <2> QED
    BY <1>1, <2>1, <2>2, <2>3, <2>4, NodesAreNames DEF Housed
<1> QED
  BY <1>1, <1>3, <1>4

UpCall == {"up.remove", "up.create", "up.start", "up.exec", "up.wait"}

LEMMA UpgradeEffect ==
  ASSUME TypeOK, HandlesSound, Housed, UpgradeSteps
  PROVE  /\ Quiet /\ Housed'
         /\ \/ Kept
            \/ pc \in UpCall /\ \A n \in Node : vol[n] # "absent" => vol'[n] # "absent"
         /\ \/ pc = "idle" /\ pc' \in {"halt", "up.pull"} /\ ret' = "none"
            \/ pc = "idle" /\ pc' = "idle"
            \/ pc = "up.pull" /\ Goes(UpCall)
            \/ pc = "halt" /\ Goes({"halt"})
            \/ pc \in UpCall /\ Goes(UpCall)
            \/ pc \in UpCall \cup {"halt"} /\ \E r \in {"ok", "err"} : Quits(r)
<1> USE DEF UpCall
<1>1. CASE StopAllNodes \/ StartAllNodes
  BY <1>1, BeginEffect DEF StopAllNodes, StartAllNodes, Housed, Kept
<1>2. CASE UpPull \/ UpCreateDone \/ UpExecDone
  BY <1>2, LoopEffect DEF UpPull, UpCreateDone, UpExecDone, Housed, Kept, Goes
<1>3. CASE HaltNode
  <2>1. pc = "halt" /\ Quiet /\ UNCHANGED vol /\ (Goes({"halt"}) \/ Quits("err"))
    BY <1>3 DEF HaltNode, Quiet, Goes, Quits, Return, chainVars
  <2>2. PICK n \in Node :
          \/ status[n] \in {"running", "paused"} /\ SetStatus(n, "stopped")
          \/ UNCHANGED status
    BY <1>3 DEF HaltNode
  <2>3. CASE status[n] \in {"running", "paused"} /\ SetStatus(n, "stopped")
    <3>1. Present(n)
      BY <2>3 DEF Present
    <3>2. Present(n)' /\ \A m \in Name \ {n} : Present(m)' = Present(m)
      <4>1. Present(n)' = ("stopped" # "absent") /\ \A m \in Name \ {n} : Present(m)' = Present(m)
        BY <2>3, SetStatusPresent, NodesAreNames
      <4> QED
        BY <4>1
    <3>3. Kept
      BY <2>1, <3>1, <3>2, NodesAreNames DEF Kept
    <3> QED
      BY <2>1, <3>3 DEF Housed, Kept
  <2>4. CASE UNCHANGED status
    BY <2>1, <2>4, StatusKept DEF Housed, Kept
  <2> QED
    BY <2>2, <2>3, <2>4
<1>4. CASE HaltDone \/ UpgradeVersion
  BY <1>4, StatusKept DEF HaltDone, UpgradeVersion, Quiet, Quits, Return, Housed, Kept,
     runtimeVars, chainVars, callVars
<1>5. CASE UpRemove
  <2>1. PICK n \in Node, c \in Copy, st \in Status :
          /\ TakeAndRemove(n, c, st)
          /\ \/ Return("err")
             \/ Goto("up.create")
    BY <1>5 DEF UpRemove
  <2>2. pc = "up.remove" /\ Quiet /\ UNCHANGED vol
    BY <1>5 DEF UpRemove, Quiet
  <2>3. \A m \in Node : Present(m)' => Present(m)
    BY <2>1, TakeEffect, NodesAreNames
  <2> QED
    BY <2>1, <2>2, <2>3 DEF Housed, Goes, Quits, Return, Goto
<1>6. CASE UpCreate
  BY <1>6, CreateEffect DEF UpCreate, Goes
<1>7. CASE UpStart
  BY <1>7, StartBoxEffect, NodesAreNames DEF UpStart, Housed, Kept, Goes
<1>8. CASE UpExec
  BY <1>8, ExecEffect DEF UpExec, Housed, Kept, Goes
<1>9. CASE UpWait
  BY <1>9, StatusKept DEF UpWait, WaitForBlocks, Quiet, Quits, Return, Housed, Kept,
     runtimeVars, chainVars
<1> QED
  BY <1>1, <1>2, <1>3, <1>4, <1>5, <1>6, <1>7, <1>8, <1>9 DEF UpgradeSteps

Preparation == {"init.pull", "init.create", "init.start", "init.home"}

LEMMA InitEffect ==
  ASSUME TypeOK, HandlesSound, Housed, InitSteps, ~CreateNetwork, ~InitDone
  PROVE  /\ Quiet /\ Housed'
         /\ \/ pc = "idle" /\ pc' = "init.clean" /\ ret' = "none" /\ Kept /\ ~initialized
            \/ /\ pc = "init.clean" /\ Goes({"init.clean", "init.net"})
               /\ UNCHANGED vol /\ \A n \in Node : Present(n)' => Present(n)
            \/ pc \in Preparation /\ (Goes(Preparation) \/ Quits("err"))
<1> USE DEF Preparation
<1>1. CASE Initialize
  BY <1>1, BeginEffect DEF Initialize, Housed, Kept
<1>2. CASE PreClean
  <2>1. PICK n \in Node : \E st \in AfterRemoval(n) : SetStatus(n, st)
    BY <1>2 DEF PreClean
  <2>2. pc = "init.clean" /\ Quiet /\ UNCHANGED vol /\ Goes({"init.clean"})
    BY <1>2 DEF PreClean, Quiet, Goes
  <2>3. \A m \in Node : Present(m)' => Present(m)
    BY <2>1, SetStatusPresent, StillPresent, NodesAreNames
  <2> QED
    BY <2>2, <2>3 DEF Housed, Goes
<1>3. CASE PreCleanDone
  <2>1. UNCHANGED <<vol, status>>
    BY <1>3 DEF PreCleanDone, LoopDone, runtimeVars
  <2> QED
    BY <1>3, <2>1, LoopEffect DEF PreCleanDone, Goes, Housed, Kept, Present
<1>4. CASE InitPull \/ InitCreateDone
  BY <1>4, LoopEffect DEF InitPull, InitCreateDone, Housed, Kept, Goes
<1>5. CASE InitCreate
  BY <1>5, CreateEffect DEF InitCreate, Goes
<1>6. CASE InitStart
  BY <1>6, StartBoxEffect, NodesAreNames DEF InitStart, Housed, Kept, Goes
<1>7. CASE InitHome
  <2>1. pc = "init.home" /\ UNCHANGED status /\ Quiet /\ (Goes({pc}) \/ Quits("err"))
    BY <1>7 DEF InitHome, Quiet, Goes, Quits, Return, chainVars
  <2>2. \A n \in Node : vol[n] # "absent" => vol'[n] # "absent"
    BY <1>7 DEF InitHome, TypeOK
  <2> QED
    BY <2>1, <2>2 DEF Housed, Present, Goes
<1> QED
  BY <1>1, <1>2, <1>3, <1>4, <1>5, <1>6, <1>7 DEF InitSteps

LEMMA OtherEffect ==
  ASSUME TypeOK, HandlesSound, StepFails \/ Pause \/ BinaryDies
  PROVE  /\ Quiet /\ Kept
         /\ \/ pc \in {"init.net", "init.pull", "start.genesis", "up.pull"} /\ Quits("err")
            \/ UNCHANGED callVars
<1>1. CASE StepFails
  BY <1>1, StatusKept DEF StepFails, FailAt, Quiet, Quits, Return, runtimeVars, chainVars
<1>2. CASE Pause
  <2>1. PICK n \in Node, to \in {"paused", "running"} :
          /\ status[n] \in {"paused", "running"}
          /\ status' = [status EXCEPT ![n] = to]
    BY <1>2 DEF Pause, PauseNode
  <2>2. Quiet /\ UNCHANGED vol /\ UNCHANGED callVars
    BY <1>2 DEF Pause, PauseNode, Quiet, chainVars
  <2>3. Kept
    BY <2>1, <2>2, NodesAreNames DEF Kept, Present, TypeOK
  <2> QED
    BY <2>2, <2>3
<1>3. CASE BinaryDies
  BY <1>3, StatusKept DEF BinaryDies, Quiet, chainVars
<1> QED
  BY <1>1, <1>2, <1>3

-----------------------------------------------------------------------------
(* What a caller sees between two calls, and what a call in progress has   *)
(* done to it so far.                                                      *)

Box == \E n \in Node : Present(n)
Vol == \E n \in Node : vol[n] # "absent"

Fields == /\ initialized <=> known.inited
          /\ netHeld <=> known.net
          /\ copies = known.nodes
          /\ net <=> netKnown

AsKnown == Fields /\ (Box <=> known.box) /\ (Vol <=> known.volume)

\* The calls and steps before which nothing of this has changed.
Resting == {"idle", "halt", "up.pull"} \cup StartCall \cup SideCall

\* initialize has removed some of the containers, or pushed its structs; stop
\* removes only what its structs name; an upgrade gives up no home.
Seen ==
  /\ known \in ChainKind /\ netKnown \in BOOLEAN
  /\ Housed
  /\ pc \in Resting => AsKnown
  /\ pc \in StartCall => initialized
  /\ pc \in {"init.clean", "init.net"} =>
       Fields /\ ~initialized /\ (Box => known.box) /\ (Vol <=> known.volume)
  /\ pc \in Preparation =>
       /\ ~initialized /\ ~known.inited /\ netHeld /\ net
       /\ copies = known.nodes + 1
  /\ pc \in StopCall =>
       /\ Fields /\ (Box => known.box) /\ (Vol => known.volume)
       /\ copies = 0 => AsKnown
       /\ pc \in {"stop.node", "stop.vol"} => todo \subseteq Slots(Node, copies)
  /\ pc \in UpCall => Fields /\ (known.volume => Vol)

LEMMA KeptSeen ==
  ASSUME Kept
  PROVE  (Box' <=> Box) /\ (Vol' <=> Vol) /\ (Housed => Housed')
  BY DEF Kept, Box, Vol, Housed

LEMMA QuietSeen ==
  ASSUME Quiet, UNCHANGED <<known, netKnown>>
  PROVE  Fields' <=> Fields
  BY DEF Quiet, Fields

\* A call returned: the chain is known anew.
LEMMA Remembered ==
  ASSUME TypeOK', pc' = "idle", Remembers
  PROVE  /\ known' \in ChainKind /\ netKnown' \in BOOLEAN
         /\ AsKnown'
         /\ known'.up <=> \/ pc \in StartCall /\ ret' = "ok"
                          \/ known.up /\ ~Ends(StopCall) /\ ~Crash
<1>1. PICK up \in BOOLEAN :
        /\ up = (\/ pc \in StartCall /\ ret' = "ok"
                 \/ known.up /\ ~Ends(StopCall) /\ ~Crash)
        /\ known' = Look(up)'
  BY DEF Remembers
<1>2. copies' \in Nat
  BY ConstAssumption DEF TypeOK
<1>3. known' = [inited |-> initialized', net |-> netHeld', nodes |-> copies',
                box |-> Box', volume |-> Vol', up |-> up]
  BY <1>1 DEF Look, Box, Vol
<1>4. initialized' \in BOOLEAN /\ netHeld' \in BOOLEAN /\ Box' \in BOOLEAN /\ Vol' \in BOOLEAN
  BY DEF TypeOK, Box, Vol
<1>5. known' \in ChainKind
  BY <1>2, <1>3, <1>4 DEF ChainKind
<1>6. /\ known'.inited = initialized' /\ known'.net = netHeld' /\ known'.nodes = copies'
      /\ known'.box = Box' /\ known'.volume = Vol' /\ known'.up = up
  BY <1>3
<1>7. netKnown' = net' /\ net' \in BOOLEAN
  BY DEF Remembers, TypeOK
<1> QED
  BY <1>1, <1>5, <1>6, <1>7 DEF AsKnown, Fields

LEMMA Steps ==
  /\ "idle" \notin InitCall \cup StartCall \cup StopCall \cup SideCall \cup UpCall \cup Preparation
  /\ Preparation \subseteq InitCall
  /\ InitCall = {"init.clean", "init.net"} \cup Preparation
  /\ OtherCall = SideCall \cup UpCall \cup {"halt", "up.pull"}
  BY DEF InitCall, StartCall, StopCall, SideCall, UpCall, Preparation, OtherCall, Step

LEMMA IdleSeen ==
  ASSUME TypeOK', Housed', pc' = "idle", Remembers
  PROVE  Seen'
<1>1. known' \in ChainKind /\ netKnown' \in BOOLEAN /\ AsKnown'
  BY Remembered
<1>2. pc' \notin StartCall /\ pc' \notin Preparation /\ pc' \notin StopCall /\ pc' \notin UpCall
  BY Steps
<1> QED
  BY <1>1, <1>2 DEF Seen

\* Until a call returns its caller sees nothing.
LEMMA Unseen ==
  ASSUME pc' # "idle", Remembers
  PROVE  UNCHANGED <<known, netKnown>>
  BY DEF Remembers

\* A call that begins, and a step of it that changes nothing.
LEMMA RestSeen ==
  ASSUME Seen, Quiet, Kept, Remembers, pc \in Resting, pc' \in Resting, pc' # "idle",
         pc' \in StartCall => initialized
  PROVE  Seen'
<1>1. UNCHANGED <<known, netKnown>>
  BY Unseen
<1>2. AsKnown' /\ Housed'
  BY <1>1, KeptSeen, QuietSeen DEF Seen, AsKnown
<1>3. pc' \notin {"init.clean", "init.net"} \cup Preparation \cup StopCall \cup UpCall
  BY DEF Resting, StartCall, SideCall, Preparation, StopCall, UpCall
<1>4. pc' \in StartCall => initialized'
  BY DEF Quiet
<1> QED
  BY <1>1, <1>2, <1>3, <1>4 DEF Seen

LEMMA StartSeen ==
  ASSUME TypeOK, TypeOK', HandlesSound, Seen, Remembers, StartSteps \/ SidecarSteps
  PROVE  Seen'
<1>1. Quiet /\ Kept /\ pc \in Resting
  BY StartEffect, SidecarEffect DEF Resting, StartCall
<1>2. CASE pc' = "idle"
  BY <1>1, <1>2, IdleSeen, KeptSeen DEF Seen
<1>3. CASE pc' # "idle"
  <2>1. pc' \in Resting
    BY <1>3, StartEffect, SidecarEffect DEF Resting, Goes, Quits
  <2>2. pc' \in StartCall => initialized
    <3>1. SidecarSteps => pc' \notin StartCall
      BY <1>3, SidecarEffect DEF SideCall, StartCall, Goes, Quits
    <3> QED
      BY <1>3, <3>1, StartEffect DEF Seen, Goes, Quits
  <2> QED
    BY <1>1, <1>3, <2>1, <2>2, RestSeen
<1> QED
  BY <1>2, <1>3

LEMMA StopSeen ==
  ASSUME TypeOK, TypeOK', Seen, Remembers, StopSteps
  PROVE  Seen'
<1>1. CASE StopNetwork
  <2>1. Housed'
    BY <1>1 DEF StopNetwork, Seen, Housed, Present
  <2> QED
    BY <1>1, <2>1, IdleSeen DEF StopNetwork
<1>2. CASE ~StopNetwork
  <2>1. /\ Quiet /\ Housed'
        /\ \/ Kept
           \/ Fewer /\ pc \in {"stop.node", "stop.vol"} /\ \E s \in todo : s[1] \in Node
        /\ \/ pc = "idle" /\ pc' = "stop.side" /\ ret' = "none"
           \/ pc \in StopCall /\ Goes(StopCall)
        /\ \/ pc' = "stop.side"
           \/ pc' = pc /\ todo' \subseteq todo
           \/ todo' \subseteq Slots(Node, copies)
    BY <1>2, StopEffect DEF Seen
  <2>2. pc' \in StopCall /\ pc' # "idle"
    BY <2>1, Steps DEF Goes, StopCall
  <2>3. UNCHANGED <<known, netKnown>>
    BY <2>2, Unseen
  <2>4. /\ Fields /\ (Box => known.box) /\ (Vol => known.volume)
        /\ copies = 0 => AsKnown
    BY <2>1 DEF Seen, Resting, AsKnown
  <2>5. Fields'
    BY <2>1, <2>3, <2>4, QuietSeen
  <2>6. (Box' => Box) /\ (Vol' => Vol)
    BY <2>1, KeptSeen DEF Fewer, Box, Vol
  <2>7. copies = 0 => Kept
    <3>1. pc \in {"stop.node", "stop.vol"} => todo \subseteq Slots(Node, copies)
      BY <2>1 DEF Seen, StopCall
    <3>2. copies = 0 => Slots(Node, copies) = {}
      BY DEF Slots
    <3> QED
      BY <2>1, <3>1, <3>2
  <2>8. (copies = 0)' => AsKnown'
    <3>1. copies' = copies
      BY <2>1 DEF Quiet
    <3> QED
      BY <2>3, <2>4, <2>5, <2>7, <3>1, KeptSeen DEF AsKnown
  <2>9. pc' \in {"stop.node", "stop.vol"} => todo' \subseteq Slots(Node, copies')
    BY <2>1, <2>2 DEF Seen, Quiet, StopCall
  <2>10. pc' \notin Resting /\ pc' \notin {"init.clean", "init.net"} \cup Preparation \cup UpCall
         /\ pc' \notin StartCall
    BY <2>2 DEF Resting, StartCall, SideCall, Preparation, StopCall, UpCall
  <2> QED
    BY <2>1, <2>3, <2>4, <2>5, <2>6, <2>8, <2>9, <2>10 DEF Seen
<1> QED
  BY <1>1, <1>2

LEMMA UpgradeSeen ==
  ASSUME TypeOK, TypeOK', HandlesSound, Seen, Remembers, UpgradeSteps
  PROVE  Seen'
<1>1. /\ Quiet /\ Housed'
      /\ \/ Kept
         \/ pc \in UpCall /\ \A n \in Node : vol[n] # "absent" => vol'[n] # "absent"
      /\ \/ pc = "idle" /\ pc' \in {"halt", "up.pull"} /\ ret' = "none"
         \/ pc = "idle" /\ pc' = "idle"
         \/ pc = "up.pull" /\ Goes(UpCall)
         \/ pc = "halt" /\ Goes({"halt"})
         \/ pc \in UpCall /\ Goes(UpCall)
         \/ pc \in UpCall \cup {"halt"} /\ \E r \in {"ok", "err"} : Quits(r)
  BY UpgradeEffect DEF Seen
<1>2. CASE pc' = "idle"
  BY <1>1, <1>2, IdleSeen
<1>3. CASE pc' \in {"halt", "up.pull"}
  <2>1. pc \in {"idle", "halt"} /\ Kept
    BY <1>1, <1>3 DEF Goes, Quits, UpCall
  <2>2. pc \in Resting /\ pc' \in Resting /\ pc' # "idle" /\ pc' \notin StartCall
    BY <1>3, <2>1 DEF Resting, StartCall
  <2> QED
    BY <1>1, <2>1, <2>2, RestSeen
<1>4. CASE pc' \in UpCall
  <2>1. pc' # "idle" /\ (pc = "up.pull" \/ pc \in UpCall)
    BY <1>1, <1>4 DEF Goes, Quits, UpCall
  <2>2. UNCHANGED <<known, netKnown>>
    BY <2>1, Unseen
  <2>3. Fields /\ (known.volume => Vol)
    BY <2>1 DEF Seen, Resting, AsKnown
  <2>4. Vol => Vol'
    BY <1>1, KeptSeen DEF Vol
  <2>5. pc' \notin Resting \cup {"init.clean", "init.net"} \cup Preparation \cup StopCall \cup StartCall
    BY <1>4 DEF Resting, StartCall, SideCall, Preparation, StopCall, UpCall
  <2> QED
    BY <1>1, <2>2, <2>3, <2>4, <2>5, QuietSeen DEF Seen
<1> QED
  BY <1>1, <1>2, <1>3, <1>4 DEF Goes, Quits

LEMMA InitSeen ==
  ASSUME TypeOK, TypeOK', HandlesSound, Preparing, Seen, Remembers, InitSteps
  PROVE  Seen'
<1>1. CASE InitDone
  BY <1>1, IdleSeen DEF InitDone, Return, Seen, Housed, Present, runtimeVars
<1>2. CASE CreateNetwork
  <2>1. /\ pc = "init.net" /\ pc' = "init.pull" /\ netHeld' /\ net' /\ copies' = copies + 1
        /\ UNCHANGED <<status, vol, initialized>>
    BY <1>2 DEF CreateNetwork, Goto
  <2>2. UNCHANGED <<known, netKnown>>
    BY <2>1, Unseen
  <2>3. ~initialized /\ ~known.inited /\ copies = known.nodes
    BY <2>1 DEF Seen, Fields
  <2>4. pc' \notin Resting \cup {"init.clean", "init.net"} \cup UpCall \cup StopCall \cup StartCall
    BY <2>1 DEF Resting, StartCall, SideCall, Preparation, StopCall, UpCall
  <2>5. Housed'
    BY <2>1 DEF Seen, Housed, Present
  <2> QED
    BY <2>1, <2>2, <2>3, <2>4, <2>5 DEF Seen
<1>3. CASE ~InitDone /\ ~CreateNetwork
  <2>1. /\ Quiet /\ Housed'
        /\ \/ pc = "idle" /\ pc' = "init.clean" /\ ret' = "none" /\ Kept /\ ~initialized
           \/ /\ pc = "init.clean" /\ Goes({"init.clean", "init.net"})
              /\ UNCHANGED vol /\ \A n \in Node : Present(n)' => Present(n)
           \/ pc \in Preparation /\ (Goes(Preparation) \/ Quits("err"))
    BY <1>3, InitEffect DEF Seen
  <2>2. CASE pc' = "idle"
    BY <2>1, <2>2, IdleSeen
  <2>3. CASE pc' \in {"init.clean", "init.net"}
    <3>1. /\ pc' # "idle"
          /\ \/ pc = "idle" /\ Kept /\ ~initialized
             \/ /\ pc = "init.clean"
                /\ UNCHANGED vol /\ \A n \in Node : Present(n)' => Present(n)
      BY <2>1, <2>3 DEF Goes, Quits, Preparation
    <3>2. UNCHANGED <<known, netKnown>>
      BY <3>1, Unseen
    <3>3. Fields /\ ~initialized /\ (Box => known.box) /\ (Vol <=> known.volume)
      BY <3>1 DEF Seen, Resting, AsKnown
    <3>4. (Box' => Box) /\ (Vol' <=> Vol)
      BY <3>1, KeptSeen DEF Box, Vol
    <3>5. pc' \notin Resting \cup Preparation \cup UpCall \cup StopCall \cup StartCall
      BY <2>3 DEF Resting, StartCall, SideCall, Preparation, StopCall, UpCall
    <3>6. Fields' /\ ~initialized'
      BY <2>1, <3>2, <3>3, QuietSeen DEF Quiet
    <3> QED
      BY <2>1, <3>2, <3>3, <3>4, <3>5, <3>6 DEF Seen
  <2>4. CASE pc' \in Preparation
    <3>1. pc' # "idle" /\ pc \in Preparation
      BY <2>1, <2>4 DEF Goes, Quits, Preparation
    <3>2. UNCHANGED <<known, netKnown>>
      BY <3>1, Unseen
    <3>3. pc' \notin Resting \cup {"init.clean", "init.net"} \cup UpCall \cup StopCall \cup StartCall
      BY <2>4 DEF Resting, StartCall, SideCall, Preparation, StopCall, UpCall
    <3> QED
      BY <2>1, <3>1, <3>2, <3>3 DEF Seen, Quiet
  <2> QED
    BY <2>1, <2>2, <2>3, <2>4 DEF Goes, Quits
<1> QED
  BY <1>1, <1>2, <1>3

LEMMA OtherSeen ==
  ASSUME TypeOK, TypeOK', HandlesSound, Seen, Remembers,
         StepFails \/ Pause \/ BinaryDies \/ Crash
  PROVE  Seen'
<1>1. CASE Crash
  <2>1. Housed'
    <3>1. \A n \in Node : vol'[n] = "absent" <=> vol[n] = "absent"
      BY <1>1 DEF Crash, TypeOK
    <3> QED
      BY <1>1, <3>1 DEF Crash, Housed, Present, Seen
  <2> QED
    BY <1>1, <2>1, IdleSeen DEF Crash
<1>2. CASE StepFails \/ Pause \/ BinaryDies
  <2>1. /\ Quiet /\ Kept
        /\ \/ pc \in {"init.net", "init.pull", "start.genesis", "up.pull"} /\ Quits("err")
           \/ UNCHANGED callVars
    BY <1>2, OtherEffect
  <2>2. CASE pc' = "idle"
    BY <2>1, <2>2, IdleSeen, KeptSeen DEF Seen
  <2>3. CASE pc' # "idle"
    <3>1. pc' = pc /\ todo' = todo
      BY <2>1, <2>3 DEF Quits, callVars
    <3>2. UNCHANGED <<known, netKnown>>
      BY <2>3, Unseen
    <3>3. (Box' <=> Box) /\ (Vol' <=> Vol) /\ (Housed => Housed') /\ (Fields' <=> Fields)
      BY <2>1, <3>2, KeptSeen, QuietSeen
    <3> QED
      BY <2>1, <3>1, <3>2, <3>3 DEF Seen, Quiet, AsKnown
  <2> QED
    BY <2>2, <2>3
<1> QED
  BY <1>1, <1>2


LEMMA SeenKept ==
  ASSUME TypeOK, TypeOK', HandlesSound, CallsInv, Seen,
         [CallsNext]_callsVars
  PROVE  Seen'
<1>1. CASE CallsNext
  BY <1>1, InitSeen, StartSeen, StopSeen, UpgradeSeen, OtherSeen DEF CallsNext, Next, CallsInv
<1>2. CASE UNCHANGED callsVars
  BY <1>2 DEF callsVars, vars, runtimeVars, chainVars, callVars, Seen, Housed, Present,
     AsKnown, Fields, Box, Vol
<1> QED
  BY <1>1, <1>2

-----------------------------------------------------------------------------
(* Each end of a call is one of the outcomes that ChainCalls lists.        *)

\* Two views of a chain with the same fields are the same.
LEMMA SameChain ==
  ASSUME NEW a \in ChainKind, NEW b \in ChainKind,
         a.inited = b.inited, a.net = b.net, a.nodes = b.nodes,
         a.box = b.box, a.volume = b.volume, a.up = b.up
  PROVE  a = b
  BY DEF ChainKind

LEMMA WithFields ==
  ASSUME NEW k \in ChainKind, NEW w \in Remains
  PROVE  /\ With(k, w) \in ChainKind
         /\ With(k, w).box = w.box /\ With(k, w).volume = w.volume
         /\ With(k, w).inited = k.inited /\ With(k, w).net = k.net
         /\ With(k, w).nodes = k.nodes /\ With(k, w).up = k.up
<1>1. w.box \in BOOLEAN /\ w.volume \in BOOLEAN
  BY DEF Remains
<1>2. With(k, w) \in ChainKind
  BY <1>1 DEF With, ChainKind
<1>3. /\ With(k, w).box = w.box /\ With(k, w).volume = w.volume
      /\ With(k, w).inited = k.inited /\ With(k, w).net = k.net
      /\ With(k, w).nodes = k.nodes /\ With(k, w).up = k.up
  BY DEF With, ChainKind
<1> QED BY <1>2, <1>3

\* What remains of a chain.
LEMMA RemainsOf ==
  ASSUME NEW c \in ChainKind, c.box => c.volume
  PROVE  \E w \in Remains : w = [box |-> c.box, volume |-> c.volume]
                            /\ w.box = c.box /\ w.volume = c.volume
<1> DEFINE w == [box |-> c.box, volume |-> c.volume]
<1>1. c.box \in BOOLEAN /\ c.volume \in BOOLEAN
  BY DEF ChainKind
<1>2. w.box = c.box /\ w.volume = c.volume
  OBVIOUS
<1>3. w \in [box : BOOLEAN, volume : BOOLEAN] /\ (w.box => w.volume)
  BY <1>1
<1>4. w \in Remains
  BY <1>3, Zenon DEF Remains
<1> QED
  BY <1>2, <1>4, Zenon

\* What an initialize may come to: a failure before its network is there, ...
LEMMA InitEarly ==
  ASSUME NEW k \in ChainKind, NEW c \in ChainKind, NEW n \in BOOLEAN,
         ~k.inited, c.inited = k.inited, c.net = k.net, c.nodes = k.nodes,
         c.volume = k.volume, c.up = k.up, c.box => k.box
  PROVE  Outcome(c, n, FALSE) \in InitOutcomes(k, n)
<1>1. c.box \in {k.box, FALSE}
  BY DEF ChainKind
<1>2. c = [k EXCEPT !.box = c.box]
  <2>1. c.box \in BOOLEAN
    BY DEF ChainKind
  <2>2. [k EXCEPT !.box = c.box] \in ChainKind
    BY <2>1 DEF ChainKind
  <2>3. /\ [k EXCEPT !.box = c.box].inited = k.inited /\ [k EXCEPT !.box = c.box].net = k.net
        /\ [k EXCEPT !.box = c.box].nodes = k.nodes /\ [k EXCEPT !.box = c.box].box = c.box
        /\ [k EXCEPT !.box = c.box].volume = k.volume /\ [k EXCEPT !.box = c.box].up = k.up
    BY <2>1 DEF ChainKind
  <2> QED
    BY <2>2, <2>3, SameChain
<1> QED
  BY <1>1, <1>2, Zenon DEF InitOutcomes

\* ... a failure afterwards, ...
LEMMA Begun ==
  ASSUME NEW k \in ChainKind
  PROVE  \E b \in ChainKind :
           /\ b = [k EXCEPT !.net = TRUE, !.nodes = @ + 1]
           /\ b.inited = k.inited /\ b.net = TRUE /\ b.nodes = k.nodes + 1 /\ b.up = k.up
<1>1. k.nodes + 1 \in Nat
  BY DEF ChainKind
<1>2. \A m \in Nat :
        /\ [k EXCEPT !.net = TRUE, !.nodes = m] \in ChainKind
        /\ [k EXCEPT !.net = TRUE, !.nodes = m].nodes = m
        /\ [k EXCEPT !.net = TRUE, !.nodes = m].net = TRUE
  BY DEF ChainKind
<1>3. \A m \in Nat :
        /\ [k EXCEPT !.net = TRUE, !.nodes = m].inited = k.inited
        /\ [k EXCEPT !.net = TRUE, !.nodes = m].up = k.up
  BY DEF ChainKind
<1> QED
  BY <1>1, <1>2, <1>3, Zenon

LEMMA InitLate ==
  ASSUME NEW k \in ChainKind, NEW c \in ChainKind, NEW n \in BOOLEAN,
         ~k.inited, c.inited = k.inited, c.net = TRUE, c.nodes = k.nodes + 1,
         c.up = k.up, c.box => c.volume
  PROVE  Outcome(c, TRUE, FALSE) \in InitOutcomes(k, n)
<1>1. PICK b \in ChainKind :
        /\ b = [k EXCEPT !.net = TRUE, !.nodes = @ + 1]
        /\ b.inited = k.inited /\ b.net = TRUE /\ b.nodes = k.nodes + 1 /\ b.up = k.up
  BY Begun
<1>2. PICK w \in Remains : w.box = c.box /\ w.volume = c.volume
  BY RemainsOf
<1>3. PICK d \in ChainKind : d = With(b, w)
        /\ d.box = w.box /\ d.volume = w.volume
        /\ d.inited = b.inited /\ d.net = b.net /\ d.nodes = b.nodes /\ d.up = b.up
  BY WithFields
<1>4. c = d
  <2>1. c.inited = d.inited /\ c.net = d.net /\ c.nodes = d.nodes /\ c.up = d.up
    BY <1>1, <1>3
  <2>2. c.box = d.box /\ c.volume = d.volume
    BY <1>2, <1>3
  <2> QED
    BY <2>1, <2>2, SameChain
<1> QED
  BY <1>1, <1>3, <1>4, Zenon DEF InitOutcomes

\* ... or the whole chain.
LEMMA InitWhole ==
  ASSUME NEW k \in ChainKind, NEW c \in ChainKind, NEW n \in BOOLEAN,
         ~k.inited, k.nodes = 0, c.inited = TRUE, c.net = TRUE, c.nodes = k.nodes + 1,
         c.up = k.up, c.box = TRUE, c.volume = TRUE
  PROVE  Outcome(c, TRUE, TRUE) \in InitOutcomes(k, n)
<1>1. PICK b \in ChainKind :
        /\ b = [k EXCEPT !.net = TRUE, !.nodes = @ + 1]
        /\ b.inited = k.inited /\ b.net = TRUE /\ b.nodes = k.nodes + 1 /\ b.up = k.up
  BY Begun
<1>2. PICK w \in Remains : w = [box |-> TRUE, volume |-> TRUE] /\ w.box = c.box /\ w.volume = c.volume
  BY RemainsOf
<1>3. PICK d \in ChainKind : d = With(b, w)
        /\ d.box = w.box /\ d.volume = w.volume
        /\ d.inited = b.inited /\ d.net = b.net /\ d.nodes = b.nodes /\ d.up = b.up
  BY WithFields
<1> DEFINE e == [d EXCEPT !.inited = TRUE]
<1>4. e \in ChainKind
  BY DEF ChainKind
<1>5. /\ e.inited = TRUE /\ e.net = d.net /\ e.nodes = d.nodes
      /\ e.box = d.box /\ e.volume = d.volume /\ e.up = d.up
  BY DEF ChainKind
<1>6. c = e
  <2> HIDE DEF e
  <2>1. c.inited = e.inited /\ c.net = e.net /\ c.nodes = e.nodes /\ c.up = e.up
    BY <1>1, <1>3, <1>5
  <2>2. c.box = e.box /\ c.volume = e.volume
    BY <1>2, <1>3, <1>5
  <2> QED
    BY <1>4, <2>1, <2>2, SameChain
<1>7. Outcome(e, TRUE, TRUE) \in InitOutcomes(k, n)
  <2>1. With(b, [box |-> TRUE, volume |-> TRUE]) = d
    BY <1>2, <1>3
  <2>2. ~(k.nodes > 0)
    OBVIOUS
  <2> QED
    BY <1>1, <2>1, <2>2, Zenon DEF InitOutcomes
<1> QED
  BY <1>6, <1>7, Zenon

LEMMA StartWell ==
  ASSUME NEW k \in ChainKind, NEW c \in ChainKind, NEW n \in BOOLEAN,
         k.inited, k.box, c.inited = k.inited, c.net = k.net, c.nodes = k.nodes,
         c.volume = k.volume, c.up = TRUE, c.box = k.box
  PROVE  Outcome(c, n, TRUE) \in StartOutcomes(k, n)
<1>1. [k EXCEPT !.up = TRUE] \in ChainKind
  BY DEF ChainKind
<1>2. /\ [k EXCEPT !.up = TRUE].inited = k.inited /\ [k EXCEPT !.up = TRUE].net = k.net
      /\ [k EXCEPT !.up = TRUE].nodes = k.nodes /\ [k EXCEPT !.up = TRUE].box = k.box
      /\ [k EXCEPT !.up = TRUE].volume = k.volume /\ [k EXCEPT !.up = TRUE].up = TRUE
  BY DEF ChainKind
<1>3. c = [k EXCEPT !.up = TRUE]
  BY <1>1, <1>2, SameChain
<1> QED
  BY <1>3, Zenon DEF StartOutcomes

\* What a stop leaves of a chain, its network aside.
LEMMA IsLeft ==
  ASSUME NEW k \in ChainKind, NEW c \in ChainKind,
         c.box => k.box, c.volume => k.volume, c.box => c.volume,
         k.nodes = 0 => c.box = k.box /\ c.volume = k.volume
  PROVE  \E w \in Left(k) : w \in Remains /\ w.box = c.box /\ w.volume = c.volume
<1>1. PICK w \in Remains : w = [box |-> c.box, volume |-> c.volume]
                           /\ w.box = c.box /\ w.volume = c.volume
  BY RemainsOf
<1>2. w \in Left(k)
  BY <1>1 DEF Left
<1> QED
  BY <1>1, <1>2

LEMMA StopEnded ==
  ASSUME NEW k \in ChainKind, NEW c \in ChainKind, NEW n \in BOOLEAN, NEW m \in BOOLEAN,
         c.box => k.box, c.volume => k.volume, c.box => c.volume,
         k.nodes = 0 => c.box = k.box /\ c.volume = k.volume,
         c.inited = k.inited, c.nodes = k.nodes, c.net = FALSE, c.up = FALSE,
         m = n \/ (k.net /\ m = FALSE)
  PROVE  Outcome(c, m, TRUE) \in StopOutcomes(k, n)
<1>1. PICK w \in Left(k) : w \in Remains /\ w.box = c.box /\ w.volume = c.volume
  BY IsLeft
<1>2. PICK d \in ChainKind : d = With(k, w)
        /\ d.box = w.box /\ d.volume = w.volume
        /\ d.inited = k.inited /\ d.net = k.net /\ d.nodes = k.nodes /\ d.up = k.up
  BY <1>1, WithFields
<1> DEFINE e == [d EXCEPT !.net = FALSE, !.up = FALSE]
<1>3. e \in ChainKind
  BY DEF ChainKind
<1>4. /\ e.inited = d.inited /\ e.net = FALSE /\ e.nodes = d.nodes
      /\ e.box = d.box /\ e.volume = d.volume /\ e.up = FALSE
  BY DEF ChainKind
<1>5. c = e
  <2> HIDE DEF e
  <2>1. c.inited = e.inited /\ c.net = e.net /\ c.nodes = e.nodes /\ c.up = e.up
    BY <1>2, <1>4
  <2>2. c.box = e.box /\ c.volume = e.volume
    BY <1>1, <1>2, <1>4
  <2> QED
    BY <1>3, <2>1, <2>2, SameChain
<1>6. c = [With(k, w) EXCEPT !.net = FALSE, !.up = FALSE]
  BY <1>2, <1>5
<1> QED
  BY <1>1, <1>6, Zenon DEF StopOutcomes

-----------------------------------------------------------------------------
(* The ends of calls.                                                      *)

\* Steps that begin a call, or belong to one that is not in progress, end none.
LEMMA InitEnds ==
  ASSUME TypeOK, HandlesSound, Housed, Underway, Next, Ends(InitCall)
  PROVE  /\ pc' = "idle" /\ Housed'
         /\ \/ InitDone
            \/ Quiet /\ ret' = "err" /\ (pc \in Preparation \/ (pc = "init.net" /\ Kept))
<1>1. pc # "idle" /\ ret = "none" /\ ret' # "none" /\ pc \in {"init.clean", "init.net"} \cup Preparation
  BY Steps DEF Ends, Underway
<1>2. CASE InitSteps
  BY <1>1, <1>2, InitEffect DEF Goes, Quits, CreateNetwork, Goto, InitDone, Return,
     Housed, Present, runtimeVars
<1>3. CASE StepFails \/ Pause \/ BinaryDies
  BY <1>1, <1>3, OtherEffect, KeptSeen DEF Quits, callVars, Preparation
<1>4. ~SidecarSteps /\ ~StartSteps
  BY <1>1, SidecarEffect, StartEffect DEF Preparation, SideCall, StartCall
<1>5. ~StopSteps
  BY <1>1, StopEffect DEF Preparation, StopCall, StopNetwork
<1>6. ~UpgradeSteps
  BY <1>1, UpgradeEffect DEF Preparation, UpCall
<1>7. ~Crash
  BY <1>1 DEF Crash
<1> QED
  BY <1>2, <1>3, <1>4, <1>5, <1>6, <1>7 DEF Next

LEMMA StartEnds ==
  ASSUME TypeOK, HandlesSound, Housed, Underway, Next, Ends(StartCall)
  PROVE  pc' = "idle" /\ Quiet /\ Kept /\ (ret' = "err" \/ (pc = "start.post" /\ ret' = "ok"))
<1>1. pc # "idle" /\ ret = "none" /\ ret' # "none" /\ pc \in StartCall
  BY Steps DEF Ends, Underway
<1>2. CASE StartSteps
  BY <1>1, <1>2, StartEffect DEF Goes, Quits
<1>3. CASE StepFails \/ Pause \/ BinaryDies
  BY <1>1, <1>3, OtherEffect DEF Quits, callVars
<1>4. ~InitSteps /\ ~SidecarSteps
  BY <1>1, InitEffect, SidecarEffect
  DEF Preparation, SideCall, StartCall, CreateNetwork, InitDone
<1>5. ~StopSteps
  BY <1>1, StopEffect DEF StartCall, StopCall, StopNetwork
<1>6. ~UpgradeSteps
  BY <1>1, UpgradeEffect DEF StartCall, UpCall
<1>7. ~Crash
  BY <1>1 DEF Crash
<1> QED
  BY <1>2, <1>3, <1>4, <1>5, <1>6, <1>7 DEF Next

LEMMA StopEnds ==
  ASSUME TypeOK, HandlesSound, Housed, Underway, Next, Ends(StopCall)
  PROVE  StopNetwork
<1>1. pc # "idle" /\ ret = "none" /\ ret' # "none" /\ pc \in StopCall
  BY Steps DEF Ends, Underway
<1>2. CASE StopSteps
  BY <1>1, <1>2, StopEffect DEF Goes
<1>3. ~StepFails /\ ~Pause /\ ~BinaryDies
  BY <1>1, OtherEffect DEF StopCall, callVars
<1>4. ~InitSteps /\ ~SidecarSteps /\ ~StartSteps
  BY <1>1, InitEffect, SidecarEffect, StartEffect
  DEF Preparation, SideCall, StartCall, StopCall, CreateNetwork, InitDone
<1>5. ~UpgradeSteps
  BY <1>1, UpgradeEffect DEF StopCall, UpCall
<1>6. ~Crash
  BY <1>1 DEF Crash
<1> QED
  BY <1>2, <1>3, <1>4, <1>5, <1>6 DEF Next

LEMMA OtherEnds ==
  ASSUME TypeOK, HandlesSound, Housed, Underway, Next, Ends(OtherCall)
  PROVE  /\ pc' = "idle" /\ Quiet /\ Housed'
         /\ Kept \/ (pc \in UpCall /\ \A n \in Node : vol[n] # "absent" => vol'[n] # "absent")
<1>1. pc # "idle" /\ ret = "none" /\ ret' # "none" /\ pc \in SideCall \cup UpCall \cup {"halt", "up.pull"}
  BY Steps DEF Ends, Underway
<1>2. CASE SidecarSteps
  BY <1>1, <1>2, SidecarEffect, KeptSeen DEF Goes, Quits
<1>3. CASE UpgradeSteps
  BY <1>1, <1>3, UpgradeEffect DEF Goes, Quits
<1>4. CASE StepFails \/ Pause \/ BinaryDies
  BY <1>1, <1>4, OtherEffect, KeptSeen DEF Quits, callVars
<1>5. ~InitSteps /\ ~StartSteps
  BY <1>1, InitEffect, StartEffect
  DEF Preparation, SideCall, StartCall, UpCall, CreateNetwork, InitDone
<1>6. ~StopSteps
  BY <1>1, StopEffect DEF SideCall, UpCall, StopCall, StopNetwork
<1>7. ~Crash
  BY <1>1 DEF Crash
<1> QED
  BY <1>2, <1>3, <1>4, <1>5, <1>6, <1>7 DEF Next

\* The chain as the caller knows it once the call has returned.
LEMMA Known ==
  ASSUME TypeOK', pc' = "idle", Remembers, Housed'
  PROVE  \E c \in ChainKind, m \in BOOLEAN :
           /\ c = known' /\ m = netKnown'
           /\ c.inited = initialized' /\ c.net = netHeld' /\ c.nodes = copies'
           /\ c.box = Box' /\ c.volume = Vol' /\ (c.box => c.volume)
           /\ m = net'
           /\ c.up <=> \/ pc \in StartCall /\ ret' = "ok"
                       \/ known.up /\ ~Ends(StopCall) /\ ~Crash
<1>1. PICK c : c = known'
  OBVIOUS
<1>2. PICK m : m = netKnown'
  OBVIOUS
<1>3. /\ c \in ChainKind /\ m \in BOOLEAN
      /\ c.up <=> \/ pc \in StartCall /\ ret' = "ok"
                  \/ known.up /\ ~Ends(StopCall) /\ ~Crash
  BY <1>1, <1>2, Remembered
<1>4. /\ initialized' <=> c.inited
      /\ netHeld' <=> c.net
      /\ copies' = c.nodes
      /\ net' <=> m
      /\ Box' <=> c.box
      /\ Vol' <=> c.volume
  BY <1>1, <1>2, Remembered DEF AsKnown, Fields
<1>5. /\ c.inited \in BOOLEAN /\ c.net \in BOOLEAN /\ c.box \in BOOLEAN /\ c.volume \in BOOLEAN
  BY <1>3 DEF ChainKind
<1>6. /\ initialized' \in BOOLEAN /\ netHeld' \in BOOLEAN /\ net' \in BOOLEAN
      /\ Box' \in BOOLEAN /\ Vol' \in BOOLEAN
  BY DEF TypeOK, Box, Vol
<1>7. Box' => Vol'
  BY DEF Housed, Box, Vol
<1> QED
  BY <1>1, <1>2, <1>3, <1>4, <1>5, <1>6, <1>7

LEMMA KnownBefore ==
  ASSUME TypeOK, Seen
  PROVE  /\ known \in ChainKind /\ netKnown \in BOOLEAN
         /\ known.inited \in BOOLEAN /\ known.net \in BOOLEAN /\ known.nodes \in Nat
         /\ known.box \in BOOLEAN /\ known.volume \in BOOLEAN /\ known.up \in BOOLEAN
         /\ Fields => /\ initialized = known.inited /\ netHeld = known.net
                      /\ copies = known.nodes /\ net = netKnown
         /\ Box => Vol
<1>1. known \in ChainKind /\ netKnown \in BOOLEAN
  BY DEF Seen
<1>2. /\ known.inited \in BOOLEAN /\ known.net \in BOOLEAN /\ known.nodes \in Nat
      /\ known.box \in BOOLEAN /\ known.volume \in BOOLEAN /\ known.up \in BOOLEAN
  BY <1>1 DEF ChainKind
<1>3. Fields => /\ initialized = known.inited /\ netHeld = known.net
                /\ copies = known.nodes /\ net = netKnown
  BY <1>1, <1>2 DEF Fields, TypeOK
<1>4. Box => Vol
  BY DEF Seen, Housed, Box, Vol
<1> QED
  BY <1>1, <1>2, <1>3, <1>4

LEMMA InitAgrees ==
  ASSUME TypeOK, TypeOK', HandlesSound, CallsInv, Seen, Next, Remembers, Ends(InitCall)
  PROVE  Came \in InitOutcomes(known, netKnown)
<1>1. /\ pc' = "idle" /\ Housed'
      /\ \/ InitDone
         \/ Quiet /\ ret' = "err" /\ (pc \in Preparation \/ (pc = "init.net" /\ Kept))
  BY InitEnds DEF Seen, CallsInv
<1>2. PICK c \in ChainKind, m \in BOOLEAN :
        /\ c = known' /\ m = netKnown'
        /\ c.inited = initialized' /\ c.net = netHeld' /\ c.nodes = copies'
        /\ c.box = Box' /\ c.volume = Vol' /\ (c.box => c.volume)
        /\ m = net'
        /\ c.up <=> \/ pc \in StartCall /\ ret' = "ok"
                    \/ known.up /\ ~Ends(StopCall) /\ ~Crash
  BY <1>1, Known
<1>3. c.up = known.up
  <2>1. pc \notin StartCall /\ ~Ends(StopCall)
    BY DEF Ends, InitCall, StartCall, StopCall
  <2>2. ~Crash
    BY DEF Ends, Crash
  <2>3. c.up \in BOOLEAN /\ known.up \in BOOLEAN
    BY KnownBefore DEF ChainKind
  <2> QED
    BY <1>2, <2>1, <2>2, <2>3
<1>4. Came = Outcome(c, m, ret' = "ok")
  BY <1>2 DEF Came
<1>5. known \in ChainKind /\ netKnown \in BOOLEAN
  BY KnownBefore
<1>6. CASE Quiet /\ ret' = "err" /\ pc = "init.net" /\ Kept
  <2>1. Fields /\ ~initialized /\ (Box => known.box) /\ (Vol <=> known.volume)
    BY <1>6 DEF Seen
  <2>2. /\ initialized' = known.inited /\ netHeld' = known.net
        /\ copies' = known.nodes /\ net' = netKnown
    BY <1>6, <2>1, KnownBefore DEF Quiet
  <2>3. Vol' = known.volume /\ (Box' => known.box)
    <3>1. Vol' \in BOOLEAN /\ known.volume \in BOOLEAN
      BY KnownBefore DEF Vol
    <3> QED
      BY <1>6, <2>1, <3>1, KeptSeen
  <2>4. ~known.inited
    BY <2>1 DEF Fields
  <2>5. Outcome(c, netKnown, FALSE) \in InitOutcomes(known, netKnown)
    BY <1>2, <1>3, <1>5, <2>2, <2>3, <2>4, InitEarly
  <2>6. Came = Outcome(c, netKnown, FALSE)
    BY <1>2, <1>4, <1>6, <2>2 DEF Outcome
  <2> QED
    BY <2>5, <2>6
<1>7. CASE Quiet /\ ret' = "err" /\ pc \in Preparation
  <2>1. /\ ~initialized /\ ~known.inited /\ netHeld /\ net
        /\ copies = known.nodes + 1
    BY <1>7 DEF Seen
  <2>2. /\ initialized' = known.inited /\ netHeld' = TRUE
        /\ copies' = known.nodes + 1 /\ net' = TRUE
    BY <1>7, <2>1, KnownBefore DEF Quiet, TypeOK
  <2>3. Outcome(c, TRUE, FALSE) \in InitOutcomes(known, netKnown)
    BY <1>2, <1>3, <1>5, <2>1, <2>2, InitLate
  <2>4. Came = Outcome(c, TRUE, FALSE)
    BY <1>2, <1>4, <1>7, <2>2 DEF Outcome
  <2> QED
    BY <2>3, <2>4
<1>8. CASE InitDone
  <2>1. /\ pc = "init.home" /\ todo = {} /\ initialized' = TRUE /\ ret' = "ok"
        /\ UNCHANGED <<status, vol, copies, netHeld, net>>
    BY <1>8 DEF InitDone, Return, runtimeVars
  <2>2. /\ ~known.inited /\ netHeld /\ net /\ copies = known.nodes + 1
    BY <2>1 DEF Seen, Preparation
  <2>3. \A d \in 1 .. copies : CanExec(1, d) /\ vol[1] = "home"
    BY <2>1, FirstSlot DEF CallsInv, Preparing, Visited
  <2>4. copies \in Nat /\ 1 .. copies \subseteq Copy
    BY CopiesAreCopies
  <2>5. known.nodes = 0
    <3>1. known.nodes \in Nat
      BY KnownBefore
    <3>2. SUFFICES ASSUME known.nodes # 0 PROVE FALSE
      OBVIOUS
    <3>3. 1 \in 1 .. copies /\ 2 \in 1 .. copies
      BY <2>2, <3>1, <3>2
    <3>4. held[1][1] = "live" /\ held[1][2] = "live" /\ 1 \in Copy /\ 2 \in Copy
      BY <2>3, <2>4, <3>3 DEF CanExec
    <3> QED
      BY <3>4, FirstSlot, NodesAreNames DEF HandlesSound
  <2>6. Box /\ Vol
    <3>1. 1 \in 1 .. copies
      BY <2>2, <2>5
    <3> QED
      BY <2>3, <3>1, FirstSlot DEF CanExec, Box, Vol, Present
  <2>7. Box' = TRUE /\ Vol' = TRUE
    <3>1. Box' /\ Vol'
      BY <2>1, <2>6 DEF Box, Vol, Present
    <3>2. Box' \in BOOLEAN /\ Vol' \in BOOLEAN
      BY DEF Box, Vol
    <3> QED
      BY <3>1, <3>2
  <2>8. netHeld' = TRUE /\ net' = TRUE /\ copies' = known.nodes + 1
    BY <2>1, <2>2 DEF TypeOK
  <2>9. Outcome(c, TRUE, TRUE) \in InitOutcomes(known, netKnown)
    BY <1>2, <1>3, <1>5, <2>1, <2>2, <2>5, <2>7, <2>8, InitWhole
  <2>10. Came = Outcome(c, TRUE, TRUE)
    BY <1>2, <1>4, <2>1, <2>8 DEF Outcome
  <2> QED
    BY <2>9, <2>10
<1> QED
  BY <1>1, <1>6, <1>7, <1>8

LEMMA StartAgrees ==
  ASSUME TypeOK, TypeOK', HandlesSound, CallsInv, Seen, Next, Remembers, Ends(StartCall)
  PROVE  Came \in StartOutcomes(known, netKnown)
<1>1. /\ pc' = "idle" /\ Quiet /\ Kept /\ Housed'
      /\ ret' = "err" \/ (pc = "start.post" /\ ret' = "ok")
  BY StartEnds, KeptSeen DEF Seen, CallsInv
<1>2. PICK c \in ChainKind, m \in BOOLEAN :
        /\ c = known' /\ m = netKnown'
        /\ c.inited = initialized' /\ c.net = netHeld' /\ c.nodes = copies'
        /\ c.box = Box' /\ c.volume = Vol' /\ (c.box => c.volume)
        /\ m = net'
        /\ c.up <=> \/ pc \in StartCall /\ ret' = "ok"
                    \/ known.up /\ ~Ends(StopCall) /\ ~Crash
  BY <1>1, Known
<1>3. c.up = (known.up \/ ret' = "ok")
  <2>1. pc \in StartCall /\ ~Ends(StopCall)
    BY DEF Ends, StartCall, StopCall
  <2>2. ~Crash
    BY DEF Ends, Crash
  <2>3. c.up \in BOOLEAN /\ known.up \in BOOLEAN
    BY KnownBefore DEF ChainKind
  <2> QED
    BY <1>2, <2>1, <2>2, <2>3
<1>4. Came = Outcome(c, m, ret' = "ok")
  BY <1>2 DEF Came
<1>5. known \in ChainKind /\ netKnown \in BOOLEAN
  BY KnownBefore
<1>6. AsKnown /\ initialized
  BY DEF Seen, Ends, Resting
<1>7. /\ initialized' = known.inited /\ netHeld' = known.net
      /\ copies' = known.nodes /\ net' = netKnown
  BY <1>1, <1>6, KnownBefore DEF Quiet, AsKnown
<1>8. Vol' = known.volume /\ Box' = known.box
  <2>1. Vol' \in BOOLEAN /\ known.volume \in BOOLEAN /\ Box' \in BOOLEAN /\ known.box \in BOOLEAN
    BY KnownBefore DEF Vol, Box
  <2> QED
    BY <1>1, <1>6, <2>1, KeptSeen DEF AsKnown
<1>9. CASE ret' = "err"
  <2>1. c = known
    <3>1. c.up = known.up
      BY <1>3, <1>9, KnownBefore
    <3> QED
      BY <1>2, <1>5, <1>7, <1>8, <3>1, SameChain
  <2>2. Came = Outcome(known, netKnown, FALSE)
    BY <1>2, <1>4, <1>7, <1>9, <2>1 DEF Outcome
  <2> QED
    BY <2>2, Zenon DEF StartOutcomes
<1>10. CASE ret' = "ok"
  <2>1. known.inited /\ known.box
    <3>1. copies # 0 /\ \A n \in Node, d \in 1 .. copies : CanExec(n, d)
      BY <1>1, <1>10 DEF CallsInv, Starting
    <3>2. 1 \in 1 .. copies
      BY <3>1, CopiesAreCopies
    <3>3. Box
      BY <3>1, <3>2, FirstSlot DEF CanExec, Box, Present
    <3> QED
      BY <1>6, <3>3 DEF AsKnown, Fields
  <2>2. c.up = TRUE
    BY <1>3, <1>10
  <2>3. Outcome(c, netKnown, TRUE) \in StartOutcomes(known, netKnown)
    BY <1>2, <1>5, <1>7, <1>8, <2>1, <2>2, StartWell
  <2>4. Came = Outcome(c, netKnown, TRUE)
    BY <1>2, <1>4, <1>7, <1>10 DEF Outcome
  <2> QED
    BY <2>3, <2>4
<1> QED
  BY <1>1, <1>9, <1>10

LEMMA StopAgrees ==
  ASSUME TypeOK, TypeOK', HandlesSound, CallsInv, Seen, Next, Remembers, Ends(StopCall)
  PROVE  Came \in StopOutcomes(known, netKnown)
<1>1. StopNetwork
  BY StopEnds DEF Seen, CallsInv
<1>2. /\ pc = "stop.net" /\ pc' = "idle" /\ netHeld' = FALSE /\ ret' = "ok"
      /\ UNCHANGED <<status, vol, copies, initialized>>
      /\ net' = net \/ (netHeld /\ net' = FALSE)
  BY <1>1 DEF StopNetwork
<1>3. Housed'
  BY <1>2 DEF Seen, Housed, Present
<1>4. PICK c \in ChainKind, m \in BOOLEAN :
        /\ c = known' /\ m = netKnown'
        /\ c.inited = initialized' /\ c.net = netHeld' /\ c.nodes = copies'
        /\ c.box = Box' /\ c.volume = Vol' /\ (c.box => c.volume)
        /\ m = net'
        /\ c.up <=> \/ pc \in StartCall /\ ret' = "ok"
                    \/ known.up /\ ~Ends(StopCall) /\ ~Crash
  BY <1>2, <1>3, Known
<1>5. c.up = FALSE
  <2>1. pc \notin StartCall
    BY <1>2 DEF StartCall
  <2>2. c.up \in BOOLEAN
    BY DEF ChainKind
  <2> QED
    BY <1>4, <2>1, <2>2
<1>6. known \in ChainKind /\ netKnown \in BOOLEAN
  BY KnownBefore
<1>7. /\ Fields /\ (Box => known.box) /\ (Vol => known.volume)
      /\ copies = 0 => AsKnown
  BY <1>2 DEF Seen, StopCall
<1>8. /\ initialized' = known.inited /\ netHeld = known.net
      /\ copies' = known.nodes /\ net = netKnown
  BY <1>2, <1>7, KnownBefore
<1>9. (Box' <=> Box) /\ (Vol' <=> Vol)
  BY <1>2 DEF Box, Vol, Present
<1>10. /\ c.box => known.box
       /\ c.volume => known.volume
       /\ known.nodes = 0 => c.box = known.box /\ c.volume = known.volume
  <2>1. /\ c.box \in BOOLEAN /\ c.volume \in BOOLEAN
        /\ known.box \in BOOLEAN /\ known.volume \in BOOLEAN
    BY KnownBefore DEF ChainKind
  <2> QED
    BY <1>2, <1>4, <1>7, <1>8, <1>9, <2>1 DEF AsKnown
<1>11. m = netKnown \/ (known.net /\ m = FALSE)
  BY <1>2, <1>4, <1>8
<1>12. Outcome(c, m, TRUE) \in StopOutcomes(known, netKnown)
  BY <1>2, <1>4, <1>5, <1>6, <1>8, <1>10, <1>11, StopEnded
<1>13. Came = Outcome(c, m, TRUE)
  BY <1>2, <1>4 DEF Came, Outcome
<1> QED
  BY <1>12, <1>13

LEMMA OtherAgrees ==
  ASSUME TypeOK, TypeOK', HandlesSound, CallsInv, Seen, Next, Remembers, Ends(OtherCall)
  PROVE  /\ netKnown' = netKnown
         /\ \E w \in Remains : known' = With(known, w) /\ (known.volume => w.volume)
<1>1. /\ pc' = "idle" /\ Quiet /\ Housed'
      /\ Kept \/ (pc \in UpCall /\ \A n \in Node : vol[n] # "absent" => vol'[n] # "absent")
  BY OtherEnds DEF Seen, CallsInv
<1>2. PICK c \in ChainKind, m \in BOOLEAN :
        /\ c = known' /\ m = netKnown'
        /\ c.inited = initialized' /\ c.net = netHeld' /\ c.nodes = copies'
        /\ c.box = Box' /\ c.volume = Vol' /\ (c.box => c.volume)
        /\ m = net'
        /\ c.up <=> \/ pc \in StartCall /\ ret' = "ok"
                    \/ known.up /\ ~Ends(StopCall) /\ ~Crash
  BY <1>1, Known
<1>3. c.up = known.up
  <2>1. pc \notin StartCall /\ ~Ends(StopCall)
    BY Steps DEF Ends, OtherCall
  <2>2. ~Crash
    BY DEF Ends, Crash
  <2>3. c.up \in BOOLEAN /\ known.up \in BOOLEAN
    BY KnownBefore DEF ChainKind
  <2> QED
    BY <1>2, <2>1, <2>2, <2>3
<1>4. pc \in SideCall \cup UpCall \cup {"halt", "up.pull"}
  BY Steps DEF Ends
<1>5. Fields /\ (known.volume => Vol)
  BY <1>4 DEF Seen, Resting, AsKnown
<1>6. known.volume => c.volume
  <2>1. Vol => Vol'
    BY <1>1, KeptSeen DEF Vol
  <2> QED
    BY <1>2, <1>5, <2>1
<1>7. /\ initialized' = known.inited /\ netHeld' = known.net
      /\ copies' = known.nodes /\ net' = netKnown
  BY <1>1, <1>5, KnownBefore DEF Quiet
<1>8. PICK w \in Remains : w.box = c.box /\ w.volume = c.volume
  BY <1>2, RemainsOf
<1>9. PICK k : k = known
  OBVIOUS
<1>10. c = With(k, w)
  <2>1. k \in ChainKind
    BY <1>9, KnownBefore
  <2>2. PICK d \in ChainKind : d = With(k, w)
          /\ d.box = w.box /\ d.volume = w.volume
          /\ d.inited = k.inited /\ d.net = k.net /\ d.nodes = k.nodes /\ d.up = k.up
    BY <2>1, WithFields
  <2>3. /\ c.inited = d.inited /\ c.net = d.net /\ c.nodes = d.nodes /\ c.up = d.up
        /\ c.box = d.box /\ c.volume = d.volume
    BY <1>2, <1>3, <1>7, <1>8, <1>9, <2>2
  <2> QED
    BY <2>2, <2>3, SameChain
<1> QED
  BY <1>2, <1>6, <1>7, <1>8, <1>9, <1>10

-----------------------------------------------------------------------------
(* The theorems.                                                           *)

\* The memory does not constrain the chain.
LEMMA MemoryIsFree == CallsSpec => Spec
<1>1. CallsInit => Init
  BY DEF CallsInit
<1>2. [CallsNext]_callsVars => [Next]_vars
  BY DEF CallsNext, callsVars
<1> QED
  BY <1>1, <1>2, PTL DEF CallsSpec, Spec

LEMMA SeenHolds == CallsSpec => []Seen
<1>1. CallsInit => Seen
  <2> SUFFICES ASSUME CallsInit PROVE Seen
    OBVIOUS
  <2>1. ~Box /\ ~Vol /\ Housed
    BY NodesAreNames DEF CallsInit, Init, Box, Vol, Housed, Present
  <2>2. known = [inited |-> FALSE, net |-> FALSE, nodes |-> 0,
                 box |-> FALSE, volume |-> FALSE, up |-> FALSE]
    BY <2>1 DEF CallsInit, Init, Look, Box, Vol
  <2>3. known \in ChainKind /\ netKnown \in BOOLEAN
    <3>1. [inited |-> FALSE, net |-> FALSE, nodes |-> 0,
           box |-> FALSE, volume |-> FALSE, up |-> FALSE] \in ChainKind
      BY DEF ChainKind
    <3> QED
      BY <2>2, <3>1 DEF CallsInit, Init
  <2>4. AsKnown
    <3>1. /\ ~known.inited /\ ~known.net /\ known.nodes = 0
          /\ ~known.box /\ ~known.volume
      BY <2>2
    <3>2. /\ ~initialized /\ ~netHeld /\ copies = 0 /\ ~net /\ ~netKnown
      BY DEF CallsInit, Init
    <3> QED
      BY <2>1, <3>1, <3>2 DEF AsKnown, Fields
  <2>5. pc = "idle"
    BY DEF CallsInit, Init
  <2> QED
    BY <2>1, <2>3, <2>4, <2>5, Steps DEF Seen
<1> QED
  BY <1>1, SeenKept, MemoryIsFree, TypeCorrect, HandlesAlwaysSound, CallsHold, PTL DEF CallsSpec

\* Whatever fails in them and in the calls before, initialize, start and stop
\* come to one of the outcomes for which Interchain is prepared, and the calls
\* of an upgrade and of the sidecars change only what they may: for any number
\* of nodes, sidecars and attempts (chain/cosmos.rs, initialize, start, stop).
THEOREM CallsAlwaysAgree == CallsSpec => CallsAgree
<1>1. TypeOK /\ TypeOK' /\ HandlesSound /\ CallsInv /\ Seen /\ [CallsNext]_callsVars
        => [Agreed]_callsVars
  <2> SUFFICES ASSUME TypeOK, TypeOK', HandlesSound, CallsInv, Seen, CallsNext PROVE Agreed
    OBVIOUS
  <2> QED
    BY InitAgrees, StartAgrees, StopAgrees, OtherAgrees DEF CallsNext, Agreed
<1> QED
  BY <1>1, SeenHolds, MemoryIsFree, TypeCorrect, HandlesAlwaysSound, CallsHold, PTL
  DEF CallsSpec, CallsAgree

\* A call dropped at any of its awaits leaves the chain as Interchain expects
\* it: as a failed initialize would, as before a start, or with a stop's
\* removals done in part and the network still held.
THEOREM CutsAlwaysAgree == CallsSpec => []CutsAgree
<1>1. TypeOK /\ Seen => CutsAgree
  <2> SUFFICES ASSUME TypeOK, Seen PROVE CutsAgree
    OBVIOUS
  <2> DEFINE c == Look(known.up)
  <2>1. /\ known \in ChainKind /\ netKnown \in BOOLEAN /\ net \in BOOLEAN
        /\ Fields => /\ initialized = known.inited /\ netHeld = known.net
                     /\ copies = known.nodes /\ net = netKnown
        /\ Box => Vol
    BY KnownBefore DEF TypeOK
  <2>2. /\ c \in ChainKind
        /\ c.inited = initialized /\ c.net = netHeld /\ c.nodes = copies
        /\ c.box = Box /\ c.volume = Vol /\ c.up = known.up
    <3>1. copies \in Nat /\ Box \in BOOLEAN /\ Vol \in BOOLEAN /\ known.up \in BOOLEAN
      BY CopiesAreCopies, KnownBefore DEF Box, Vol
    <3>2. c = [inited |-> initialized, net |-> netHeld, nodes |-> copies,
               box |-> Box, volume |-> Vol, up |-> known.up]
      BY DEF Look, Box, Vol
    <3> QED
      BY <3>1, <3>2 DEF ChainKind, TypeOK
  <2>3. /\ known.box \in BOOLEAN /\ known.volume \in BOOLEAN
        /\ Box \in BOOLEAN /\ Vol \in BOOLEAN
    BY KnownBefore DEF Box, Vol
  <2> HIDE DEF c
  <2>4. ASSUME pc \in {"init.clean", "init.net"}
        PROVE  Outcome(c, net, FALSE) \in InitOutcomes(known, netKnown)
    <3>1. Fields /\ ~initialized /\ (Box => known.box) /\ (Vol <=> known.volume)
      BY <2>4 DEF Seen
    <3>2. ~known.inited /\ Vol = known.volume
      BY <2>3, <3>1 DEF Fields
    <3> QED
      BY <2>1, <2>2, <3>1, <3>2, InitEarly
  <2>5. ASSUME pc \in Preparation
        PROVE  Outcome(c, net, FALSE) \in InitOutcomes(known, netKnown)
    <3>1. /\ ~initialized /\ ~known.inited /\ netHeld = TRUE /\ net = TRUE
          /\ copies = known.nodes + 1
      BY <2>5 DEF Seen, TypeOK
    <3>2. initialized = known.inited
      BY <3>1, KnownBefore DEF TypeOK
    <3> QED
      BY <2>1, <2>2, <3>1, <3>2, InitLate
  <2>6. ASSUME pc \in StartCall PROVE c = known /\ net = netKnown
    <3>1. AsKnown
      BY <2>6 DEF Seen, Resting
    <3>2. Box = known.box /\ Vol = known.volume
      BY <2>3, <3>1 DEF AsKnown
    <3> QED
      BY <2>1, <2>2, <3>1, <3>2, SameChain DEF AsKnown
  <2>7. ASSUME pc \in StopCall
        PROVE  (\E w \in Left(known) : c = With(known, w)) /\ net = netKnown
    <3>1. /\ Fields /\ (Box => known.box) /\ (Vol => known.volume)
          /\ copies = 0 => AsKnown
      BY <2>7 DEF Seen
    <3>2. /\ c.box => known.box
          /\ c.volume => known.volume
          /\ c.box => c.volume
          /\ known.nodes = 0 => c.box = known.box /\ c.volume = known.volume
      BY <2>1, <2>2, <2>3, <3>1 DEF AsKnown
    <3>3. PICK w \in Left(known) : w \in Remains /\ w.box = c.box /\ w.volume = c.volume
      BY <2>1, <2>2, <3>2, IsLeft
    <3>4. PICK d \in ChainKind : d = With(known, w)
            /\ d.box = w.box /\ d.volume = w.volume /\ d.inited = known.inited
            /\ d.net = known.net /\ d.nodes = known.nodes /\ d.up = known.up
      BY <2>1, <3>3, WithFields
    <3>5. /\ c.inited = d.inited /\ c.net = d.net /\ c.nodes = d.nodes /\ c.up = d.up
          /\ c.box = d.box /\ c.volume = d.volume
      BY <2>1, <2>2, <3>1, <3>3, <3>4
    <3>6. c = d
      BY <2>2, <3>5, SameChain
    <3> QED
      BY <2>1, <3>1, <3>4, <3>6
  <2> QED
    BY <2>4, <2>5, <2>6, <2>7, Steps DEF CutsAgree, c
<1> QED
  BY <1>1, SeenHolds, MemoryIsFree, TypeCorrect, PTL
=============================================================================
