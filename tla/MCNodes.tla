------------------------------- MODULE MCNodes -------------------------------
(* What runs beside the chains, one per behaviour, told by `part`:         *)
(* standalone nodes (StandaloneNodes: two owners with one container name), *)
(* the event watcher (EventWatcher) and the snapshots of QuickSpawn        *)
(* (SnapshotStore).  They share no state.                                  *)
EXTENDS EventWatcher

CONSTANTS Owner, MaxIds, MaxCalls, Saver

ASSUME StandaloneAssumption == MaxIds \in Nat \ {0} /\ MaxCalls \in Nat

VARIABLES
  part,
  kind, box, ids, volume, network, handle, netHeld, initialized, reused, nodePc, local, calls,
  told, swallowed,
  files, savePc, step, met, clean

Nodes == INSTANCE StandaloneNodes WITH pc <- nodePc
Store == INSTANCE SnapshotStore WITH pc <- savePc

nodeVars  == <<kind, box, ids, volume, network, handle, netHeld, initialized, reused, nodePc, local,
               calls, told, swallowed>>
storeVars == <<files, savePc, step, met, clean>>
mcvars    == <<vars, part, nodeVars, storeVars>>

MCInit ==
  /\ part \in {"nodes", "watcher", "store"}
  /\ Init /\ Nodes!Init /\ Store!Init
  /\ part # "nodes" => kind = "nostr"

MCNext ==
  /\ UNCHANGED part
  /\ \/ part = "watcher" /\ Next       /\ UNCHANGED <<nodeVars, storeVars>>
     \/ part = "nodes"   /\ Nodes!Next /\ UNCHANGED <<vars, storeVars>>
     \/ part = "store"   /\ Store!Next /\ UNCHANGED <<vars, nodeVars>>

\* The runtime schedules the task of the watcher; it has none at the start.
MCSpec == MCInit /\ [][MCNext]_mcvars /\ WF_vars(Task)

\* All three are well typed: ids, statuses, the channel and the files of a
\* snapshot stay in their ranges.
TypesOK == TypeOK /\ Nodes!TypeOK /\ Store!TypeOK

\* No container, volume or network is out of everybody's reach unless somebody
\* was told, or a removal failed in silence (chain/ethereum.rs, chain/zakura.rs,
\* nostr/relayer_manager.rs).
NoOrphan == Nodes!NoOrphan

\* A save that ended well and alone stands, whatever was left before it
\* (quickspawn/store.rs).
LastSaveStands == Store!LastSaveStands
=============================================================================
