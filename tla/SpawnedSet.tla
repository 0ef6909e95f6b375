------------------------------ MODULE SpawnedSet ------------------------------
(***************************************************************************)
(* The Drop of a SpawnedChainSet of QuickSpawn (quickspawn/snapshot.rs),   *)
(* which stops and removes what was spawned by Handle::block_on.           *)
(***************************************************************************)
CONSTANTS Node          \* validators and full nodes of a set

\* Where a set is dropped: in a task of a runtime, on a thread that knows one
\* but runs no task of it, or on any other thread.
Context == {"task", "blocking", "outside"}

VARIABLES
  named,                \* does it have the name of its network?
  box, network,         \* its containers and its network
  ctx, drop, left,      \* the Drop: where, how far, containers still to handle
  unwinding, mishap     \* is it dropped by a panic; has a request failed?

vars == <<named, box, network, ctx, drop, left, unwinding, mishap>>

TypeOK ==
  /\ named \in BOOLEAN /\ box \in [Node -> {"none", "stopped", "running"}]
  /\ network \in BOOLEAN
  /\ ctx \in Context /\ drop \in {"no", "stopping", "done", "panicked", "aborted"}
  /\ left \in SUBSET Node /\ unwinding \in BOOLEAN /\ mishap \in BOOLEAN

Init ==
  /\ named \in BOOLEAN /\ box = [n \in Node |-> "running"] /\ network = TRUE
  /\ ctx \in Context /\ drop = "no" /\ left = {} /\ unwinding \in BOOLEAN
  /\ mishap = FALSE

-----------------------------------------------------------------------------

\* Handle::block_on panics on a thread that is running a task; a panic in a
\* Drop that a panic has caused ends the process.
Drop ==
  /\ drop = "no"
  /\ \/ ctx = "outside" /\ drop' = "done" /\ UNCHANGED left
     \/ ctx = "task" /\ drop' = (IF unwinding THEN "aborted" ELSE "panicked") /\ UNCHANGED left
     \/ ctx = "blocking" /\ drop' = "stopping" /\ left' = {n \in Node : box[n] # "none"}
  /\ UNCHANGED <<named, box, network, ctx, unwinding, mishap>>

\* (Mutant) The container is stopped and not removed.
DropNodeMut(n) ==
  /\ drop = "stopping" /\ n \in left /\ left' = left \ {n}
  /\ \/ box' = [box EXCEPT ![n] = "stopped"] /\ UNCHANGED mishap
     \/ UNCHANGED box /\ mishap' = TRUE
  /\ UNCHANGED <<named, network, ctx, drop, unwinding>>

\* stop and remove, by force, of one container; failures are ignored.
DropNode(n) ==
  /\ drop = "stopping" /\ n \in left /\ left' = left \ {n}
  /\ \/ box' = [box EXCEPT ![n] = "none"] /\ UNCHANGED mishap
     \/ \E st \in {"stopped", box[n]} : box' = [box EXCEPT ![n] = st] /\ mishap' = TRUE
  /\ UNCHANGED <<named, network, ctx, drop, unwinding>>

\* Last the network, by the name the set has, when there is a node whose
\* runtime can be asked; a container that still runs keeps it.
DropNetwork ==
  /\ drop = "stopping" /\ left = {} /\ drop' = "done"
  /\ \/ network' = ~(named /\ Node # {} /\ \A n \in Node : box[n] # "running") /\ UNCHANGED mishap
     \/ UNCHANGED network /\ mishap' = TRUE
  /\ UNCHANGED <<named, box, ctx, left, unwinding>>

\* A node may end by itself, and be removed before the set is dropped.
NodeEnds(n) ==
  /\ drop = "no" /\ box[n] # "none"
  /\ box' = [box EXCEPT ![n] = IF @ = "running" THEN "stopped" ELSE "none"]
  /\ UNCHANGED <<named, network, ctx, drop, left, unwinding, mishap>>

Next ==
  \/ Drop \/ DropNetwork
  \/ \E n \in Node : DropNode(n) \/ NodeEnds(n)

Spec == Init /\ [][Next]_vars

-----------------------------------------------------------------------------
(* Properties.                                                             *)

\* A set dropped on a thread that may block leaves no container and no network
\* it knows the name of, unless a request failed; dropped in a task (the body
\* of a #[tokio::test]) it leaves all it had.
SetGoneIsClean ==
  /\ drop = "done" /\ ctx = "blocking" /\ ~mishap =>
       (\A n \in Node : box[n] = "none") /\ (network => ~named)
  /\ drop \in {"panicked", "aborted"} => network
=============================================================================
