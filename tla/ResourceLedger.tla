--------------------------- MODULE ResourceLedger ---------------------------
(***************************************************************************)
(* What a chain promises about the containers it asks the runtime for.     *)
(* Every container name is free, held by a handle of the running process   *)
(* (a `container_id`), or lost: a container carries the name and nothing   *)
(* in the process can reach it any more.  A container may be lost in two   *)
(* ways only: the process dies, or the call in progress reports that a     *)
(* removal failed (it returns an error or logs a warning).                 *)
(***************************************************************************)

CONSTANT Name                \* container names of one chain

VARIABLES owner,             \* per name: "none", "held" or "lost"
          reported           \* has the call in progress reported a failure?

vars == <<owner, reported>>

LedgerTypeOK ==
  /\ owner \in [Name -> {"none", "held", "lost"}]
  /\ reported \in BOOLEAN

-----------------------------------------------------------------------------

Init ==
  /\ owner = [n \in Name |-> "none"]
  /\ reported = FALSE

\* A call begins with a clean record, or a failure of it is reported.
Report(b) ==
  /\ reported' = b
  /\ UNCHANGED owner

\* A container is created for n and its handle kept, whatever carried the
\* name before.
Acquire(n) ==
  /\ owner' = [owner EXCEPT ![n] = "held"]
  /\ UNCHANGED reported

\* The container of n is removed; a failure may be reported with it.
Release(n) ==
  /\ owner' = [owner EXCEPT ![n] = "none"]
  /\ reported' \in {reported, TRUE}

\* The handle of n is dropped although its container stays: never silently.
Lose(n) ==
  /\ owner[n] = "held"
  /\ owner' = [owner EXCEPT ![n] = "lost"]
  /\ reported' = TRUE

\* The process dies: nothing is held any more, nothing is removed.
Die ==
  /\ owner' = [n \in Name |-> IF owner[n] = "none" THEN "none" ELSE "lost"]
  /\ reported' = FALSE

Next ==
  \/ \E b \in BOOLEAN : Report(b)
  \/ \E n \in Name : Acquire(n) \/ Release(n) \/ Lose(n)
  \/ Die

Spec == Init /\ [][Next]_vars
=============================================================================
