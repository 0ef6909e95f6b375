----------------------------- MODULE ChainCalls -----------------------------
(***************************************************************************)
(* What the calls initialize, start and stop of one Cosmos chain           *)
(* (ict-rs/src/chain/cosmos.rs) may come to for who makes them: Interchain *)
(* takes each of them as one step with these outcomes, and the theorem     *)
(* CallsAlwaysAgree says that CosmosChain, request by request, has no      *)
(* others.                                                                 *)
(*                                                                         *)
(* A chain is a record k of what is known of it, n says whether its        *)
(* network exists.                                                         *)
(***************************************************************************)
EXTENDS Naturals

\* inited; net, it holds the id of its network; nodes, how often its node structs
\* were pushed; box and volume, a container or a home volume of one of its nodes
\* exists; up, it was started and not stopped since.
ChainKind == [inited : BOOLEAN, net : BOOLEAN, nodes : Nat,
              box : BOOLEAN, volume : BOOLEAN, up : BOOLEAN]

Outcome(k, n, ok) == [chain |-> k, network |-> n, ok |-> ok]

\* A node container mounts its home, so there is no container without one.
Remains == {w \in [box : BOOLEAN, volume : BOOLEAN] : w.box => w.volume}

With(k, w) == [k EXCEPT !.box = w.box, !.volume = w.volume]

\* Nothing when it has been done.  The call may end before it has a network,
\* some or all of what an earlier attempt left being removed; or after its
\* structs were pushed, at any node.  A second attempt pushes every struct once
\* more, and no two of a name can both have a container.
InitOutcomes(k, n) ==
  LET begun == [k EXCEPT !.net = TRUE, !.nodes = @ + 1]
      whole == [box |-> TRUE, volume |-> TRUE]
  IN  IF k.inited THEN {Outcome(k, n, TRUE)}
      ELSE {Outcome([k EXCEPT !.box = b], n, FALSE) : b \in {k.box, FALSE}}
             \cup {Outcome(With(begun, w), TRUE, FALSE) : w \in Remains}
             \cup (IF k.nodes > 0 THEN {}
                   ELSE {Outcome([With(begun, whole) EXCEPT !.inited = TRUE], TRUE, TRUE)})

\* start needs the containers.
StartOutcomes(k, n) ==
  {Outcome(k, n, FALSE)}
    \cup (IF k.inited /\ k.box THEN {Outcome([k EXCEPT !.up = TRUE], n, TRUE)} ELSE {})

\* Of the nodes it knows of, stop removes the containers and volumes it can.
Left(k) ==
  {w \in Remains : /\ w.box => k.box
                   /\ w.volume => k.volume
                   /\ k.nodes = 0 => w = [box |-> k.box, volume |-> k.volume]}

\* It returns Ok, whatever it could not remove, and gives up the id of its
\* network, which may go although a container is left: one that does not run.
StopOutcomes(k, n) ==
  LET stopped(w) == [With(k, w) EXCEPT !.net = FALSE, !.up = FALSE]
  IN  {Outcome(stopped(w), n, TRUE) : w \in Left(k)}
        \cup (IF k.net THEN {Outcome(stopped(w), FALSE, TRUE) : w \in Left(k)} ELSE {})
=============================================================================
