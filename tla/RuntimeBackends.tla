--------------------------- MODULE RuntimeBackends ---------------------------
(***************************************************************************)
(* The two implementations of RuntimeBackend side by side: DockerBackend   *)
(* (runtime/docker.rs) over a Docker daemon and MockRuntime                *)
(* (runtime/mock.rs).  A user of the trait issues one sequence of calls to *)
(* both, and the comparison goes on for as long as both give the same      *)
(* answers: a test on the mock stands for a run on Docker until then.      *)
(*                                                                         *)
(* The k-th container and the k-th network a caller was given are the same *)
(* in both worlds, whatever ids the backends invent.  The daemon is read   *)
(* from how docker.rs uses it: a name is taken once, a call that changes   *)
(* nothing (304) is Ok, an id or a name finds a container, and a container *)
(* may exit by itself.                                                     *)
(***************************************************************************)
EXTENDS Naturals

CONSTANTS Name, MaxHandles, MaxNets

VARIABLES
  made, dock, mock,      \* containers given out; their state in both worlds
  volumes,               \* named volumes of the daemon
  nets, dnet, mnet,      \* networks given out, whether they still exist
  last, agree            \* the last call and its two answers; were all equal?

vars == <<made, dock, mock, volumes, nets, dnet, mnet, last, agree>>

Handle    == 1 .. MaxHandles
Net       == 1 .. MaxNets
Present   == {"created", "running", "paused", "exited"}
MockState == {"none", "Created", "Running", "Paused", "Stopped"}
Answer    == {"ok", "err", "blocks"}
NoBox     == [name |-> "none", st |-> "none", net |-> 0]
Box       == {NoBox} \cup [name : Name, st : Present, net : {0} \cup Net]

\* Calls on one container, and the ones on names and networks.
Moving == {"start", "stop", "pause", "unpause", "remove", "exec", "background",
           "logs", "port", "copy", "wait"}
Op     == Moving \cup {"none", "create", "remove by name", "volume", "network",
                       "remove network", "remove prefix"}

\* A handle given out stands for one container, in one status, in each world.
TypeOK ==
  /\ made \in 0 .. MaxHandles /\ nets \in 0 .. MaxNets
  /\ dock \in [Handle -> Box] /\ mock \in [Handle -> MockState]
  /\ volumes \in SUBSET Name
  /\ dnet \in [Net -> BOOLEAN] /\ mnet \in [Net -> BOOLEAN]
  /\ last \in [op : Op, d : Answer, m : Answer] /\ agree \in BOOLEAN

Init ==
  /\ made = 0 /\ dock = [h \in Handle |-> NoBox] /\ mock = [h \in Handle |-> "none"]
  /\ volumes = {} /\ nets = 0
  /\ dnet = [k \in Net |-> FALSE] /\ mnet = [k \in Net |-> FALSE]
  /\ last = [op |-> "none", d |-> "ok", m |-> "ok"] /\ agree = TRUE

-----------------------------------------------------------------------------
(* What a call on one container does to its status; a status without a     *)
(* pair refuses the call.                                                  *)

Same(S) == {<<s, s>> : s \in S}

\* DockerBackend: the daemon's rules.
DockerMoves(op) ==
  CASE op = "start"   -> {<<"created", "running">>, <<"running", "running">>,
                          <<"exited", "running">>}
    [] op = "stop"    -> {<<"created", "created">>, <<"running", "exited">>,
                          <<"paused", "exited">>, <<"exited", "exited">>}
    [] op = "pause"   -> {<<"running", "paused">>}
    [] op = "unpause" -> {<<"paused", "running">>}
    [] op = "remove"  -> {<<s, "none">> : s \in Present}
    [] op \in {"exec", "background"}      -> {<<"running", "running">>}

\* What leaves the status alone: a container that is there is enough.
DockerReads(op) ==
  CASE op \in {"logs", "port", "copy"} -> Same(Present)
    [] op = "wait" -> Same({"created", "exited"})

DockerAllows(op) ==
  IF op \in {"logs", "port", "copy", "wait"} THEN DockerReads(op) ELSE DockerMoves(op)

\* (Mutant) stop_container of the mock wants a container that runs.
MockMovesMut(op) ==
  LET Known == MockState \ {"none"} IN
  CASE op = "start"   -> {<<s, "Running">> : s \in Known}
    [] op = "stop"    -> {<<"Running", "Stopped">>, <<"Paused", "Stopped">>}
    [] op = "pause"   -> {<<s, "Paused">> : s \in Known}
    [] op = "unpause" -> {<<s, "Running">> : s \in Known}
    [] op = "remove"  -> {<<s, "none">> : s \in Known}
    [] op \in {"exec", "background", "logs"} -> Same(Known)
    [] op \in {"port", "wait"}               -> Same(MockState)
    [] op = "copy"    -> {}

\* MockRuntime: a known id is enough, port and wait ask for nothing, and
\* copy_from_container is the trait's default, an error.
MockMoves(op) ==
  LET Known == MockState \ {"none"} IN
  CASE op = "start"   -> {<<s, "Running">> : s \in Known}
    [] op = "stop"    -> {<<s, "Stopped">> : s \in Known}
    [] op = "pause"   -> {<<s, "Paused">> : s \in Known}
    [] op = "unpause" -> {<<s, "Running">> : s \in Known}
    [] op = "remove"  -> {<<s, "none">> : s \in Known}
    [] op \in {"exec", "background", "logs"} -> Same(Known)
    [] op \in {"port", "wait"}               -> Same(MockState)
    [] op = "copy"    -> {}

Accepts(moves, st) == \E p \in moves : p[1] = st
After(moves, st)   == IF Accepts(moves, st)
                      THEN (CHOOSE p \in moves : p[1] = st)[2] ELSE st

-----------------------------------------------------------------------------
(* Calls.                                                                  *)

Truth(b) == IF b THEN "ok" ELSE "err"

Answers(op, d, m) ==
  /\ agree /\ last' = [op |-> op, d |-> d, m |-> m] /\ agree' = (d = m)

\* create_container: the mock never looks at the name.
CreateContainer(n, k) ==
  LET free == \A h \in Handle : dock[h].name # n IN
  /\ made < MaxHandles /\ made' = made + 1
  /\ Answers("create", Truth(free), "ok")
  /\ dock' = IF free THEN [dock EXCEPT ![made + 1] = [name |-> n, st |-> "created", net |-> k]]
                     ELSE dock
  /\ mock' = [mock EXCEPT ![made + 1] = "Created"]
  /\ volumes' = IF free THEN volumes \cup {n} ELSE volumes
  /\ UNCHANGED <<nets, dnet, mnet>>

\* A start also needs the network the container was created on.
Reachable(op, h) == op = "start" /\ dock[h].net # 0 => dnet[dock[h].net]

\* Only a wait for a container that has not exited blocks.
ContainerCall(op, h) ==
  LET st == dock[h].st
      ok == Accepts(DockerAllows(op), st) /\ Reachable(op, h)
      d  == IF op = "wait" /\ st \in {"running", "paused"} THEN "blocks" ELSE Truth(ok)
      to == After(DockerAllows(op), st)
  IN
  /\ Answers(op, d, Truth(Accepts(MockMoves(op), mock[h])))
  /\ dock' = IF ~ok THEN dock
             ELSE [dock EXCEPT ![h] = IF to = "none" THEN NoBox ELSE [@ EXCEPT !.st = to]]
  /\ mock' = [mock EXCEPT ![h] = After(MockMoves(op), @)]
  /\ UNCHANGED <<made, volumes, nets, dnet, mnet>>

\* The removals of stale containers pass a name where an id is meant.
RemoveByName(n) ==
  LET found == \E h \in Handle : dock[h].name = n IN
  /\ Answers("remove by name", Truth(found), "err")
  /\ dock' = [h \in Handle |-> IF dock[h].name = n THEN NoBox ELSE dock[h]]
  /\ UNCHANGED <<made, mock, volumes, nets, dnet, mnet>>

\* A volume some container mounts, running or not, stays.
RemoveVolume(n) ==
  LET ok == n \in volumes /\ \A h \in Handle : dock[h].name # n IN
  /\ Answers("volume", Truth(ok), "ok")
  /\ volumes' = IF ok THEN volumes \ {n} ELSE volumes
  /\ UNCHANGED <<made, dock, mock, nets, dnet, mnet>>

\* create_network under a new name; the daemon may have no subnet to give.
CreateNetwork(ok) ==
  /\ nets < MaxNets /\ nets' = nets + 1
  /\ Answers("network", Truth(ok), "ok")
  /\ dnet' = [dnet EXCEPT ![nets + 1] = ok]
  /\ mnet' = [mnet EXCEPT ![nets + 1] = TRUE]
  /\ UNCHANGED <<made, dock, mock, volumes>>

\* The daemon keeps a network with a live endpoint.
RemoveNetwork(k) ==
  LET ok == dnet[k] /\ \A h \in Handle :
              dock[h].net = k => dock[h].st \notin {"running", "paused"} IN
  /\ Answers("remove network", Truth(ok), Truth(mnet[k]))
  /\ dnet' = [dnet EXCEPT ![k] = @ /\ ~ok]
  /\ mnet' = [mnet EXCEPT ![k] = FALSE]
  /\ UNCHANGED <<made, dock, mock, volumes, nets>>

\* Every network of the prefix loses its endpoints and goes; a removal that
\* fails is not told.  The mock has the trait's default and does nothing.
RemoveByPrefix(gone) ==
  /\ Answers("remove prefix", "ok", "ok")
  /\ dnet' = [k \in Net |-> dnet[k] /\ k \notin gone]
  /\ dock' = [h \in Handle |-> IF dock[h].net # 0 /\ dock[h].st \in {"running", "paused"}
                               THEN [dock[h] EXCEPT !.net = 0] ELSE dock[h]]
  /\ UNCHANGED <<made, mock, volumes, nets, mnet>>

\* The main process of a container ends: the mock has no such thing.
ContainerExits(h) ==
  /\ agree /\ dock[h].st = "running" /\ dock' = [dock EXCEPT ![h].st = "exited"]
  /\ UNCHANGED <<made, mock, volumes, nets, dnet, mnet, last, agree>>

Next ==
  \/ \E n \in Name, k \in 0 .. nets : CreateContainer(n, k)
  \/ \E op \in Moving, h \in 1 .. made : ContainerCall(op, h)
  \/ \E n \in Name : RemoveByName(n)
  \/ \E n \in Name : RemoveVolume(n)
  \/ \E ok \in BOOLEAN : CreateNetwork(ok)
  \/ \E k \in 1 .. nets : RemoveNetwork(k)
  \/ \E gone \in SUBSET (1 .. nets) : RemoveByPrefix(gone)
  \/ \E h \in 1 .. made : ContainerExits(h)

Spec == Init /\ [][Next]_vars

-----------------------------------------------------------------------------
(* Properties.                                                             *)

\* What the mock may say of a container the daemon has in a given status.
Matches(d, m) ==
  \/ d = "none"    /\ m = "none"
  \/ d = "created" /\ m \in {"Created", "Stopped"}
  \/ d = "running" /\ m = "Running"
  \/ d = "paused"  /\ m = "Paused"
  \/ d = "exited"  /\ m \in {"Stopped", "Running"}

\* While the answers agree, both worlds hold the same containers in matching
\* statuses, and the mock has every network Docker has.
SameWorld ==
  agree => /\ \A h \in Handle : Matches(dock[h].st, mock[h])
           /\ \A k \in Net : dnet[k] => mnet[k]

\* Where the mock is more lenient than Docker, and where it is stricter.
Lenient  == {"create", "start", "pause", "unpause", "exec", "background", "port",
             "wait", "volume", "network", "remove network"}
Stricter == {"copy", "remove by name"}

\* The first call on which a test with the mock and a run on Docker part is one
\* the mock accepts and Docker refuses or keeps waiting for, and it is never a
\* stop, a removal by id or a read of the logs.  The mock alone refuses two
\* calls: the copy out of a container, and the removal of a stale container by
\* its name, so the stale clean-ups of the nodes are never exercised by it.
FirstDifference ==
  ~agree => \/ last.m = "ok" /\ last.d # "ok" /\ last.op \in Lenient
            \/ last.m = "err" /\ last.d = "ok" /\ last.op \in Stricter
=============================================================================
