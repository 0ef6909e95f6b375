----------------------------- MODULE Interchain -----------------------------
(***************************************************************************)
(* The orchestrator of a multi-chain test (ict-rs/src/cosmos/interchain.rs)*)
(* with the containers of its relayers (relayer/docker_relayer.rs).  Chains*)
(* and relayers share one Docker network, which belongs to nobody: every   *)
(* chain that initialized holds its id and tries to remove it when it      *)
(* stops, and Docker refuses while a container runs on it.                 *)
(*                                                                         *)
(* A relayer runs each command in a one-off container of random name, and  *)
(* its relaying process in one that stop() can reach by a handle.  All     *)
(* mount the volume that is its home.                                      *)
(*                                                                         *)
(* The calls of a chain are one step each here, with the outcomes that     *)
(* ChainCalls allows (CosmosChain has the details); what the one-off       *)
(* commands do on the chains is in HermesPaths, the waits and the funding  *)
(* transactions in TxSequence.                                             *)
(***************************************************************************)
EXTENDS ChainCalls, Sequences, FiniteSets

CONSTANTS Chain, Relayer,
          Links,        \* the links, in the order they were added
          MaxCalls      \* bound: calls the test makes

ASSUME InterchainAssumption ==
  /\ Links \in Seq([ends : SUBSET Chain, relayer : Relayer])
  /\ MaxCalls \in Nat

VARIABLES
  network,      \* does the shared network exist?
  chain,        \* per chain, see TypeOK
  relayer,      \* per relayer, see TypeOK
  built,
  op, calls,    \* the last call of the test, and how many it made
  plan,         \* phases the call has still to finish, the current one first
  todo,         \* items of the current phase not yet begun
  step, by,     \* the one-off command in progress, if any, and its relayer
  ret,
  spoiled       \* did a container or a volume get out of reach?

callVars == <<op, calls, plan, todo, step, by, ret>>
vars     == <<network, chain, relayer, built, callVars, spoiled>>

Op == {"build", "build_skip", "start_chains", "configure", "configure_only",
       "start_relayers", "close"}

Phase == {"init", "start", "config", "link", "run", "stop.relayer", "stop.chain"}

\* The chains that a relayer has to know.
Pairs == {<<Links[i].relayer, c>> : i \in DOMAIN Links, c \in Chain}
           \cap {p \in Relayer \X Chain :
                   \E i \in DOMAIN Links : Links[i].relayer = p[1] /\ p[2] \in Links[i].ends}

Items(p) ==
  CASE p \in {"init", "start", "stop.chain"} -> Chain
    [] p \in {"run", "stop.relayer"}         -> Relayer
    [] p = "config"                          -> Pairs
    [] p = "link"                            -> DOMAIN Links

\* (Mutant) close stops the chains first.
PlanMut(o) ==
  CASE o = "build"          -> <<"init", "start", "config", "link", "run">>
    [] o \in {"build_skip", "start_chains"} -> <<"init", "start">>
    [] o = "configure"      -> <<"config", "link", "run">>
    [] o = "configure_only" -> <<"config", "link">>
    [] o = "start_relayers" -> <<"run">>
    [] o = "close"          -> <<"stop.chain", "stop.relayer">>

Plan(o) ==
  CASE o = "build"          -> <<"init", "start", "config", "link", "run">>
    [] o \in {"build_skip", "start_chains"} -> <<"init", "start">>
    [] o = "configure"      -> <<"config", "link", "run">>
    [] o = "configure_only" -> <<"config", "link">>
    [] o = "start_relayers" -> <<"run">>
    [] o = "close"          -> <<"stop.relayer", "stop.chain">>

TypeOK ==
  /\ network \in BOOLEAN
     \* net: holds the network's id; nodes: times its node structs were pushed
  /\ chain \in [Chain -> [inited : BOOLEAN, net : BOOLEAN, nodes : 0 .. MaxCalls,
                          box : BOOLEAN, volume : BOOLEAN, up : BOOLEAN]]
     \* bg: the relaying container, held by bg_container_id or not; oneoff: of
     \* the command in progress; stray: one-offs left behind; listed: how often
     \* a chain is in the list the configuration is written from
  /\ relayer \in [Relayer -> [made : BOOLEAN, home : BOOLEAN, held : BOOLEAN,
                              bg : {"none", "created", "running", "exited"},
                              oneoff : {"none", "created", "running"},
                              stray : SUBSET {"created", "running"},
                              listed : [Chain -> 0 .. MaxCalls]]]
  /\ built \in BOOLEAN /\ op \in Op \cup {"none", "new"} /\ calls \in 0 .. MaxCalls
  /\ \E o \in Op : \E k \in 0 .. Len(Plan(o)) : plan = SubSeq(Plan(o), k + 1, Len(Plan(o)))
  /\ plan # <<>> => todo \subseteq Items(Head(plan))
  /\ step \in {"none", "new", "config", "check", "key", "link"} /\ by \in Relayer
  /\ ret \in {"none", "ok", "err", "cancelled"}
  /\ spoiled \in BOOLEAN
     \* nothing is left open between two calls, and one command runs at a time
  /\ plan = <<>> => todo = {} /\ (step = "none" \/ step = "new")
  /\ \A r \in Relayer : relayer[r].oneoff # "none" => step # "none" /\ by = r

Init ==
  /\ network \in BOOLEAN          \* most tests create it first
  /\ chain = [c \in Chain |-> [inited |-> FALSE, net |-> FALSE, nodes |-> 0,
                               box |-> FALSE, volume |-> FALSE, up |-> FALSE]]
  /\ relayer = [r \in Relayer |->
       [made |-> FALSE, home |-> FALSE, held |-> FALSE, bg |-> "none", oneoff |-> "none",
        stray |-> {}, listed |-> [c \in Chain |-> 0]]]
  /\ built = FALSE /\ op = "none" /\ calls = 0
  /\ plan = <<>> /\ todo = {} /\ step = "none" /\ by \in Relayer
  /\ ret = "none" /\ spoiled = FALSE

-----------------------------------------------------------------------------
(* Calls.                                                                  *)

Idle == plan = <<>> /\ step = "none"

Begun(x) == todo' = todo \ {x} /\ UNCHANGED <<op, calls, plan, ret>>

\* The step for x is done with, in one piece.
Done(x) == Begun(x) /\ UNCHANGED <<step, by>>

End(r) ==
  /\ plan' = <<>> /\ todo' = {} /\ step' = "none" /\ ret' = r
  /\ UNCHANGED <<op, calls, by>>

\* build refuses a second time; everything else begins with its first phase.
\* A test that could not make its relayers stops there.
Call(o) ==
  /\ Idle /\ calls < MaxCalls /\ \A r \in Relayer : relayer[r].made
  /\ o \in {"configure", "configure_only", "start_relayers"} => op # "none"
  /\ op' = o /\ calls' = calls + 1
  /\ IF o \in {"build", "build_skip"} /\ built
     THEN ret' = "err" /\ UNCHANGED <<plan, todo>>
     ELSE ret' = "none" /\ plan' = Plan(o) /\ todo' = Items(Head(Plan(o)))
  /\ UNCHANGED <<network, chain, relayer, built, step, by, spoiled>>

NextPhase ==
  /\ Len(plan) > 1 /\ todo = {} /\ step = "none"
  /\ plan' = Tail(plan) /\ todo' = Items(plan[2])
  /\ UNCHANGED <<network, chain, relayer, built, op, calls, step, by, ret, spoiled>>

CallEnds ==
  /\ Len(plan) = 1 /\ todo = {} /\ step = "none"
  /\ built' = IF op \in {"build", "build_skip"} THEN TRUE
              ELSE IF op = "close" THEN FALSE ELSE built
  /\ End("ok")
  /\ UNCHANGED <<network, chain, relayer, spoiled>>

MarkBuilt ==
  /\ Idle /\ ~built /\ ret = "ok" /\ op # "close"
  /\ built' = TRUE
  /\ UNCHANGED <<network, chain, relayer, callVars, spoiled>>

\* An item of the current phase.
At(p, x) == plan # <<>> /\ Head(plan) = p /\ x \in todo /\ step = "none"

-----------------------------------------------------------------------------
(* The chains of the plan.                                                 *)

\* A call of the chain comes to o.
Becomes(c, o) == chain' = [chain EXCEPT ![c] = o.chain] /\ network' = o.network

InitChain(c) ==
  /\ At("init", c)
  /\ \E o \in InitOutcomes(chain[c], network) :
       /\ Becomes(c, o)
       /\ IF o.ok THEN Done(c) ELSE End("err")
  /\ UNCHANGED <<relayer, built, spoiled>>

\* (Mutant) A chain that does not start is logged only.
StartChainMut(c) ==
  /\ At("start", c)
  /\ \E o \in StartOutcomes(chain[c], network) : Becomes(c, o)
  /\ Done(c)
  /\ UNCHANGED <<relayer, built, spoiled>>

\* A chain that was stopped has no containers to start.
StartChain(c) ==
  /\ At("start", c)
  /\ \E o \in StartOutcomes(chain[c], network) :
       /\ Becomes(c, o)
       /\ IF o.ok THEN Done(c) ELSE End("err")
  /\ UNCHANGED <<relayer, built, spoiled>>

\* stop.  The network stays while a relayer's container runs on it, and may stay
\* while another chain has one.
StopChain(c) ==
  LET relaying == \E r \in Relayer : relayer[r].bg = "running" \/ "running" \in relayer[r].stray
      others   == relaying \/ \E d \in Chain \ {c} : chain[d].box
  IN  /\ At("stop.chain", c)
      /\ \E o \in StopOutcomes(chain[c], network) :
           /\ Becomes(c, o)
           /\ relaying => o.network = network
           /\ spoiled' = (spoiled \/ o.chain.box \/ o.chain.volume
                                  \/ (o.network /\ chain[c].net /\ ~others))
      /\ Done(c)
      /\ UNCHANGED <<relayer, built>>

\* The future is dropped within a stop, and with it maybe the handle of a
\* container that is left; the id of the network is kept.
StopCut(c) ==
  /\ At("stop.chain", c)
  /\ \E w \in Left(chain[c]) :
       /\ chain' = [chain EXCEPT ![c] = With(@, w)]
       /\ spoiled' = (spoiled \/ w.box)
  /\ End("cancelled")
  /\ UNCHANGED <<network, relayer, built>>

-----------------------------------------------------------------------------
(* One-off commands of a relayer: exec_oneoff.                             *)

\* The first command for an item begins.
Command(s, r) == step' = s /\ by' = r

\* DockerRelayer::new, which runs the init command.
MakeRelayer(r) ==
  /\ Idle /\ ~relayer[r].made /\ ret # "err"
  /\ Command("new", r)
  /\ op' = "new" /\ ret' = "none"
  /\ UNCHANGED <<network, chain, relayer, built, calls, plan, todo, spoiled>>

\* add_chain_configuration: the chain joins the list, also when it is in it,
\* and the file is written.
ConfigureChain(r, c) ==
  /\ At("config", <<r, c>>)
  /\ relayer' = [relayer EXCEPT ![r].listed[c] = @ + 1]
  /\ Command("config", r) /\ Begun(<<r, c>>)
  /\ UNCHANGED <<network, chain, built, spoiled>>

\* generate_path and link_path, link by link.
LinkPath(i) ==
  /\ At("link", i) /\ \A j \in todo : i <= j
  /\ Command("link", Links[i].relayer) /\ Begun(i)
  /\ UNCHANGED <<network, chain, relayer, built, spoiled>>

\* After a command that returned Ok, whatever its exit code.  The file is read
\* back and validated, the key added (its mnemonic written first).
After == [config |-> "check", check |-> "key", key |-> "none", link |-> "none", new |-> "none"]

\* A failed read-back or validation is logged only.
Result(ok) ==
  IF step = "new" THEN /\ step' = "none" /\ ret' = (IF ok THEN "ok" ELSE "err")
                       /\ UNCHANGED <<op, calls, plan, todo, by>>
  ELSE IF ok \/ step = "check"
  THEN step' = After[step] /\ UNCHANGED <<op, calls, plan, todo, by, ret>>
  ELSE End("err")

OneoffCreate ==
  /\ step # "none" /\ relayer[by].oneoff = "none"
  /\ \/ /\ relayer' = [relayer EXCEPT ![by].oneoff = "created", ![by].home = TRUE]
        /\ UNCHANGED <<callVars>>
     \/ Result(FALSE) /\ UNCHANGED relayer
  /\ UNCHANGED <<network, chain, built, spoiled>>

\* (Mutant) The container that did not start is still taken for the command's.
OneoffStartMut ==
  /\ step # "none" /\ relayer[by].oneoff = "created"
  /\ \/ /\ network
        /\ relayer' = [relayer EXCEPT ![by].oneoff = "running"]
        /\ UNCHANGED <<callVars>>
     \/ Result(FALSE) /\ UNCHANGED relayer
  /\ UNCHANGED <<network, chain, built, spoiled>>

\* When the container does not start, there is nobody to remove it.
OneoffStart ==
  /\ step # "none" /\ relayer[by].oneoff = "created"
  /\ \/ /\ network
        /\ relayer' = [relayer EXCEPT ![by].oneoff = "running"]
        /\ UNCHANGED <<callVars, spoiled>>
     \/ /\ relayer' = [relayer EXCEPT ![by].oneoff = "none", ![by].stray = @ \cup {"created"}]
        /\ spoiled' = TRUE
        /\ Result(FALSE)
  /\ UNCHANGED <<network, chain, built>>

\* The command ran, or could not; the container is removed, and a failure to
\* do so ignored.  A relayer that could not be made leaves its volume.
OneoffEnd ==
  /\ step # "none" /\ relayer[by].oneoff = "running"
  /\ \E ok, removed \in BOOLEAN :
       /\ relayer' = [relayer EXCEPT
            ![by].oneoff = "none",
            ![by].stray = IF removed THEN @ ELSE @ \cup {"running"},
            ![by].made = @ \/ (step = "new" /\ ok)]
       /\ spoiled' = (spoiled \/ ~removed)
       /\ Result(ok)
  /\ UNCHANGED <<network, chain, built>>

-----------------------------------------------------------------------------
(* The relaying container.                                                 *)

\* start: the name must be free, and the handle is kept only when the
\* container has started.
RunRelayer(r) ==
  /\ At("run", r)
  /\ \/ /\ relayer[r].bg = "none" /\ network
        /\ relayer' = [relayer EXCEPT ![r].bg = "running", ![r].held = TRUE, ![r].home = TRUE]
        /\ Done(r) /\ UNCHANGED spoiled
     \/ /\ relayer[r].bg = "none"
        /\ relayer' = [relayer EXCEPT ![r].bg = "created", ![r].home = TRUE]
        /\ End("err") /\ spoiled' = TRUE
     \/ End("err") /\ UNCHANGED <<relayer, spoiled>>
  /\ UNCHANGED <<network, chain, built>>

RelayerExits(r) ==
  /\ relayer[r].bg = "running"
  /\ relayer' = [relayer EXCEPT ![r].bg = "exited"]
  /\ UNCHANGED <<network, chain, built, callVars, spoiled>>

\* (Mutant) A container that cannot be removed is tried again.
StopRelayerMut(r) ==
  LET k == relayer[r]
  IN  /\ At("stop.relayer", r)
      /\ \E b \in (IF k.held THEN {k.bg, "none"} ELSE {k.bg}), h \in {k.home, FALSE} :
           /\ b # "none" \/ k.stray # {} => h = k.home
           /\ relayer' = [relayer EXCEPT ![r].bg = b, ![r].home = h]
           /\ spoiled' = (spoiled \/ b # "none" \/ h)
           /\ IF b = "none" THEN Done(r) ELSE UNCHANGED callVars
      /\ UNCHANGED <<network, chain, built>>

\* stop: the handle is taken, every failure ignored; the volume can be removed
\* when no container of the relayer is left.
StopRelayer(r) ==
  LET k == relayer[r]
  IN  /\ At("stop.relayer", r)
      /\ \E b \in (IF k.held THEN {k.bg, "none"} ELSE {k.bg}), h \in {k.home, FALSE} :
           /\ b # "none" \/ k.stray # {} => h = k.home
           /\ relayer' = [relayer EXCEPT ![r].bg = b, ![r].held = FALSE, ![r].home = h]
           /\ spoiled' = (spoiled \/ b # "none" \/ h)
      /\ Done(r)
      /\ UNCHANGED <<network, chain, built>>

-----------------------------------------------------------------------------

\* The future of the call, or of DockerRelayer::new, is dropped at an await: a
\* one-off in progress is left behind.  (What a relaying container, or a chain
\* that is not being stopped, is left with is an outcome of a step that failed.)
Cancel ==
  /\ ~Idle
  /\ End("cancelled")
  /\ IF step # "none" /\ relayer[by].oneoff # "none"
     THEN /\ relayer' = [relayer EXCEPT ![by].oneoff = "none", ![by].stray = @ \cup {relayer[by].oneoff}]
          /\ spoiled' = TRUE
     ELSE UNCHANGED <<relayer, spoiled>>
  /\ UNCHANGED <<network, chain, built>>

Step ==
  \/ NextPhase \/ CallEnds
  \/ \E c \in Chain : InitChain(c) \/ StartChain(c) \/ StopChain(c)
  \/ \E p \in Pairs : ConfigureChain(p[1], p[2])
  \/ \E i \in DOMAIN Links : LinkPath(i)
  \/ OneoffCreate \/ OneoffStart \/ OneoffEnd
  \/ \E r \in Relayer : RunRelayer(r) \/ StopRelayer(r)

Next ==
  \/ Step \/ Cancel \/ MarkBuilt
  \/ \E c \in Chain : StopCut(c)
  \/ \E o \in Op : Call(o)
  \/ \E r \in Relayer : MakeRelayer(r) \/ RelayerExits(r)

\* A call that began goes on: every request to the runtime is answered.
Spec == Init /\ [][Next]_vars /\ WF_vars(Step)

-----------------------------------------------------------------------------
(* Properties.                                                             *)

\* When close returns and no container or volume got out of reach, nothing is
\* left, not even the network that no chain owns, whichever chain stops last,
\* wherever an earlier build failed, and with calls after an earlier close.
CloseIsClean ==
  ret = "ok" /\ op = "close" /\ ~spoiled =>
    /\ \A c \in Chain : ~chain[c].box /\ ~chain[c].volume
    /\ \A r \in Relayer : relayer[r].bg = "none" /\ relayer[r].stray = {} /\ ~relayer[r].home
    /\ (\E c \in Chain : chain[c].nodes > 0) => ~network

\* When build returns Ok, all of it is there: every chain with its container
\* and the network, every relayer with a handle on its container, although
\* initialize does nothing for a chain that was initialized before, and
\* whatever failed, was retried or was closed earlier.
BuildIsUp ==
  ret = "ok" /\ op = "build" =>
    /\ network
    /\ \A c \in Chain : chain[c].inited /\ chain[c].box /\ chain[c].up
    /\ \A r \in Relayer : relayer[r].held /\ relayer[r].bg # "none"

\* Every call ends, close too, which goes on over every failure.
CallsEnd == plan # <<>> ~> plan = <<>>
=============================================================================
