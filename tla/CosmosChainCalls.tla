-------------------------- MODULE CosmosChainCalls --------------------------
(***************************************************************************)
(* CosmosChain with a memory of what the chain looked like to its caller   *)
(* before the call in progress: each call, from its first request to its   *)
(* last, is one of those that ChainCalls allows.                           *)
(***************************************************************************)
EXTENDS CosmosChain, ChainCalls

VARIABLES known,      \* the chain between two calls, as in ChainCalls
          netKnown    \* did its network exist then?

callsVars == <<vars, known, netKnown>>

\* The chain as it is now; whether it was started, the calls before have told.
Look(up) ==
  [inited |-> initialized, net |-> netHeld, nodes |-> copies,
   box    |-> \E n \in Node : Present(n),
   volume |-> \E n \in Node : vol[n] # "absent",
   up     |-> up]

InitCall  == {"init.clean", "init.net", "init.pull", "init.create", "init.start", "init.home"}
StartCall == {"start.genesis", "start.pre", "start.pre.up", "start.exec", "start.wait",
              "start.post", "start.post.up"}
StopCall  == {"stop.side", "stop.node", "stop.vol", "stop.net"}
OtherCall == Step \ ({"idle"} \cup InitCall \cup StartCall \cup StopCall)

\* A call in progress returns.
Ends(call) == pc \in call /\ ret' # "none"

\* The caller knows the chain by what a call left; a new process begins anew.
Remembers ==
  IF pc' = "idle"
  THEN /\ \E up \in BOOLEAN :
            /\ up = (\/ pc \in StartCall /\ ret' = "ok"
                     \/ known.up /\ ~Ends(StopCall) /\ ~Crash)
            /\ known' = Look(up)'
       /\ netKnown' = net'
  ELSE UNCHANGED <<known, netKnown>>

CallsInit == Init /\ known = Look(FALSE) /\ netKnown = net
CallsNext == Next /\ Remembers
CallsSpec == CallsInit /\ [][CallsNext]_callsVars

Came == Outcome(known', netKnown', ret' = "ok")

Agreed ==
  /\ Ends(InitCall)  => Came \in InitOutcomes(known, netKnown)
  /\ Ends(StartCall) => Came \in StartOutcomes(known, netKnown)
  /\ Ends(StopCall)  => Came \in StopOutcomes(known, netKnown)
  /\ Ends(OtherCall) =>
       /\ netKnown' = netKnown
       /\ \E w \in Remains : known' = With(known, w) /\ (known.volume => w.volume)

\* Initialize, start and stop come to what Interchain takes them to come to,
\* whatever of their requests failed and whatever calls were made before; the
\* calls of an upgrade and those of the sidecars change nothing of the chain but
\* which node containers there are, and give up no home.
CallsAgree == [][Agreed]_callsVars

\* Where a call is dropped at an await, the chain is as Interchain takes it to
\* be: an initialize as if it had failed, a start as if it had not been made,
\* a stop as if it had removed what it did and stopped there (StopCut).
CutsAgree ==
  /\ pc \in InitCall  => Outcome(Look(known.up), net, FALSE) \in InitOutcomes(known, netKnown)
  /\ pc \in StartCall => Look(known.up) = known /\ net = netKnown
  /\ pc \in StopCall  => /\ \E w \in Left(known) : Look(known.up) = With(known, w)
                         /\ net = netKnown
=============================================================================
