----------------------------- MODULE HermesPaths -----------------------------
(***************************************************************************)
(* IBC paths: Interchain::create_ibc_paths and the calls of HermesRelayer  *)
(* it makes (ict-rs/src/relayer/hermes.rs), with the tests' own calls of   *)
(* create_channel and flush.  Hermes has no path objects: the relayer      *)
(* keeps a map of paths in memory and fills it with the identifiers that   *)
(* it parses from the output of one-off `hermes` commands.                 *)
(*                                                                         *)
(* The chains are external.  An identifier is the position of the object   *)
(* in its chain's list, so 1 is what "07-tendermint-0" and "connection-0"  *)
(* name, and 0 is the empty string.  The other chain of a connection or a  *)
(* channel is not an argument of the commands: hermes finds it behind the  *)
(* client or the connection it is given.                                   *)
(*                                                                         *)
(* A command has four outcomes: it works and prints identifiers; it works  *)
(* but its output cannot be parsed; it does nothing and prints none; the   *)
(* runtime returns an error, whatever the command did.  Exit codes are     *)
(* never looked at.                                                        *)
(***************************************************************************)
EXTENDS Naturals, Sequences

CONSTANTS Chain, Path,
          Links,          \* the links of the Interchain, in order
          MaxObjects      \* bound: clients, connections, channels per chain

ASSUME LinksAssumption ==
  /\ Links \in Seq([path : Path, chain1 : Chain, chain2 : Chain])
  /\ \A i \in DOMAIN Links : Links[i].chain1 # Links[i].chain2
  /\ MaxObjects \in Nat \ {0}

End  == {"a", "b"}
Port == {"transfer", "wasm"}
Id   == 0 .. MaxObjects

VARIABLES
  clients, conns, chans,   \* external: the IBC objects of each chain
  paths,                   \* the relayer's map of paths
  pc, path, link,          \* the call in progress, its path, its link if any
  idA, port, channel,      \* locals: parsed client id, port, flushed channel
  asked,                   \* channel ends a flush asked hermes to clear
  guessed,                 \* did an identifier of the path fall back to "-0"?
  ret

chainVars == <<clients, conns, chans>>
locals    == <<path, link, idA, port, channel>>
vars      == <<chainVars, paths, pc, locals, asked, guessed, ret>>

Ids    == [End -> Id]
NoIds  == [e \in End |-> 0]
NoPath == [known |-> FALSE, chain |-> [e \in End |-> CHOOSE c \in Chain : TRUE],
           client |-> NoIds, conn |-> NoIds, chan |-> NoIds, port |-> "none"]

ConnEnd == [client : Id, chain : Chain, peer : Id]
ChanEnd == [conn : Id, port : Port, chain : Chain, peer : Id]

TypeOK ==
  /\ \A c \in Chain : /\ Len(clients[c]) \in Id /\ clients[c] \in Seq(Chain)
                      /\ Len(conns[c]) \in Id   /\ conns[c] \in Seq(ConnEnd)
                      /\ Len(chans[c]) \in Id   /\ chans[c] \in Seq(ChanEnd)
  /\ paths \in [Path -> [known : BOOLEAN, chain : [End -> Chain], client : Ids,
                         conn : Ids, chan : Ids, port : Port \cup {"none"}]]
  /\ pc \in {"idle", "link", "client.a", "client.b", "conn", "chan", "flush.a", "flush.b"}
  /\ path \in Path /\ link \in 0 .. Len(Links) + 1
  /\ idA \in Id /\ port \in Port /\ channel \in Id
  /\ asked \subseteq Chain \X Port \X (Id \ {0})
  /\ guessed \in [Path -> BOOLEAN]
  /\ ret \in {"none", "ok", "err"}

Init ==
  /\ clients = [c \in Chain |-> <<>>]
  /\ conns = [c \in Chain |-> <<>>]
  /\ chans = [c \in Chain |-> <<>>]
  /\ paths = [p \in Path |-> NoPath]
  /\ pc = "idle" /\ path \in Path /\ link = 0 /\ idA = 0
  /\ port = "transfer" /\ channel = 0 /\ asked = {}
  /\ guessed = [p \in Path |-> FALSE]
  /\ ret = "none"

-----------------------------------------------------------------------------
(* The chains, through hermes.                                             *)

\* A client of chain ref is made on chain host.
NewClient(host, ref) ==
  /\ Len(clients[host]) < MaxObjects
  /\ clients' = [clients EXCEPT ![host] = Append(@, ref)]
  /\ UNCHANGED <<conns, chans>>

\* Client id of chain c is a client of chain ref.
ClientOf(c, id, ref) == id \in DOMAIN clients[c] /\ clients[c][id] = ref

\* A connection between a, over its client ca, and the chain that ca is a
\* client of, over client cb there: which must be a client of a.
NewConnection(a, ca, cb) ==
  /\ ca \in DOMAIN clients[a]
  /\ LET b == clients[a][ca]
     IN  /\ ClientOf(b, cb, a)
         /\ Len(conns[a]) < MaxObjects /\ Len(conns[b]) < MaxObjects
         /\ conns' = [conns EXCEPT
              ![a] = Append(@, [client |-> ca, chain |-> b, peer |-> Len(conns[b]) + 1]),
              ![b] = Append(@, [client |-> cb, chain |-> a, peer |-> Len(conns[a]) + 1])]
  /\ UNCHANGED <<clients, chans>>

NewChannel(a, k, p) ==
  /\ k \in DOMAIN conns[a]
  /\ LET b == conns[a][k].chain
     IN  /\ Len(chans[a]) < MaxObjects /\ Len(chans[b]) < MaxObjects
         /\ chans' = [chans EXCEPT
              ![a] = Append(@, [conn |-> k, port |-> p, chain |-> b,
                                peer |-> Len(chans[b]) + 1]),
              ![b] = Append(@, [conn |-> conns[a][k].peer, port |-> p, chain |-> a,
                                peer |-> Len(chans[a]) + 1])]
  /\ UNCHANGED <<clients, conns>>

-----------------------------------------------------------------------------
(* The calls.  The relayer is driven by one task at a time.                *)

Return(r) ==
  /\ pc' = "idle" /\ ret' = r /\ link' = 0 /\ idA' = 0 /\ channel' = 0
  /\ UNCHANGED <<path, port>>

\* A command: what it does, how the call goes on with the identifiers it
\* printed, how it goes on without.
Command(effect, next, unparsed) ==
  \/ effect /\ next
  \/ (effect \/ UNCHANGED chainVars) /\ unparsed
  \/ (effect \/ UNCHANGED chainVars) /\ Return("err") /\ UNCHANGED <<paths, guessed>>

\* create_ibc_paths: link by link, and again from the first one when a test
\* calls configure_relayers_and_paths after a failure.
CreateIbcPaths ==
  /\ pc = "idle"
  /\ pc' = "link" /\ link' = 1 /\ ret' = "none"
  /\ UNCHANGED <<chainVars, paths, path, idA, port, channel, asked, guessed>>

\* generate_path, which forgets what the map had under that name; then
\* link_path.
GeneratePath ==
  /\ pc = "link" /\ link \in DOMAIN Links
  /\ LET l == Links[link]
     IN  /\ path' = l.path
         /\ paths' = [paths EXCEPT ![l.path] =
              [NoPath EXCEPT !.known = TRUE, !.chain = [a |-> l.chain1, b |-> l.chain2]]]
         /\ guessed' = [guessed EXCEPT ![l.path] = FALSE]
  /\ pc' = "client.a" /\ port' = "transfer"
  /\ UNCHANGED <<chainVars, link, idA, channel, asked, ret>>

AllLinked ==
  /\ pc = "link" /\ link \notin DOMAIN Links
  /\ Return("ok")
  /\ UNCHANGED <<chainVars, paths, asked, guessed>>

This == paths[path]

Goto(step) == pc' = step /\ UNCHANGED <<path, link, port, channel, ret>>

\* create_clients: an identifier that cannot be parsed becomes -0.
CreateClientA ==
  /\ pc = "client.a"
  /\ LET host == This.chain["a"]
     IN  Command(NewClient(host, This.chain["b"]),
                 /\ idA' = Len(clients[host]) + 1
                 /\ Goto("client.b") /\ UNCHANGED <<paths, guessed>>,
                 /\ idA' = 1
                 /\ guessed' = [guessed EXCEPT ![path] = TRUE]
                 /\ Goto("client.b") /\ UNCHANGED paths)
  /\ UNCHANGED asked

CreateClientB ==
  /\ pc = "client.b"
  /\ LET host == This.chain["b"]
         Store(id) == paths' = [paths EXCEPT ![path].client = [a |-> idA, b |-> id]]
     IN  Command(NewClient(host, This.chain["a"]),
                 /\ Store(Len(clients[host]) + 1)
                 /\ Goto("conn") /\ UNCHANGED <<idA, guessed>>,
                 /\ Store(1)
                 /\ guessed' = [guessed EXCEPT ![path] = TRUE]
                 /\ Goto("conn") /\ UNCHANGED idA)
  /\ UNCHANGED asked

\* (Mutant) The two identifiers are stored the wrong way round.
CreateConnectionMut ==
  /\ pc = "conn"
  /\ LET a == This.chain["a"]
         b == This.chain["b"]
         Store(x, y) == paths' = [paths EXCEPT ![path].conn = [a |-> y, b |-> x]]
     IN  Command(NewConnection(a, This.client["a"], This.client["b"]),
                 /\ Store(Len(conns[a]) + 1, Len(conns[b]) + 1)
                 /\ Goto("chan") /\ UNCHANGED <<idA, guessed>>,
                 /\ Store(1, 1)
                 /\ guessed' = [guessed EXCEPT ![path] = TRUE]
                 /\ Goto("chan") /\ UNCHANGED idA)
  /\ UNCHANGED asked

\* create_connections: the same fallback, on both sides.
CreateConnection ==
  /\ pc = "conn"
  /\ LET a  == This.chain["a"]
         ca == This.client["a"]
         Store(x, y) == paths' = [paths EXCEPT ![path].conn = [a |-> x, b |-> y]]
     IN  Command(NewConnection(a, ca, This.client["b"]),
                 /\ Store(Len(conns[a]) + 1, Len(conns[clients[a][ca]]) + 1)
                 /\ Goto("chan") /\ UNCHANGED <<idA, guessed>>,
                 /\ Store(1, 1)
                 /\ guessed' = [guessed EXCEPT ![path] = TRUE]
                 /\ Goto("chan") /\ UNCHANGED idA)
  /\ UNCHANGED asked

\* Where create_channel goes on: the call ends, or the next link follows.
Linked ==
  IF link = 0 THEN Return("ok")
  ELSE pc' = "link" /\ link' = link + 1 /\ idA' = 0 /\ UNCHANGED <<path, port, channel, ret>>

\* create_channel is the one that refuses to go on without identifiers.
CreateChannel ==
  /\ pc = "chan"
  /\ LET a == This.chain["a"]
         k == This.conn["a"]
     IN  Command(NewChannel(a, k, port),
                 /\ paths' = [paths EXCEPT
                      ![path].port = port,
                      ![path].chan = [a |-> Len(chans[a]) + 1,
                                      b |-> Len(chans[conns[a][k].chain]) + 1]]
                 /\ Linked /\ UNCHANGED guessed,
                 Return("err") /\ UNCHANGED <<paths, guessed>>)
  /\ UNCHANGED asked

\* A test opens one more channel on a path, for a contract's port.
ExtraChannel ==
  /\ pc = "idle"
  /\ \E p \in Path :
       /\ path' = p
       /\ IF paths[p].known
          THEN pc' = "chan" /\ ret' = "none"
          ELSE pc' = "idle" /\ ret' = "err"
  /\ port' = "wasm"
  /\ UNCHANGED <<chainVars, paths, link, idA, channel, asked, guessed>>

\* (Mutant) Both ends are cleared under the caller's channel id.
FlushEndMut(e) ==
  LET ch == channel
      c  == This.chain[e]
  IN  IF This.port = "none" \/ ch = 0 THEN {} ELSE {<<c, This.port, ch>>}

\* (Mutant) Empty names are passed on.
FlushEndMutSkip(e) ==
  LET ch == IF e = "b" /\ This.chan["b"] # 0 THEN This.chan["b"] ELSE channel
  IN  {<<This.chain[e], This.port, ch>>}

\* flush: `clear packets` on either end, skipped when a name is empty; the
\* path's own channel id on the far end, the caller's on the near one.
FlushEnd(e) ==
  LET ch == IF e = "b" /\ This.chan["b"] # 0 THEN This.chan["b"] ELSE channel
      c  == This.chain[e]
  IN  IF This.port = "none" \/ ch = 0 THEN {} ELSE {<<c, This.port, ch>>}

Flush ==
  /\ pc = "idle"
  /\ \E p \in Path, ch \in Id \ {0} :
       /\ path' = p /\ asked' = {}
       /\ IF paths[p].known
          THEN pc' = "flush.a" /\ ret' = "none" /\ channel' = ch
          ELSE pc' = "idle" /\ ret' = "err" /\ UNCHANGED channel
  /\ UNCHANGED <<chainVars, paths, link, idA, port, guessed>>

FlushStep(step, e, next) ==
  /\ pc = step
  /\ \/ asked' = asked \cup FlushEnd(e) /\ next
     \/ FlushEnd(e) # {} /\ UNCHANGED asked /\ Return("err")
  /\ UNCHANGED <<chainVars, paths, guessed>>

FlushNear == FlushStep("flush.a", "a", Goto("flush.b") /\ UNCHANGED idA)
FlushFar  == FlushStep("flush.b", "b", Return("ok"))

Next ==
  \/ CreateIbcPaths \/ GeneratePath \/ AllLinked
  \/ CreateClientA \/ CreateClientB \/ CreateConnection \/ CreateChannel
  \/ ExtraChannel \/ Flush \/ FlushNear \/ FlushFar

Spec == Init /\ [][Next]_vars

-----------------------------------------------------------------------------
(* Properties.                                                             *)

\* Path p is what its record says: clients of each other's chains, one
\* connection over them, one channel over that, on the recorded port.
Sound(p) ==
  LET r == paths[p]
      a == r.chain["a"]
      b == r.chain["b"]
  IN  /\ ClientOf(a, r.client["a"], b) /\ ClientOf(b, r.client["b"], a)
      /\ r.conn["a"] \in DOMAIN conns[a]
      /\ conns[a][r.conn["a"]] = [client |-> r.client["a"], chain |-> b, peer |-> r.conn["b"]]
      /\ r.conn["b"] \in DOMAIN conns[b]
      /\ conns[b][r.conn["b"]] = [client |-> r.client["b"], chain |-> a, peer |-> r.conn["a"]]
      /\ r.chan["a"] \in DOMAIN chans[a]
      /\ chans[a][r.chan["a"]] =
           [conn |-> r.conn["a"], port |-> r.port, chain |-> b, peer |-> r.chan["b"]]

HasChannel(p) == paths[p].chan["a"] # 0

\* A path with a channel is sound when no identifier of it was guessed: also
\* when commands failed, links were retried, several links share chains and
\* further channels were opened on the path or failed to open.
LinkedPathIsSound == \A p \in Path : HasChannel(p) /\ ~guessed[p] => Sound(p)

\* A flush that returns Ok, of the channel its path has recorded, has asked for
\* both ends of that channel to be cleared, each under its own id.  (Whether
\* they were is in exit codes that flush does not read.)
FlushReachesBothEnds ==
  [][LET a == This.chain["a"]
     IN  pc = "flush.b" /\ ret' = "ok" /\ channel = This.chan["a"] /\ ~guessed[path] =>
           asked' = {<<a, This.port, channel>>,
                     <<This.chain["b"], This.port, chans[a][channel].peer>>}]_vars

\* "Error propagation, not defaults [...] No unwrap_or on critical paths"
\* (ict-rs/README.md:315): a path that was linked is sound.
NoSilentDefaults == \A p \in Path : HasChannel(p) => Sound(p)
=============================================================================
