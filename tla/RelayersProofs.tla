--------------------------- MODULE RelayersProofs ---------------------------
(* Paths between chains, and what a relayer is told of chains and keys     *)
(* (MCRelayers), for every value of the constants.                         *)
EXTENDS MCRelayers, Integers, SequenceTheorems, FiniteSetTheorems, TLAPS

-----------------------------------------------------------------------------
(* Paths: TypeOK, LinkedPathIsSound, FlushReachesBothEnds of HermesPaths.  *)

PathRec == [known : BOOLEAN, chain : [End -> Chain], client : Ids, conn : Ids, chan : Ids,
            port : Port \cup {"none"}]

\* The chains' lists; nothing is made between a chain and itself.
ChainsFit ==
  /\ clients \in [Chain -> Seq(Chain)] /\ conns \in [Chain -> Seq(ConnEnd)]
  /\ chans \in [Chain -> Seq(ChanEnd)]
  /\ \A c \in Chain :
       /\ Len(clients[c]) \in Id /\ Len(conns[c]) \in Id /\ Len(chans[c]) \in Id
       /\ \A i \in DOMAIN clients[c] : clients[c][i] # c
       /\ \A i \in DOMAIN conns[c] : conns[c][i].chain # c

\* What Sound says of the clients, the connection and the channel of a record.
ClientsSound(r) ==
  /\ ClientOf(r.chain["a"], r.client["a"], r.chain["b"])
  /\ ClientOf(r.chain["b"], r.client["b"], r.chain["a"])

ConnEndSound(r, e, f) ==
  /\ r.conn[e] \in DOMAIN conns[r.chain[e]]
  /\ conns[r.chain[e]][r.conn[e]] = [client |-> r.client[e], chain |-> r.chain[f], peer |-> r.conn[f]]

ConnSound(r) == ConnEndSound(r, "a", "b") /\ ConnEndSound(r, "b", "a")

ChanEndSound(r, e, f) ==
  /\ r.chan[e] \in DOMAIN chans[r.chain[e]]
  /\ chans[r.chain[e]][r.chan[e]] =
       [conn |-> r.conn[e], port |-> r.port, chain |-> r.chain[f], peer |-> r.chan[f]]

ChanSound(r) == ChanEndSound(r, "a", "b") /\ ChanEndSound(r, "b", "a")

\* A record that was not guessed is sound as far as it goes.
RecordFits(r, g) ==
  /\ r.known => r.chain["a"] # r.chain["b"]
  /\ r.chan["a"] # 0 => r.port # "none"
  /\ ~g => /\ r.client["a"] # 0 => ClientsSound(r)
           /\ r.conn["a"] # 0 => ClientsSound(r) /\ ConnSound(r)
           /\ r.chan["a"] # 0 => ClientsSound(r) /\ ConnSound(r) /\ ChanSound(r)

PathsFit ==
  /\ paths \in [Path -> PathRec] /\ guessed \in [Path -> BOOLEAN]
  /\ \A p \in Path : RecordFits(paths[p], guessed[p])

\* The call in progress: what its path still lacks, and what a flush has asked for.
CallFits ==
  /\ pc \in {"idle", "link", "client.a", "client.b", "conn", "chan", "flush.a", "flush.b"}
  /\ path \in Path /\ link \in 0 .. Len(Links) + 1 /\ idA \in Id /\ port \in Port
  /\ channel \in Id /\ ret \in {"none", "ok", "err"}
  /\ pc # "link" => link \in 0 .. Len(Links)
  /\ pc \notin {"idle", "link"} => This.known
  /\ pc \in {"client.a", "client.b", "conn"} => This.chan["a"] = 0
  /\ pc \in {"client.a", "client.b"} => This.conn["a"] = 0
  /\ pc = "client.b" /\ ~guessed[path] => ClientOf(This.chain["a"], idA, This.chain["b"])
  /\ asked \subseteq Chain \X Port \X (Id \ {0})
  /\ pc \in {"flush.a", "flush.b"} => channel # 0
  /\ pc = "flush.a" => asked = {}
  /\ pc = "flush.b" => asked = FlushEnd("a")

HermesInv == ChainsFit /\ PathsFit /\ CallFits

LEMMA Bounds == MaxObjects \in Nat /\ 0 \in Id /\ 1 \in Id /\ Len(Links) \in Nat
  BY LinksAssumption DEF Id

LEMMA Ends ==
  ASSUME NEW S, NEW x \in S, NEW y \in S
  PROVE  /\ [a |-> x, b |-> y] \in [End -> S]
         /\ [a |-> x, b |-> y]["a"] = x /\ [a |-> x, b |-> y]["b"] = y
  BY DEF End

\* A step on the chains only ever appends to their lists.
Kept(s, r) == DOMAIN s \subseteq DOMAIN r /\ \A i \in DOMAIN s : r[i] = s[i]

Grown ==
  \A c \in Chain :
    Kept(clients[c], clients'[c]) /\ Kept(conns[c], conns'[c]) /\ Kept(chans[c], chans'[c])

Moved == ChainsFit' /\ Grown

LEMMA Unmoved == ASSUME ChainsFit, UNCHANGED chainVars PROVE Moved
<1>1. UNCHANGED <<clients, conns, chans>>
  BY DEF chainVars
<1>2. ChainsFit'
  BY <1>1 DEF ChainsFit
<1> QED BY <1>1, <1>2 DEF Moved, Grown, Kept

LEMMA Appended ==
  ASSUME NEW S, NEW s \in Seq(S), NEW e \in S
  PROVE  /\ Append(s, e) \in Seq(S) /\ Len(s) \in Nat /\ Len(Append(s, e)) = Len(s) + 1
         /\ DOMAIN s = 1 .. Len(s) /\ DOMAIN Append(s, e) = 1 .. Len(s) + 1
         /\ Append(s, e)[Len(s) + 1] = e /\ \A i \in 1 .. Len(s) : Append(s, e)[i] = s[i]
         /\ Kept(s, Append(s, e))
  BY DEF Kept

LEMMA NewClientGrows ==
  ASSUME ChainsFit, NEW host \in Chain, NEW ref \in Chain, host # ref, NewClient(host, ref)
  PROVE  /\ Moved /\ Len(clients[host]) + 1 \in Id /\ Len(clients[host]) + 1 # 0
         /\ Len(clients[host]) + 1 \in DOMAIN clients'[host]
         /\ clients'[host][Len(clients[host]) + 1] = ref
<1>1. /\ Len(clients[host]) < MaxObjects /\ clients' = [clients EXCEPT ![host] = Append(@, ref)]
      /\ UNCHANGED <<conns, chans>>
  BY DEF NewClient
<1>2. /\ clients \in [Chain -> Seq(Chain)] /\ clients[host] \in Seq(Chain)
      /\ clients'[host] = Append(clients[host], ref)
      /\ \A c \in Chain \ {host} : clients'[c] = clients[c]
  BY <1>1 DEF ChainsFit
<1>3. clients' \in [Chain -> Seq(Chain)]
  BY <1>1, <1>2, Appended
<1>4. PICK m \in Nat : m = Len(clients[host]) /\ m < MaxObjects
  BY <1>1, <1>2, Appended
<1>5. m + 1 \in Id /\ m + 1 # 0
  BY <1>4, Bounds DEF Id
<1>6. /\ Len(clients'[host]) = m + 1 /\ DOMAIN clients'[host] = 1 .. m + 1
      /\ clients'[host][m + 1] = ref /\ DOMAIN clients[host] = 1 .. m
      /\ \A i \in 1 .. m : clients'[host][i] = clients[host][i]
      /\ Kept(clients[host], clients'[host])
  BY <1>2, <1>4, Appended
<1>7. m + 1 \in 1 .. m + 1 /\ \A i \in 1 .. m + 1 : i \in 1 .. m \/ i = m + 1
  BY <1>4
<1>8. \A i \in DOMAIN clients'[host] : clients'[host][i] # host
  BY <1>6, <1>7 DEF ChainsFit
<1>9. ChainsFit'
  BY <1>1, <1>2, <1>3, <1>5, <1>6, <1>8 DEF ChainsFit
<1>10. Grown
  BY <1>1, <1>2, <1>6 DEF Grown, Kept
<1> QED BY <1>4, <1>5, <1>6, <1>7, <1>9, <1>10 DEF Moved

LEMMA NewConnectionGrows ==
  ASSUME ChainsFit, NEW a \in Chain, NEW b, NEW ca, NEW cb, b = clients[a][ca],
         NewConnection(a, ca, cb),
         NEW x, x = Len(conns[a]) + 1, NEW y, y = Len(conns[b]) + 1
  PROVE  /\ Moved /\ x \in Id /\ y \in Id /\ x # 0
         /\ ClientOf(a, ca, b) /\ ClientOf(b, cb, a)
         /\ x \in DOMAIN conns'[a] /\ conns'[a][x] = [client |-> ca, chain |-> b, peer |-> y]
         /\ y \in DOMAIN conns'[b] /\ conns'[b][y] = [client |-> cb, chain |-> a, peer |-> x]
<1> DEFINE ea == [client |-> ca, chain |-> b, peer |-> y]
           eb == [client |-> cb, chain |-> a, peer |-> x]
<1>1. /\ ca \in DOMAIN clients[a] /\ ClientOf(b, cb, a)
      /\ Len(conns[a]) < MaxObjects /\ Len(conns[b]) < MaxObjects
      /\ conns' = [conns EXCEPT ![a] = Append(@, ea), ![b] = Append(@, eb)]
      /\ UNCHANGED <<clients, chans>>
  BY DEF NewConnection
<1>2. clients[a] \in Seq(Chain) /\ b \in Chain /\ b # a /\ conns \in [Chain -> Seq(ConnEnd)]
  BY <1>1 DEF ChainsFit
<1>3. clients[b] \in Seq(Chain) /\ conns[a] \in Seq(ConnEnd) /\ conns[b] \in Seq(ConnEnd)
  BY <1>2 DEF ChainsFit
<1>4. PICK m \in Nat : m = Len(conns[a]) /\ m < MaxObjects
  BY <1>1, <1>3
<1>5. PICK k \in Nat : k = Len(conns[b]) /\ k < MaxObjects
  BY <1>1, <1>3
<1>6. x = m + 1 /\ y = k + 1 /\ x \in Id /\ y \in Id /\ x # 0
  BY <1>4, <1>5, Bounds DEF Id
<1>7. ca \in Id /\ cb \in Id
  <2>1. Len(clients[a]) \in Id /\ Len(clients[b]) \in Id
    BY <1>2 DEF ChainsFit
  <2>2. ca \in 1 .. Len(clients[a]) /\ cb \in 1 .. Len(clients[b])
    <3>1. DOMAIN clients[a] = 1 .. Len(clients[a]) /\ DOMAIN clients[b] = 1 .. Len(clients[b])
      BY <1>2, <1>3
    <3> QED BY <1>1, <3>1 DEF ClientOf
  <2> QED BY <2>1, <2>2, Bounds DEF Id
<1>8. ea \in ConnEnd /\ eb \in ConnEnd
  BY <1>2, <1>6, <1>7 DEF ConnEnd
<1>9. ClientOf(a, ca, b) /\ ea.chain # a /\ eb.chain # b
  BY <1>1, <1>2 DEF ClientOf
<1> HIDE DEF ea, eb
<1>10. /\ conns'[a] = Append(conns[a], ea) /\ conns'[b] = Append(conns[b], eb)
       /\ \A c \in Chain \ {a, b} : conns'[c] = conns[c]
  BY <1>1, <1>2
<1>11. conns' \in [Chain -> Seq(ConnEnd)]
  <2>1. Append(conns[a], ea) \in Seq(ConnEnd) /\ Append(conns[b], eb) \in Seq(ConnEnd)
    BY <1>3, <1>8, Appended
  <2> QED BY <1>1, <1>2, <2>1
<1>12. /\ Len(conns'[a]) = x /\ DOMAIN conns'[a] = 1 .. m + 1 /\ conns'[a][x] = ea
       /\ \A i \in 1 .. m : conns'[a][i] = conns[a][i]
       /\ DOMAIN conns[a] = 1 .. m /\ Kept(conns[a], conns'[a])
  BY <1>3, <1>4, <1>6, <1>8, <1>10, Appended
<1>13. /\ Len(conns'[b]) = y /\ DOMAIN conns'[b] = 1 .. k + 1 /\ conns'[b][y] = eb
       /\ \A i \in 1 .. k : conns'[b][i] = conns[b][i]
       /\ DOMAIN conns[b] = 1 .. k /\ Kept(conns[b], conns'[b])
  BY <1>3, <1>5, <1>6, <1>8, <1>10, Appended
<1>14. \A i \in 1 .. m + 1 : i \in 1 .. m \/ i = x
  BY <1>4, <1>6
<1>15. \A i \in 1 .. k + 1 : i \in 1 .. k \/ i = y
  BY <1>5, <1>6
<1>16. \A c \in Chain : Len(conns'[c]) \in Id /\ \A i \in DOMAIN conns'[c] : conns'[c][i].chain # c
  <2>1. \A i \in DOMAIN conns'[a] : conns'[a][i].chain # a
    BY <1>9, <1>12, <1>14 DEF ChainsFit
  <2>2. \A i \in DOMAIN conns'[b] : conns'[b][i].chain # b
    <3>1. \A i \in 1 .. k : conns[b][i].chain # b
      BY <1>2, <1>13 DEF ChainsFit
    <3> QED BY <1>9, <1>13, <1>15, <3>1
  <2>3. Len(conns'[a]) \in Id /\ Len(conns'[b]) \in Id
    BY <1>6, <1>12, <1>13
  <2>4. \A c \in Chain \ {a, b} : Len(conns'[c]) \in Id /\ \A i \in DOMAIN conns'[c] : conns'[c][i].chain # c
    BY <1>10 DEF ChainsFit
  <2> QED BY <2>1, <2>2, <2>3, <2>4
<1>17. ChainsFit'
  BY <1>1, <1>11, <1>16 DEF ChainsFit
<1>18. Grown
  <2>1. \A c \in Chain : Kept(conns[c], conns'[c])
    BY <1>10, <1>12, <1>13 DEF Kept
  <2> QED BY <1>1, <2>1 DEF Grown, Kept
<1>19. x \in 1 .. m + 1 /\ y \in 1 .. k + 1
  BY <1>4, <1>5, <1>6
<1> QED BY <1>1, <1>6, <1>9, <1>12, <1>13, <1>17, <1>18, <1>19 DEF Moved, ea, eb

LEMMA NewChannelGrows ==
  ASSUME ChainsFit, NEW a \in Chain, NEW b, NEW k, NEW p \in Port, b = conns[a][k].chain,
         NewChannel(a, k, p),
         NEW x, x = Len(chans[a]) + 1, NEW y, y = Len(chans[b]) + 1
  PROVE  /\ Moved /\ x \in Id /\ y \in Id /\ x # 0 /\ k \in DOMAIN conns[a]
         /\ x \in DOMAIN chans'[a]
         /\ chans'[a][x] = [conn |-> k, port |-> p, chain |-> b, peer |-> y]
         /\ b \in Chain => /\ y \in DOMAIN chans'[b]
                           /\ chans'[b][y] = [conn |-> conns[a][k].peer, port |-> p, chain |-> a, peer |-> x]
<1> DEFINE ea == [conn |-> k, port |-> p, chain |-> b, peer |-> y]
           eb == [conn |-> conns[a][k].peer, port |-> p, chain |-> a, peer |-> x]
<1>1. /\ k \in DOMAIN conns[a] /\ Len(chans[a]) < MaxObjects /\ Len(chans[b]) < MaxObjects
      /\ chans' = [chans EXCEPT ![a] = Append(@, ea), ![b] = Append(@, eb)]
      /\ UNCHANGED <<clients, conns>>
  BY DEF NewChannel
<1>2. conns[a] \in Seq(ConnEnd) /\ conns[a][k] \in ConnEnd /\ chans \in [Chain -> Seq(ChanEnd)]
  BY <1>1 DEF ChainsFit
<1>3. b \in Chain /\ b # a /\ conns[a][k].peer \in Id
  BY <1>1, <1>2 DEF ChainsFit, ConnEnd
<1>4. chans[a] \in Seq(ChanEnd) /\ chans[b] \in Seq(ChanEnd)
  BY <1>2, <1>3
<1>5. PICK m \in Nat : m = Len(chans[a]) /\ m < MaxObjects
  BY <1>1, <1>4
<1>6. PICK l \in Nat : l = Len(chans[b]) /\ l < MaxObjects
  BY <1>1, <1>4
<1>7. x = m + 1 /\ y = l + 1 /\ x \in Id /\ y \in Id /\ x # 0
  BY <1>5, <1>6, Bounds DEF Id
<1>8. k \in Id
  <2>1. Len(conns[a]) \in Id /\ k \in 1 .. Len(conns[a])
    BY <1>1, <1>2 DEF ChainsFit
  <2> QED BY <2>1, Bounds DEF Id
<1>9. ea \in ChanEnd /\ eb \in ChanEnd
  BY <1>3, <1>7, <1>8 DEF ChanEnd
<1> HIDE DEF ea, eb
<1>10. /\ chans'[a] = Append(chans[a], ea) /\ chans'[b] = Append(chans[b], eb)
       /\ \A c \in Chain \ {a, b} : chans'[c] = chans[c]
  BY <1>1, <1>2, <1>3
<1>11. chans' \in [Chain -> Seq(ChanEnd)]
  <2>1. Append(chans[a], ea) \in Seq(ChanEnd) /\ Append(chans[b], eb) \in Seq(ChanEnd)
    BY <1>4, <1>9, Appended
  <2> QED BY <1>1, <1>2, <2>1
<1>12. /\ Len(chans'[a]) = x /\ DOMAIN chans'[a] = 1 .. m + 1 /\ chans'[a][x] = ea
       /\ Kept(chans[a], chans'[a])
  BY <1>4, <1>5, <1>7, <1>9, <1>10, Appended
<1>13. /\ Len(chans'[b]) = y /\ DOMAIN chans'[b] = 1 .. l + 1 /\ chans'[b][y] = eb
       /\ Kept(chans[b], chans'[b])
  BY <1>4, <1>6, <1>7, <1>9, <1>10, Appended
<1>14. \A c \in Chain : Len(chans'[c]) \in Id
  BY <1>7, <1>10, <1>12, <1>13 DEF ChainsFit
<1>15. ChainsFit'
  BY <1>1, <1>11, <1>14 DEF ChainsFit
<1>16. Grown
  <2>1. \A c \in Chain : Kept(chans[c], chans'[c])
    BY <1>10, <1>12, <1>13 DEF Kept
  <2> QED BY <1>1, <2>1 DEF Grown, Kept
<1>17. x \in 1 .. m + 1 /\ y \in 1 .. l + 1
  BY <1>5, <1>6, <1>7
<1> QED BY <1>1, <1>7, <1>12, <1>13, <1>15, <1>16, <1>17 DEF Moved, ea, eb

\* A record stays sound while the lists grow.
LEMMA RecordStays ==
  ASSUME HermesInv, Moved, NEW p \in Path, paths'[p] = paths[p], guessed'[p] = guessed[p]
  PROVE  RecordFits(paths[p], guessed[p])'
<1> DEFINE r == paths[p]
<1>1. r \in PathRec /\ RecordFits(r, guessed[p])
  BY DEF HermesInv, PathsFit
<1>2. r.chain["a"] \in Chain /\ r.chain["b"] \in Chain
  BY <1>1 DEF PathRec, End
<1>3. \A c \in Chain : /\ DOMAIN clients[c] \subseteq DOMAIN clients'[c]
                       /\ DOMAIN conns[c] \subseteq DOMAIN conns'[c]
                       /\ DOMAIN chans[c] \subseteq DOMAIN chans'[c]
                       /\ \A i \in DOMAIN clients[c] : clients'[c][i] = clients[c][i]
                       /\ \A i \in DOMAIN conns[c] : conns'[c][i] = conns[c][i]
                       /\ \A i \in DOMAIN chans[c] : chans'[c][i] = chans[c][i]
  BY DEF Moved, Grown, Kept
<1>4. ClientsSound(r) => ClientsSound(r)'
  BY <1>2, <1>3 DEF ClientsSound, ClientOf
<1>5. ConnSound(r) => ConnSound(r)'
  BY <1>2, <1>3 DEF ConnSound, ConnEndSound
<1>6. ChanSound(r) => ChanSound(r)'
  BY <1>2, <1>3 DEF ChanSound, ChanEndSound
<1> QED BY <1>1, <1>4, <1>5, <1>6 DEF RecordFits

LEMMA PathChanges ==
  ASSUME HermesInv, Moved, NEW q \in Path,
         paths' \in [Path -> PathRec], guessed' \in [Path -> BOOLEAN],
         \A p \in Path \ {q} : paths'[p] = paths[p] /\ guessed'[p] = guessed[p],
         RecordFits(paths[q], guessed[q])'
  PROVE  PathsFit'
<1>1. ASSUME NEW p \in Path PROVE RecordFits(paths[p], guessed[p])'
  <2>1. CASE p = q
    BY <2>1
  <2>2. CASE p # q
    BY <2>2, RecordStays
  <2> QED BY <2>1, <2>2
<1> QED BY <1>1 DEF PathsFit

LEMMA PathsStay == ASSUME HermesInv, Moved, UNCHANGED <<paths, guessed>> PROVE PathsFit'
<1>1. \A p \in Path : RecordFits(paths[p], guessed[p])'
  BY RecordStays
<1> QED BY <1>1 DEF HermesInv, PathsFit

LEMMA ReturnKeeps ==
  ASSUME HermesInv, Moved, NEW res \in {"ok", "err"}, Return(res), UNCHANGED <<paths, guessed>>,
         asked' \subseteq Chain \X Port \X (Id \ {0})
  PROVE  HermesInv'
<1>1. CallFits'
  BY Bounds DEF HermesInv, CallFits, Return
<1> QED BY <1>1, PathsStay DEF HermesInv, Moved

\* The path of the call in progress.
LEMMA ThisIs ==
  ASSUME HermesInv
  PROVE  /\ path \in Path /\ This = paths[path] /\ This \in PathRec /\ guessed[path] \in BOOLEAN
         /\ This.chain["a"] \in Chain /\ This.chain["b"] \in Chain
         /\ This.client["a"] \in Id /\ This.client["b"] \in Id
         /\ This.conn["a"] \in Id /\ This.conn["b"] \in Id
         /\ This.chan["a"] \in Id /\ This.chan["b"] \in Id
         /\ RecordFits(This, guessed[path])
  BY DEF HermesInv, PathsFit, CallFits, This, PathRec, Ids, End

LEMMA CreateClientAKeeps == ASSUME HermesInv, CreateClientA PROVE HermesInv'
<1> DEFINE host == This.chain["a"]
           ref  == This.chain["b"]
           m    == Len(clients[host]) + 1
<1>1. /\ pc = "client.a" /\ UNCHANGED asked
      /\ Command(NewClient(host, ref),
                 idA' = m /\ Goto("client.b") /\ UNCHANGED <<paths, guessed>>,
                 /\ idA' = 1 /\ guessed' = [guessed EXCEPT ![path] = TRUE]
                 /\ Goto("client.b") /\ UNCHANGED paths)
  BY DEF CreateClientA
<1>2. host \in Chain /\ ref \in Chain /\ host # ref
  BY <1>1, ThisIs DEF HermesInv, CallFits, RecordFits
<1> HIDE DEF host, ref
<1>3. NewClient(host, ref) => /\ Moved /\ m \in Id /\ m # 0
                              /\ m \in DOMAIN clients'[host] /\ clients'[host][m] = ref
  BY <1>2, NewClientGrows DEF HermesInv
<1>4. UNCHANGED chainVars => Moved
  BY Unmoved DEF HermesInv
<1>5. CASE NewClient(host, ref) /\ idA' = m /\ Goto("client.b") /\ UNCHANGED <<paths, guessed>>
  <2>1. ClientOf(This.chain["a"], idA, This.chain["b"])'
    BY <1>3, <1>5 DEF ClientOf, Goto, This, host, ref
  <2>2. idA' \in Id /\ idA' = m
    BY <1>3, <1>5
  <2> HIDE DEF m
  <2>3. CallFits'
    BY <1>1, <1>5, <2>1, <2>2 DEF HermesInv, CallFits, Goto, This
  <2> QED BY <1>3, <1>5, <2>3, PathsStay DEF HermesInv, Moved
<1>6. CASE /\ Moved /\ idA' = 1 /\ guessed' = [guessed EXCEPT ![path] = TRUE]
           /\ Goto("client.b") /\ UNCHANGED paths
  <2>1. /\ guessed' \in [Path -> BOOLEAN] /\ guessed'[path] = TRUE
        /\ \A p \in Path \ {path} : guessed'[p] = guessed[p]
    BY <1>6, ThisIs DEF HermesInv, PathsFit
  <2>2. CallFits'
    BY <1>1, <1>6, <2>1, Bounds DEF HermesInv, CallFits, Goto, This
  <2>3. RecordFits(paths[path], guessed[path])'
    <3>1. path' = path /\ paths'[path] = paths[path]
      BY <1>6 DEF Goto
    <3> QED BY <2>1, <3>1, ThisIs DEF RecordFits
  <2>4. path' = path /\ paths' \in [Path -> PathRec] /\ \A p \in Path : paths'[p] = paths[p]
    BY <1>6 DEF HermesInv, PathsFit, Goto
  <2>5. PathsFit'
    BY <1>6, <2>1, <2>3, <2>4, ThisIs, PathChanges
  <2> QED BY <1>6, <2>2, <2>5 DEF HermesInv, Moved
<1>7. CASE Moved /\ Return("err") /\ UNCHANGED <<paths, guessed>>
  <2>1. asked' \subseteq Chain \X Port \X (Id \ {0})
    BY <1>1 DEF HermesInv, CallFits
  <2> QED BY <1>7, <2>1, ReturnKeeps
<1> QED BY <1>1, <1>3, <1>4, <1>5, <1>6, <1>7 DEF Command

LEMMA CreateClientBKeeps == ASSUME HermesInv, CreateClientB PROVE HermesInv'
<1> DEFINE host == This.chain["b"]
           ref  == This.chain["a"]
           m    == Len(clients[host]) + 1
           Store(id) == paths' = [paths EXCEPT ![path].client = [a |-> idA, b |-> id]]
<1>1. /\ pc = "client.b" /\ UNCHANGED asked
      /\ Command(NewClient(host, ref),
                 Store(m) /\ Goto("conn") /\ UNCHANGED <<idA, guessed>>,
                 /\ Store(1) /\ guessed' = [guessed EXCEPT ![path] = TRUE]
                 /\ Goto("conn") /\ UNCHANGED idA)
  BY DEF CreateClientB
<1>2. host \in Chain /\ ref \in Chain /\ host # ref
  BY <1>1, ThisIs DEF HermesInv, CallFits, RecordFits
<1>3. /\ This.known /\ This.chan["a"] = 0 /\ This.conn["a"] = 0 /\ idA \in Id
      /\ ~guessed[path] => ClientOf(ref, idA, host)
  BY <1>1 DEF HermesInv, CallFits
<1> HIDE DEF host, ref
<1>4. NewClient(host, ref) => /\ Moved /\ m \in Id /\ m # 0
                              /\ m \in DOMAIN clients'[host] /\ clients'[host][m] = ref
  BY <1>2, NewClientGrows DEF HermesInv
<1>5. UNCHANGED chainVars => Moved
  BY Unmoved DEF HermesInv
<1>6. ASSUME NEW id \in Id, Store(id)
      PROVE  /\ paths' \in [Path -> PathRec] /\ \A p \in Path \ {path} : paths'[p] = paths[p]
             /\ paths'[path].known = This.known /\ paths'[path].chain = This.chain
             /\ paths'[path].client["a"] = idA /\ paths'[path].client["b"] = id
             /\ paths'[path].conn = This.conn /\ paths'[path].chan = This.chan
             /\ paths'[path].port = This.port
  <2>1. [a |-> idA, b |-> id] \in Ids
    BY <1>3, Ends DEF Ids
  <2>2. paths \in [Path -> PathRec]
    BY DEF HermesInv, PathsFit
  <2>3. /\ paths'[path] = [This EXCEPT !.client = [a |-> idA, b |-> id]]
        /\ \A p \in Path \ {path} : paths'[p] = paths[p]
    BY <1>6, <2>2, ThisIs
  <2>4. paths'[path] \in PathRec
    BY <2>1, <2>3, ThisIs DEF PathRec
  <2>5. paths' \in [Path -> PathRec]
    BY <1>6, <2>2, <2>3, <2>4
  <2> QED BY <2>3, <2>5, ThisIs DEF PathRec
<1> HIDE DEF m, Store
<1>7. CASE NewClient(host, ref) /\ Store(m) /\ Goto("conn") /\ UNCHANGED <<idA, guessed>>
  <2>1. m \in Id /\ Moved /\ path' = path
    BY <1>4, <1>7 DEF Goto
  <2>2. /\ paths' \in [Path -> PathRec] /\ \A p \in Path \ {path} : paths'[p] = paths[p]
        /\ paths'[path].known = This.known /\ paths'[path].chain = This.chain
        /\ paths'[path].client["a"] = idA /\ paths'[path].client["b"] = m
        /\ paths'[path].conn = This.conn /\ paths'[path].chan = This.chan
        /\ paths'[path].port = This.port
    BY <1>6, <1>7, <2>1
  <2>3. ~guessed[path] => (ClientsSound(paths[path]))'
    <3>1. ~guessed[path] => idA \in DOMAIN clients'[ref] /\ clients'[ref][idA] = host
      BY <1>2, <1>3, <2>1 DEF ClientOf, Moved, Grown, Kept
    <3> QED BY <1>4, <1>7, <2>1, <2>2, <3>1 DEF ClientsSound, ClientOf, host, ref
  <2>4. RecordFits(paths[path], guessed[path])'
    BY <1>3, <1>7, <2>1, <2>2, <2>3, ThisIs DEF RecordFits
  <2>5. PathsFit'
    BY <1>7, <2>1, <2>2, <2>4, ThisIs, PathChanges DEF HermesInv, PathsFit
  <2>6. CallFits'
    BY <1>1, <1>3, <1>7, <2>1, <2>2 DEF HermesInv, CallFits, Goto, This
  <2> QED BY <2>1, <2>5, <2>6 DEF HermesInv, Moved
<1>8. CASE /\ Moved /\ Store(1) /\ guessed' = [guessed EXCEPT ![path] = TRUE]
           /\ Goto("conn") /\ UNCHANGED idA
  <2>1. path' = path
    BY <1>8 DEF Goto
  <2>2. /\ paths' \in [Path -> PathRec] /\ \A p \in Path \ {path} : paths'[p] = paths[p]
        /\ paths'[path].known = This.known /\ paths'[path].chain = This.chain
        /\ paths'[path].conn = This.conn /\ paths'[path].chan = This.chan
        /\ paths'[path].port = This.port
    BY <1>6, <1>8, Bounds
  <2>3. /\ guessed' \in [Path -> BOOLEAN] /\ guessed'[path] = TRUE
        /\ \A p \in Path \ {path} : guessed'[p] = guessed[p]
    BY <1>8, ThisIs DEF HermesInv, PathsFit
  <2>4. RecordFits(paths[path], guessed[path])'
    BY <2>1, <2>2, <2>3, ThisIs DEF RecordFits
  <2>5. PathsFit'
    BY <1>8, <2>1, <2>2, <2>3, <2>4, ThisIs, PathChanges
  <2>6. CallFits'
    BY <1>1, <1>3, <1>8, <2>1, <2>2, <2>3 DEF HermesInv, CallFits, Goto, This
  <2> QED BY <1>8, <2>5, <2>6 DEF HermesInv, Moved
<1>9. CASE Moved /\ Return("err") /\ UNCHANGED <<paths, guessed>>
  <2>1. asked' \subseteq Chain \X Port \X (Id \ {0})
    BY <1>1 DEF HermesInv, CallFits
  <2> QED BY <1>9, <2>1, ReturnKeeps
<1> QED BY <1>1, <1>4, <1>5, <1>7, <1>8, <1>9 DEF Command

LEMMA CreateConnectionKeeps == ASSUME HermesInv, CreateConnection PROVE HermesInv'
<1> DEFINE a  == This.chain["a"]
           ca == This.client["a"]
           cb == This.client["b"]
           b  == clients[a][ca]
           x  == Len(conns[a]) + 1
           y  == Len(conns[b]) + 1
           Store(i, k) == paths' = [paths EXCEPT ![path].conn = [a |-> i, b |-> k]]
<1>1. /\ pc = "conn" /\ UNCHANGED asked
      /\ Command(NewConnection(a, ca, cb),
                 Store(x, y) /\ Goto("chan") /\ UNCHANGED <<idA, guessed>>,
                 /\ Store(1, 1) /\ guessed' = [guessed EXCEPT ![path] = TRUE]
                 /\ Goto("chan") /\ UNCHANGED idA)
  BY DEF CreateConnection
<1>2. This.known /\ This.chan["a"] = 0
  BY <1>1 DEF HermesInv, CallFits
<1>3. NewConnection(a, ca, cb) =>
        /\ Moved /\ x \in Id /\ y \in Id /\ x # 0
        /\ ClientOf(a, ca, b) /\ ClientOf(b, cb, a)
        /\ x \in DOMAIN conns'[a] /\ conns'[a][x] = [client |-> ca, chain |-> b, peer |-> y]
        /\ y \in DOMAIN conns'[b] /\ conns'[b][y] = [client |-> cb, chain |-> a, peer |-> x]
  BY ThisIs, NewConnectionGrows DEF HermesInv
<1>4. UNCHANGED chainVars => Moved
  BY Unmoved DEF HermesInv
<1> HIDE DEF x, y
<1>5. ASSUME NEW i \in Id, NEW k \in Id, Store(i, k)
      PROVE  /\ paths' \in [Path -> PathRec] /\ \A p \in Path \ {path} : paths'[p] = paths[p]
             /\ paths'[path].known = This.known /\ paths'[path].chain = This.chain
             /\ paths'[path].client = This.client
             /\ paths'[path].conn["a"] = i /\ paths'[path].conn["b"] = k
             /\ paths'[path].chan = This.chan /\ paths'[path].port = This.port
  <2>1. [a |-> i, b |-> k] \in Ids
    BY Ends DEF Ids
  <2>2. paths \in [Path -> PathRec]
    BY DEF HermesInv, PathsFit
  <2>3. /\ paths'[path] = [This EXCEPT !.conn = [a |-> i, b |-> k]]
        /\ \A p \in Path \ {path} : paths'[p] = paths[p]
    BY <1>5, <2>2, ThisIs
  <2>4. paths'[path] \in PathRec
    BY <2>1, <2>3, ThisIs DEF PathRec
  <2>5. paths' \in [Path -> PathRec]
    BY <1>5, <2>2, <2>3, <2>4
  <2> QED BY <2>3, <2>5, ThisIs DEF PathRec
<1> HIDE DEF Store
<1>6. CASE NewConnection(a, ca, cb) /\ Store(x, y) /\ Goto("chan") /\ UNCHANGED <<idA, guessed>>
  <2>1. x \in Id /\ y \in Id /\ x # 0 /\ Moved /\ path' = path
    BY <1>3, <1>6 DEF Goto
  <2>2. /\ paths' \in [Path -> PathRec] /\ \A p \in Path \ {path} : paths'[p] = paths[p]
        /\ paths'[path].known = This.known /\ paths'[path].chain = This.chain
        /\ paths'[path].client = This.client
        /\ paths'[path].conn["a"] = x /\ paths'[path].conn["b"] = y
        /\ paths'[path].chan = This.chan /\ paths'[path].port = This.port
    BY <1>5, <1>6, <2>1
  <2>3. ~guessed[path] => (ClientsSound(paths[path]))' /\ (ConnSound(paths[path]))'
    <3> SUFFICES ASSUME ~guessed[path]
                 PROVE  (ClientsSound(paths[path]))' /\ (ConnSound(paths[path]))'
      OBVIOUS
    <3>1. ca # 0
      <4>1. ca \in DOMAIN clients[a] /\ clients[a] \in Seq(Chain)
        BY <1>3, <1>6, ThisIs DEF ClientOf, HermesInv, ChainsFit
      <4>2. ca \in 1 .. Len(clients[a])
        BY <4>1
      <4> QED BY <4>2, ThisIs DEF Id
    <3>2. ClientsSound(This)
      BY <3>1, ThisIs DEF RecordFits
    <3>3. b = This.chain["b"]
      BY <3>2 DEF ClientsSound, ClientOf
    <3>4. (ClientsSound(paths[path]))'
      BY <2>1, <2>2, <3>2, ThisIs DEF ClientsSound, ClientOf, Moved, Grown, Kept
    <3>5. (ConnSound(paths[path]))'
      BY <1>3, <1>6, <2>1, <2>2, <3>3 DEF ConnSound, ConnEndSound
    <3> QED BY <3>4, <3>5
  <2>4. RecordFits(paths[path], guessed[path])'
    BY <1>2, <1>6, <2>1, <2>2, <2>3, ThisIs DEF RecordFits
  <2>5. PathsFit'
    BY <1>6, <2>1, <2>2, <2>4, ThisIs, PathChanges DEF HermesInv, PathsFit
  <2>6. CallFits'
    BY <1>1, <1>2, <1>6, <2>1, <2>2 DEF HermesInv, CallFits, Goto, This
  <2> QED BY <2>1, <2>5, <2>6 DEF HermesInv, Moved
<1>7. CASE /\ Moved /\ Store(1, 1) /\ guessed' = [guessed EXCEPT ![path] = TRUE]
           /\ Goto("chan") /\ UNCHANGED idA
  <2>1. path' = path
    BY <1>7 DEF Goto
  <2>2. /\ paths' \in [Path -> PathRec] /\ \A p \in Path \ {path} : paths'[p] = paths[p]
        /\ paths'[path].known = This.known /\ paths'[path].chain = This.chain
        /\ paths'[path].chan = This.chan /\ paths'[path].port = This.port
    BY <1>5, <1>7, Bounds
  <2>3. /\ guessed' \in [Path -> BOOLEAN] /\ guessed'[path] = TRUE
        /\ \A p \in Path \ {path} : guessed'[p] = guessed[p]
    BY <1>7, ThisIs DEF HermesInv, PathsFit
  <2>4. RecordFits(paths[path], guessed[path])'
    BY <2>1, <2>2, <2>3, ThisIs DEF RecordFits
  <2>5. PathsFit'
    BY <1>7, <2>1, <2>2, <2>3, <2>4, ThisIs, PathChanges
  <2>6. CallFits'
    BY <1>1, <1>2, <1>7, <2>1, <2>2, <2>3 DEF HermesInv, CallFits, Goto, This
  <2> QED BY <1>7, <2>5, <2>6 DEF HermesInv, Moved
<1>8. CASE Moved /\ Return("err") /\ UNCHANGED <<paths, guessed>>
  <2>1. asked' \subseteq Chain \X Port \X (Id \ {0})
    BY <1>1 DEF HermesInv, CallFits
  <2> QED BY <1>8, <2>1, ReturnKeeps
<1> QED BY <1>1, <1>3, <1>4, <1>6, <1>7, <1>8 DEF Command

LEMMA CreateChannelKeeps == ASSUME HermesInv, CreateChannel PROVE HermesInv'
<1> DEFINE a == This.chain["a"]
           k == This.conn["a"]
           b == conns[a][k].chain
           x == Len(chans[a]) + 1
           y == Len(chans[b]) + 1
           Store == paths' = [paths EXCEPT ![path].port = port,
                                           ![path].chan = [a |-> x, b |-> y]]
<1>1. /\ pc = "chan" /\ UNCHANGED asked
      /\ Command(NewChannel(a, k, port), Store /\ Linked /\ UNCHANGED guessed,
                 Return("err") /\ UNCHANGED <<paths, guessed>>)
  BY DEF CreateChannel
<1>2. This.known /\ port \in Port /\ link \in 0 .. Len(Links)
      /\ asked' \subseteq Chain \X Port \X (Id \ {0})
  BY <1>1 DEF HermesInv, CallFits
<1>3. NewChannel(a, k, port) =>
        /\ Moved /\ x \in Id /\ y \in Id /\ x # 0 /\ k \in DOMAIN conns[a]
        /\ x \in DOMAIN chans'[a]
        /\ chans'[a][x] = [conn |-> k, port |-> port, chain |-> b, peer |-> y]
        /\ b \in Chain =>
             /\ y \in DOMAIN chans'[b]
             /\ chans'[b][y] = [conn |-> conns[a][k].peer, port |-> port, chain |-> a, peer |-> x]
  <2> SUFFICES ASSUME NewChannel(a, k, port)
               PROVE  /\ Moved /\ x \in Id /\ y \in Id /\ x # 0 /\ k \in DOMAIN conns[a]
                      /\ x \in DOMAIN chans'[a]
                      /\ chans'[a][x] = [conn |-> k, port |-> port, chain |-> b, peer |-> y]
                      /\ b \in Chain =>
                           /\ y \in DOMAIN chans'[b]
                           /\ chans'[b][y] = [conn |-> conns[a][k].peer, port |-> port,
                                             chain |-> a, peer |-> x]
    OBVIOUS
  <2>1. a \in Chain /\ ChainsFit
    BY ThisIs DEF HermesInv
  <2>2. b = conns[a][k].chain /\ x = Len(chans[a]) + 1 /\ y = Len(chans[b]) + 1
    OBVIOUS
  <2> HIDE DEF a, k, b, x, y
  <2> QED BY <1>2, <2>1, <2>2, NewChannelGrows
<1>4. UNCHANGED chainVars => Moved
  BY Unmoved DEF HermesInv
<1> HIDE DEF x, y
<1>5. CASE NewChannel(a, k, port) /\ Store /\ Linked /\ UNCHANGED guessed
  <2>1. x \in Id /\ y \in Id /\ x # 0 /\ Moved /\ path' = path
    BY <1>3, <1>5 DEF Linked, Return
  <2>2. /\ paths' \in [Path -> PathRec] /\ \A p \in Path \ {path} : paths'[p] = paths[p]
        /\ paths'[path].known = This.known /\ paths'[path].chain = This.chain
        /\ paths'[path].client = This.client /\ paths'[path].conn = This.conn
        /\ paths'[path].chan["a"] = x /\ paths'[path].chan["b"] = y
        /\ paths'[path].port = port
    <3>1. [a |-> x, b |-> y] \in Ids
      BY <2>1, Ends DEF Ids
    <3>2. paths \in [Path -> PathRec]
      BY DEF HermesInv, PathsFit
    <3>3. /\ paths'[path] = [This EXCEPT !.port = port, !.chan = [a |-> x, b |-> y]]
          /\ \A p \in Path \ {path} : paths'[p] = paths[p]
      BY <1>5, <3>2, ThisIs
    <3>4. paths'[path] \in PathRec
      BY <1>2, <3>1, <3>3, ThisIs DEF PathRec
    <3>5. paths' \in [Path -> PathRec]
      BY <1>5, <3>2, <3>3, <3>4
    <3> QED BY <3>3, <3>5, ThisIs DEF PathRec
  <2>3. ASSUME ~guessed[path]
        PROVE  /\ (ClientsSound(paths[path]))' /\ (ConnSound(paths[path]))'
               /\ (ChanSound(paths[path]))'
    <3>1. k # 0
      <4>1. k \in DOMAIN conns[a] /\ conns[a] \in Seq(ConnEnd)
        BY <1>3, <1>5, ThisIs DEF HermesInv, ChainsFit
      <4>2. k \in 1 .. Len(conns[a])
        BY <4>1
      <4> QED BY <4>2, ThisIs DEF Id
    <3>2. ClientsSound(This) /\ ConnSound(This)
      BY <2>3, <3>1, ThisIs DEF RecordFits
    <3>3. b = This.chain["b"] /\ conns[a][k].peer = This.conn["b"]
      BY <3>2 DEF ConnSound, ConnEndSound
    <3>4. (ClientsSound(paths[path]))'
      BY <2>1, <2>2, <3>2, ThisIs DEF ClientsSound, ClientOf, Moved, Grown, Kept
    <3>5. (ConnSound(paths[path]))'
      BY <2>1, <2>2, <3>2, ThisIs DEF ConnSound, ConnEndSound, Moved, Grown, Kept
    <3>6. (ChanSound(paths[path]))'
      BY <1>3, <1>5, <2>1, <2>2, <3>3, ThisIs DEF ChanSound, ChanEndSound
    <3> QED BY <3>4, <3>5, <3>6
  <2>4. RecordFits(paths[path], guessed[path])'
    <3>1. port # "none"
      BY <1>2 DEF Port
    <3> QED BY <1>5, <2>1, <2>2, <2>3, <3>1, ThisIs DEF RecordFits
  <2>5. PathsFit'
    BY <1>5, <2>1, <2>2, <2>4, ThisIs, PathChanges DEF HermesInv, PathsFit
  <2>6. CallFits'
    <3>1. CASE link = 0
      BY <1>2, <1>5, <3>1, Bounds DEF HermesInv, CallFits, Linked, Return
    <3>2. CASE link # 0
      <4>1. link' = link + 1 /\ link' \in 0 .. Len(Links) + 1
        BY <1>2, <1>5, <3>2, Bounds DEF Linked
      <4> QED BY <1>2, <1>5, <3>2, <4>1, Bounds DEF HermesInv, CallFits, Linked
    <3> QED BY <3>1, <3>2
  <2> QED BY <2>1, <2>5, <2>6 DEF HermesInv, Moved
<1>6. CASE Moved /\ Return("err") /\ UNCHANGED <<paths, guessed>>
  BY <1>2, <1>6, ReturnKeeps
<1> QED BY <1>1, <1>3, <1>4, <1>5, <1>6 DEF Command

\* What flush clears of an end is the name of a channel end.
LEMMA FlushEndNamed ==
  ASSUME HermesInv, NEW e \in End PROVE FlushEnd(e) \subseteq Chain \X Port \X (Id \ {0})
<1> DEFINE ch == IF e = "b" /\ This.chan["b"] # 0 THEN This.chan["b"] ELSE channel
<1>1. FlushEnd(e) = IF This.port = "none" \/ ch = 0 THEN {} ELSE {<<This.chain[e], This.port, ch>>}
  BY DEF FlushEnd
<1>2. ch \in Id /\ This.chain[e] \in Chain /\ This.port \in Port \cup {"none"}
  BY ThisIs DEF HermesInv, CallFits, PathRec, End
<1> HIDE DEF ch
<1> QED BY <1>1, <1>2

\* Steps that only touch the call.
LEMMA CallOnly ==
  ASSUME HermesInv, UNCHANGED <<chainVars, paths, guessed>>, CallFits' PROVE HermesInv'
  BY Unmoved, PathsStay DEF HermesInv, Moved

LEMMA CreateIbcPathsKeeps == ASSUME HermesInv, CreateIbcPaths PROVE HermesInv'
<1>1. CallFits'
  BY Bounds DEF HermesInv, CallFits, CreateIbcPaths
<1> QED BY <1>1, CallOnly DEF CreateIbcPaths

LEMMA AllLinkedKeeps == ASSUME HermesInv, AllLinked PROVE HermesInv'
<1>1. CallFits'
  BY Bounds DEF HermesInv, CallFits, AllLinked, Return
<1> QED BY <1>1, CallOnly DEF AllLinked

LEMMA GeneratePathKeeps == ASSUME HermesInv, GeneratePath PROVE HermesInv'
<1> DEFINE l == Links[link]
           r == [NoPath EXCEPT !.known = TRUE, !.chain = [a |-> l.chain1, b |-> l.chain2]]
<1>1. /\ pc = "link" /\ link \in DOMAIN Links /\ path' = l.path
      /\ paths' = [paths EXCEPT ![l.path] = r]
      /\ guessed' = [guessed EXCEPT ![l.path] = FALSE]
      /\ pc' = "client.a" /\ port' = "transfer"
      /\ UNCHANGED <<chainVars, link, idA, channel, asked, ret>>
  BY DEF GeneratePath
<1>2. l.path \in Path /\ l.chain1 \in Chain /\ l.chain2 \in Chain /\ l.chain1 # l.chain2
  <2>1. \A i \in DOMAIN Links : Links[i] \in [path : Path, chain1 : Chain, chain2 : Chain]
    <3> DEFINE S == [path : Path, chain1 : Chain, chain2 : Chain]
    <3>1. Links \in Seq(S)
      BY LinksAssumption
    <3> HIDE DEF S
    <3>2. \A i \in DOMAIN Links : Links[i] \in S
      BY <3>1
    <3> QED BY <3>2 DEF S
  <2>2. l \in [path : Path, chain1 : Chain, chain2 : Chain]
    BY <1>1, <2>1
  <2> QED BY <1>1, <2>2, LinksAssumption
<1>3. NoPath \in PathRec /\ NoPath.conn["a"] = 0 /\ NoPath.chan["a"] = 0 /\ NoPath.client["a"] = 0
  BY RelayersAssumption, Bounds DEF NoPath, NoIds, PathRec, Ids, End
<1>4. /\ r \in PathRec /\ r.known = TRUE /\ r.chain["a"] = l.chain1 /\ r.chain["b"] = l.chain2
      /\ r.conn = NoPath.conn /\ r.chan = NoPath.chan /\ r.client = NoPath.client
  BY <1>2, <1>3, Ends DEF PathRec
<1>5. /\ paths' \in [Path -> PathRec] /\ paths'[l.path] = r
      /\ \A p \in Path \ {l.path} : paths'[p] = paths[p]
  BY <1>1, <1>2, <1>4 DEF HermesInv, PathsFit
<1>6. /\ guessed' \in [Path -> BOOLEAN]
      /\ \A p \in Path \ {l.path} : guessed'[p] = guessed[p]
  BY <1>1, <1>2 DEF HermesInv, PathsFit
<1>7. Moved
  BY <1>1, Unmoved DEF HermesInv
<1>8. PICK q \in Path : q = l.path
  BY <1>2
<1> HIDE DEF r
<1>9. RecordFits(paths[q], guessed[q])'
  BY <1>2, <1>3, <1>4, <1>5, <1>8 DEF RecordFits
<1>10. PathsFit'
  BY <1>5, <1>6, <1>7, <1>8, <1>9, PathChanges
<1>11. link' \in 0 .. Len(Links) /\ link' \in 0 .. Len(Links) + 1
  <2>1. DOMAIN Links = 1 .. Len(Links)
    BY LinksAssumption
  <2> QED BY <1>1, <2>1, Bounds
<1>12. CallFits'
  BY <1>1, <1>2, <1>3, <1>4, <1>5, <1>11 DEF HermesInv, CallFits, This, Port
<1> QED BY <1>7, <1>10, <1>12 DEF HermesInv, Moved

LEMMA ExtraChannelKeeps == ASSUME HermesInv, ExtraChannel PROVE HermesInv'
<1>1. CallFits'
  BY Bounds DEF HermesInv, CallFits, ExtraChannel, Port, This
<1> QED BY <1>1, CallOnly DEF ExtraChannel

LEMMA FlushKeeps == ASSUME HermesInv, Flush PROVE HermesInv'
<1>1. CallFits'
  BY Bounds DEF HermesInv, CallFits, Flush, This
<1> QED BY <1>1, CallOnly DEF Flush

LEMMA FlushNearKeeps == ASSUME HermesInv, FlushNear PROVE HermesInv'
<1>1. /\ pc = "flush.a" /\ asked = {} /\ UNCHANGED <<chainVars, paths, guessed>>
      /\ \/ asked' = asked \cup FlushEnd("a") /\ Goto("flush.b") /\ UNCHANGED idA
         \/ UNCHANGED asked /\ Return("err")
  BY DEF FlushNear, FlushStep, HermesInv, CallFits
<1>2. CASE asked' = asked \cup FlushEnd("a") /\ Goto("flush.b") /\ UNCHANGED idA
  <2>1. FlushEnd("a") \subseteq Chain \X Port \X (Id \ {0})
    BY FlushEndNamed DEF End
  <2>2. asked' = FlushEnd("a") /\ FlushEnd("a")' = FlushEnd("a")
    BY <1>1, <1>2 DEF FlushEnd, This, Goto
  <2>3. CallFits'
    BY <1>1, <1>2, <2>1, <2>2 DEF HermesInv, CallFits, Goto, This
  <2> QED BY <1>1, <2>3, CallOnly
<1>3. CASE UNCHANGED asked /\ Return("err")
  <2>1. CallFits'
    BY <1>1, <1>3, Bounds DEF HermesInv, CallFits, Return
  <2> QED BY <1>1, <2>1, CallOnly
<1> QED BY <1>1, <1>2, <1>3

LEMMA FlushFarKeeps == ASSUME HermesInv, FlushFar PROVE HermesInv'
<1>1. PICK res \in {"ok", "err"} :
        /\ pc = "flush.b" /\ UNCHANGED <<chainVars, paths, guessed>>
        /\ asked' \in {asked, asked \cup FlushEnd("b")} /\ Return(res)
  BY DEF FlushFar, FlushStep
<1>2. asked' \subseteq Chain \X Port \X (Id \ {0})
  BY <1>1, FlushEndNamed DEF End, HermesInv, CallFits
<1>3. Moved
  BY <1>1, Unmoved DEF HermesInv
<1> QED BY <1>1, <1>2, <1>3, ReturnKeeps

LEMMA HermesSteps == HermesInv /\ [Next]_vars => HermesInv'
<1> SUFFICES ASSUME HermesInv, [Next]_vars
             PROVE  HermesInv'
  OBVIOUS
<1>1. CASE CreateIbcPaths \/ GeneratePath \/ AllLinked
  BY <1>1, CreateIbcPathsKeeps, GeneratePathKeeps, AllLinkedKeeps
<1>2. CASE CreateClientA \/ CreateClientB \/ CreateConnection \/ CreateChannel
  BY <1>2, CreateClientAKeeps, CreateClientBKeeps, CreateConnectionKeeps, CreateChannelKeeps
<1>3. CASE ExtraChannel \/ Flush \/ FlushNear \/ FlushFar
  BY <1>3, ExtraChannelKeeps, FlushKeeps, FlushNearKeeps, FlushFarKeeps
<1>4. CASE UNCHANGED vars
  <2>1. UNCHANGED <<chainVars, paths, guessed>>
    BY <1>4 DEF vars
  <2>2. CallFits'
    BY <1>4 DEF HermesInv, CallFits, vars, chainVars, locals, This, ClientOf, FlushEnd
  <2> QED BY <2>1, <2>2, CallOnly
<1> QED BY <1>1, <1>2, <1>3, <1>4 DEF Next

LEMMA HermesStarts == Init => HermesInv
<1> SUFFICES ASSUME Init
             PROVE  HermesInv
  OBVIOUS
<1>1. NoPath \in PathRec /\ ~NoPath.known
      /\ NoPath.conn["a"] = 0 /\ NoPath.chan["a"] = 0 /\ NoPath.client["a"] = 0
  BY RelayersAssumption, Bounds DEF NoPath, NoIds, PathRec, Ids, End
<1>2. ChainsFit
  <2>1. <<>> \in Seq(Chain) /\ <<>> \in Seq(ConnEnd) /\ <<>> \in Seq(ChanEnd) /\ Len(<<>>) = 0
    OBVIOUS
  <2>2. \A c \in Chain : clients[c] = <<>> /\ conns[c] = <<>> /\ chans[c] = <<>>
    BY DEF Init
  <2>3. /\ clients \in [Chain -> Seq(Chain)] /\ conns \in [Chain -> Seq(ConnEnd)]
        /\ chans \in [Chain -> Seq(ChanEnd)]
    BY <2>1 DEF Init
  <2> QED BY <2>1, <2>2, <2>3, Bounds DEF ChainsFit
<1>3. PathsFit
  <2>1. \A p \in Path : paths[p] = NoPath
    BY DEF Init
  <2>2. paths \in [Path -> PathRec] /\ guessed \in [Path -> BOOLEAN]
    BY <1>1 DEF Init
  <2>3. ASSUME NEW p \in Path PROVE RecordFits(paths[p], guessed[p])
    BY <1>1, <2>1 DEF RecordFits
  <2> QED BY <2>2, <2>3 DEF PathsFit
<1>4. CallFits
  BY Bounds DEF Init, CallFits, Port
<1> QED BY <1>2, <1>3, <1>4 DEF HermesInv

LEMMA HermesInvariant == Spec => []HermesInv
  BY HermesStarts, HermesSteps, PTL DEF Spec

LEMMA HermesTyped == Spec => []TypeOK
<1>1. HermesInv => TypeOK
  <2> SUFFICES ASSUME HermesInv
               PROVE  TypeOK
    OBVIOUS
  <2>1. \A c \in Chain : /\ Len(clients[c]) \in Id /\ clients[c] \in Seq(Chain)
                         /\ Len(conns[c]) \in Id   /\ conns[c] \in Seq(ConnEnd)
                         /\ Len(chans[c]) \in Id   /\ chans[c] \in Seq(ChanEnd)
    BY DEF HermesInv, ChainsFit
  <2>2. paths \in [Path -> [known : BOOLEAN, chain : [End -> Chain], client : Ids,
                            conn : Ids, chan : Ids, port : Port \cup {"none"}]]
    BY DEF HermesInv, PathsFit, PathRec
  <2> QED BY <2>1, <2>2 DEF TypeOK, HermesInv, CallFits, PathsFit
<1> QED BY <1>1, HermesInvariant, PTL

\* A path that has a channel is what its record says, unless an identifier was
\* guessed (create_clients to create_channel of relayer/hermes.rs).
THEOREM LinkedAlwaysSound == Spec => []LinkedPathIsSound
<1>1. HermesInv => LinkedPathIsSound
  <2> SUFFICES ASSUME HermesInv, NEW p \in Path, HasChannel(p), ~guessed[p]
               PROVE  Sound(p)
    BY DEF LinkedPathIsSound
  <2>1. ClientsSound(paths[p]) /\ ConnSound(paths[p]) /\ ChanSound(paths[p])
    BY DEF HermesInv, PathsFit, RecordFits, HasChannel
  <2> QED BY <2>1 DEF Sound, ClientsSound, ConnSound, ConnEndSound, ChanSound, ChanEndSound
<1> QED BY <1>1, HermesInvariant, PTL

\* A flush that returns Ok has asked for both ends of the recorded channel,
\* each under its own id (flush of relayer/hermes.rs).
THEOREM FlushAlwaysReaches == Spec => FlushReachesBothEnds
<1> DEFINE Reaches ==
      LET a == This.chain["a"]
      IN  pc = "flush.b" /\ ret' = "ok" /\ channel = This.chan["a"] /\ ~guessed[path] =>
            asked' = {<<a, This.port, channel>>,
                      <<This.chain["b"], This.port, chans[a][channel].peer>>}
<1>1. HermesInv /\ [Next]_vars => [Reaches]_vars
  <2> SUFFICES ASSUME HermesInv, Next, pc = "flush.b", ret' = "ok",
                      channel = This.chan["a"], ~guessed[path]
               PROVE  asked' = {<<This.chain["a"], This.port, channel>>,
                                <<This.chain["b"], This.port, chans[This.chain["a"]][channel].peer>>}
    OBVIOUS
  <2>1. FlushFar
    BY DEF Next, CreateIbcPaths, GeneratePath, AllLinked, CreateClientA, CreateClientB,
           CreateConnection, CreateChannel, ExtraChannel, Flush, FlushNear, FlushStep
  <2>2. asked' = asked \cup FlushEnd("b")
    BY <2>1 DEF FlushFar, FlushStep, Return
  <2>3. asked = FlushEnd("a") /\ channel # 0
    BY DEF HermesInv, CallFits
  <2>4. ChanSound(This) /\ This.port # "none"
    BY <2>3, ThisIs DEF RecordFits
  <2>5. This.chan["b"] = chans[This.chain["a"]][channel].peer
    BY <2>4 DEF ChanSound, ChanEndSound
  <2>6. This.chan["b"] # 0
    <3>1. /\ This.chan["b"] \in DOMAIN chans[This.chain["b"]]
          /\ chans[This.chain["b"]] \in Seq(ChanEnd)
      BY <2>4, ThisIs DEF ChanSound, ChanEndSound, HermesInv, ChainsFit
    <3>2. This.chan["b"] \in 1 .. Len(chans[This.chain["b"]])
      BY <3>1
    <3> QED BY <3>2, ThisIs DEF Id
  <2> QED BY <2>2, <2>3, <2>4, <2>5, <2>6 DEF FlushEnd
<1>2. Spec => [][Reaches]_vars
  BY <1>1, HermesInvariant, PTL DEF Spec
<1> QED BY <1>2 DEF FlushReachesBothEnds

-----------------------------------------------------------------------------
(* Chains and keys: TypeOK, ConfigComplete, KeyMatches of RelayerSetup.    *)

InHermes == {"clone", "write", "check", "phrase", "key", "rphrase", "rkey"}
InRly    == {"json", "add", "rlykey", "rlyrestore"}

\* The calls in progress: of this relayer, numbered, and known to each other
\* when they are at the same thing.
CallsFit ==
  \A t \in Task : setupPc[t] # "idle" =>
    /\ n[t] # 0
    /\ IF setupPc[t] \in InHermes THEN flavor = "hermes" ELSE flavor = "rly"
    /\ alone[t] => \A u \in Task \ {t} :
         /\ setupPc[t] \in Setup!Adding => setupPc[u] \notin Setup!Adding
         /\ setupPc[t] \in Setup!Keying => ~(setupPc[u] \in Setup!Keying /\ arg[u] = arg[t])

\* s is how r began.
Prefix(s, r) == DOMAIN s \subseteq DOMAIN r /\ \A i \in DOMAIN s : s[i] = r[i]

Has(s, c) == \E i \in DOMAIN s : s[i] = c

\* Hermes: the chains in memory are those of all calls, file and clones are
\* earlier states of it, and what a call has accepted is in its clone.  A call
\* that met no other writes all that was accepted before, and validates the
\* file it has written.
Remembered ==
  /\ \A t \in Task : setupPc[t] \in {"clone", "write", "check"} => Has(mem, arg[t])
  /\ \A c \in known : Has(mem, c)
  /\ Prefix(file, mem) /\ \A t \in Task : Prefix(conf[t], mem)
  /\ \A t \in Task : setupPc[t] = "write" =>
       /\ Has(conf[t], arg[t])
       /\ alone[t] => \A c \in known : Has(conf[t], c)
  /\ clean => \A c \in known : Has(file, c)
  /\ \A t \in Task : setupPc[t] = "check" /\ alone[t] /\ clean => Has(file, arg[t])

\* A mnemonic file is the call's own, or gone, while the call meets no other.
OwnPhrase ==
  \A t \in Task : setupPc[t] \in {"key", "rkey"} /\ alone[t] => phrase[arg[t]] \in {0, n[t]}

SetupInv ==
  /\ Setup!TypeOK /\ conf \in [Task -> Seq(Configured)] /\ CallsFit /\ OwnPhrase /\ Setup!KeyMatches
  /\ flavor = "hermes" => Remembered

LEMMA Stages ==
  /\ InHermes \cap InRly = {} /\ Setup!Adding \cap Setup!Keying = {}
  /\ InHermes \cup InRly = Setup!Adding \cup Setup!Keying /\ "idle" \notin Setup!Adding \cup Setup!Keying
  BY DEF InHermes, InRly, Setup!Adding, Setup!Keying

\* A call that begins.
LEMMA EnterKeeps ==
  ASSUME SetupInv, NEW t \in Task, NEW c \in Configured, NEW stage \in {Setup!Adding, Setup!Keying},
         NEW step \in stage, Setup!Enter(t, c, step, stage), UNCHANGED flavor,
         IF step \in InHermes THEN flavor = "hermes" ELSE flavor = "rly"
  PROVE  /\ setupPc[t] = "idle" /\ setupPc'[t] = step /\ arg'[t] = c /\ n'[t] # 0
         /\ \A u \in Task \ {t} :
              setupPc'[u] = setupPc[u] /\ arg'[u] = arg[u] /\ n'[u] = n[u] /\ (alone'[u] => alone[u])
         /\ calls' \in Setup!Num /\ setupPc' \in [Task -> {"idle"} \cup Setup!Adding \cup Setup!Keying]
         /\ arg' \in [Task -> Configured] /\ n' \in [Task -> Setup!Num] /\ alone' \in [Task -> BOOLEAN]
         /\ CallsFit'
<1> DEFINE rivals == Setup!Rivals(t, c, stage)
<1> USE DEF SetupInv
<1>1. /\ setupPc \in [Task -> {"idle"} \cup Setup!Adding \cup Setup!Keying] /\ arg \in [Task -> Configured]
      /\ n \in [Task -> Setup!Num] /\ calls \in Setup!Num /\ alone \in [Task -> BOOLEAN]
  BY DEF Setup!TypeOK
<1>2. /\ setupPc[t] = "idle" /\ calls < MaxSetups /\ calls' = calls + 1
      /\ setupPc' = [setupPc EXCEPT ![t] = step] /\ arg' = [arg EXCEPT ![t] = c]
      /\ n' = [n EXCEPT ![t] = calls + 1]
      /\ alone' = [u \in Task |-> IF u = t THEN rivals = {} ELSE alone[u] /\ u \notin rivals]
  BY DEF Setup!Enter
<1>3. calls' \in Setup!Num /\ calls' # 0
  BY <1>1, <1>2, RelayersAssumption DEF Setup!Num
<1>4. setupPc' \in [Task -> {"idle"} \cup Setup!Adding \cup Setup!Keying] /\ arg' \in [Task -> Configured]
  BY <1>1, <1>2
<1>5. n' \in [Task -> Setup!Num]
  BY <1>1, <1>2, <1>3
<1>6. alone' \in [Task -> BOOLEAN]
  BY <1>1, <1>2
<1>7. setupPc'[t] = step /\ arg'[t] = c /\ n'[t] # 0 /\ (alone'[t] <=> rivals = {})
  BY <1>1, <1>2, <1>3
<1>8. \A u \in Task \ {t} : /\ setupPc'[u] = setupPc[u] /\ arg'[u] = arg[u] /\ n'[u] = n[u]
                            /\ alone'[u] => alone[u] /\ u \notin rivals
  BY <1>1, <1>2
<1>9. CallsFit'
  <2> SUFFICES ASSUME NEW u \in Task, setupPc'[u] # "idle"
               PROVE  /\ n'[u] # 0
                      /\ IF setupPc'[u] \in InHermes THEN flavor' = "hermes" ELSE flavor' = "rly"
                      /\ alone'[u] => \A v \in Task \ {u} :
                           /\ setupPc'[u] \in Setup!Adding => setupPc'[v] \notin Setup!Adding
                           /\ setupPc'[u] \in Setup!Keying => ~(setupPc'[v] \in Setup!Keying /\ arg'[v] = arg'[u])
    BY DEF CallsFit
  <2>1. CASE u = t
    <3>1. n'[u] # 0 /\ IF setupPc'[u] \in InHermes THEN flavor' = "hermes" ELSE flavor' = "rly"
      BY <2>1, <1>7
    <3>2. ASSUME alone'[u], NEW v \in Task \ {u}
          PROVE  /\ setupPc'[u] \in Setup!Adding => setupPc'[v] \notin Setup!Adding
                 /\ setupPc'[u] \in Setup!Keying => ~(setupPc'[v] \in Setup!Keying /\ arg'[v] = arg'[u])
      <4>1. v \notin rivals
        BY <3>2, <2>1, <1>7
      <4>2. ~(setupPc[v] \in stage /\ (stage = Setup!Adding \/ arg[v] = c))
        BY <4>1, <3>2, <2>1 DEF Setup!Rivals
      <4> QED BY <4>2, <3>2, <2>1, <1>7, <1>8, Stages
    <3> QED BY <3>1, <3>2
  <2>2. CASE u # t
    <3>1. setupPc[u] # "idle" /\ n'[u] # 0
          /\ IF setupPc'[u] \in InHermes THEN flavor' = "hermes" ELSE flavor' = "rly"
      BY <2>2, <1>8 DEF CallsFit
    <3>2. ASSUME alone'[u], NEW v \in Task \ {u}
          PROVE  /\ setupPc'[u] \in Setup!Adding => setupPc'[v] \notin Setup!Adding
                 /\ setupPc'[u] \in Setup!Keying => ~(setupPc'[v] \in Setup!Keying /\ arg'[v] = arg'[u])
      <4>1. CASE v = t
        <5>1. u \notin rivals
          BY <3>2, <2>2, <1>8
        <5>2. ~(setupPc[u] \in stage /\ (stage = Setup!Adding \/ arg[u] = c))
          BY <5>1, <2>2 DEF Setup!Rivals
        <5> QED BY <5>2, <4>1, <2>2, <1>7, <1>8, Stages
      <4>2. CASE v # t
        BY <4>2, <3>2, <3>1, <2>2, <1>8 DEF CallsFit
      <4> QED BY <4>1, <4>2
    <3> QED BY <3>1, <3>2
  <2> QED BY <2>1, <2>2
<1> QED BY <1>2, <1>3, <1>4, <1>5, <1>6, <1>7, <1>8, <1>9

\* A call that goes on at the same thing, or ends.
LEMMA GotoKeeps ==
  ASSUME SetupInv, NEW t \in Task, NEW step, Setup!Goto(t, step),
         \/ step = "idle"
         \/ setupPc[t] \in Setup!Adding \cap InHermes /\ step \in Setup!Adding \cap InHermes
         \/ setupPc[t] \in Setup!Adding \cap InRly /\ step \in Setup!Adding \cap InRly
         \/ setupPc[t] \in Setup!Keying \cap InHermes /\ step \in Setup!Keying \cap InHermes,
         UNCHANGED <<flavor, arg, n, alone>>
  PROVE  /\ setupPc' \in [Task -> {"idle"} \cup Setup!Adding \cup Setup!Keying] /\ setupPc'[t] = step
         /\ \A u \in Task \ {t} : setupPc'[u] = setupPc[u]
         /\ CallsFit'
<1> USE DEF SetupInv
<1>1. setupPc \in [Task -> {"idle"} \cup Setup!Adding \cup Setup!Keying] /\ setupPc' = [setupPc EXCEPT ![t] = step]
  BY DEF Setup!TypeOK, Setup!Goto
<1>2. setupPc' \in [Task -> {"idle"} \cup Setup!Adding \cup Setup!Keying] /\ setupPc'[t] = step
      /\ \A u \in Task \ {t} : setupPc'[u] = setupPc[u]
  BY <1>1
<1>3. CallsFit'
  <2> SUFFICES ASSUME NEW u \in Task, setupPc'[u] # "idle"
               PROVE  /\ n[u] # 0
                      /\ IF setupPc'[u] \in InHermes THEN flavor = "hermes" ELSE flavor = "rly"
                      /\ alone[u] => \A v \in Task \ {u} :
                           /\ setupPc'[u] \in Setup!Adding => setupPc'[v] \notin Setup!Adding
                           /\ setupPc'[u] \in Setup!Keying => ~(setupPc'[v] \in Setup!Keying /\ arg[v] = arg[u])
    BY DEF CallsFit
  <2>1. setupPc[u] # "idle"
    BY <1>2, Stages
  <2>2. /\ setupPc[u] \in Setup!Adding <=> setupPc'[u] \in Setup!Adding
        /\ setupPc[u] \in Setup!Keying <=> setupPc'[u] \in Setup!Keying
        /\ setupPc[u] \in InHermes <=> setupPc'[u] \in InHermes
    BY <1>2, Stages
  <2>3. \A v \in Task : /\ setupPc'[v] \in Setup!Adding => setupPc[v] \in Setup!Adding
                        /\ setupPc'[v] \in Setup!Keying => setupPc[v] \in Setup!Keying
    BY <1>2, Stages
  <2> QED BY <2>1, <2>2, <2>3 DEF CallsFit
<1> QED BY <1>2, <1>3

\* What a step that leaves the keys alone, or the config, has to say of the
\* calls that are at them.
KeysRest ==
  /\ UNCHANGED <<flavor, phrase, keys, wallet, firm>>
  /\ \A u \in Task : setupPc'[u] \in {"key", "rkey"} /\ alone'[u] =>
       setupPc[u] = setupPc'[u] /\ alone[u] /\ arg'[u] = arg[u] /\ n'[u] = n[u]

ConfigRests ==
  /\ UNCHANGED <<flavor, mem, file, conf, known, clean>>
  /\ \A u \in Task : setupPc'[u] \in {"clone", "write", "check"} =>
       setupPc[u] = setupPc'[u] /\ arg'[u] = arg[u] /\ (alone'[u] => alone[u])

LEMMA KeysStay == ASSUME SetupInv, KeysRest PROVE OwnPhrase' /\ Setup!KeyMatches'
<1>1. OwnPhrase'
  BY DEF SetupInv, KeysRest, OwnPhrase
<1>2. Setup!KeyMatches'
  BY DEF SetupInv, KeysRest, Setup!KeyMatches
<1> QED BY <1>1, <1>2

LEMMA ConfigStays ==
  ASSUME SetupInv, ConfigRests PROVE flavor' = "hermes" => Remembered'
<1> SUFFICES ASSUME flavor = "hermes"
             PROVE  Remembered'
  BY DEF ConfigRests
<1>1. Remembered
  BY DEF SetupInv
<1>2. \A t \in Task : setupPc'[t] \in {"clone", "write", "check"} => Has(mem, arg'[t])
  BY <1>1 DEF ConfigRests, Remembered
<1>3. \A t \in Task : setupPc'[t] = "write" =>
        /\ Has(conf[t], arg'[t])
        /\ alone'[t] => \A c \in known : Has(conf[t], c)
  BY <1>1 DEF ConfigRests, Remembered
<1>4. \A t \in Task : setupPc'[t] = "check" /\ alone'[t] /\ clean => Has(file, arg'[t])
  BY <1>1 DEF ConfigRests, Remembered
<1>5. \A c \in known : Has(mem, c)
  BY <1>1 DEF Remembered
<1>6. Prefix(file, mem) /\ \A t \in Task : Prefix(conf[t], mem)
  BY <1>1 DEF Remembered
<1>7. clean => \A c \in known : Has(file, c)
  BY <1>1 DEF Remembered
<1> QED BY <1>2, <1>3, <1>4, <1>5, <1>6, <1>7 DEF ConfigRests, Remembered, Has, Prefix

LEMMA PrefixKept ==
  ASSUME NEW r \in Seq(Configured), NEW c \in Configured
  PROVE  /\ Append(r, c) \in Seq(Configured) /\ Prefix(r, Append(r, c)) /\ Has(Append(r, c), c)
         /\ \A s : Prefix(s, r) => Prefix(s, Append(r, c))
         /\ \A d : Has(r, d) => Has(Append(r, c), d)
<1>1. /\ Append(r, c) \in Seq(Configured) /\ Len(r) \in Nat /\ DOMAIN r = 1 .. Len(r)
      /\ DOMAIN Append(r, c) = 1 .. Len(r) + 1
      /\ Append(r, c)[Len(r) + 1] = c /\ \A i \in 1 .. Len(r) : Append(r, c)[i] = r[i]
  OBVIOUS
<1>2. Prefix(r, Append(r, c))
  BY <1>1 DEF Prefix
<1>3. Has(Append(r, c), c)
  BY <1>1 DEF Has
<1>4. ASSUME NEW s, Prefix(s, r) PROVE Prefix(s, Append(r, c))
  BY <1>2, <1>4 DEF Prefix
<1>5. ASSUME NEW d, Has(r, d) PROVE Has(Append(r, c), d)
  BY <1>2, <1>5 DEF Prefix, Has
<1> QED BY <1>1, <1>2, <1>3, <1>4, <1>5

\* What is not in a call's hands is well typed.
LEMMA WorldIs ==
  ASSUME SetupInv
  PROVE  /\ flavor \in {"hermes", "rly"} /\ mem \in Seq(Configured) /\ file \in Seq(Configured)
         /\ phrase \in [Configured -> Setup!Num] /\ keys \in [Configured -> Setup!Num] /\ calls \in Setup!Num
         /\ setupPc \in [Task -> {"idle"} \cup Setup!Adding \cup Setup!Keying] /\ arg \in [Task -> Configured]
         /\ n \in [Task -> Setup!Num] /\ conf \in [Task -> Seq(Configured)]
         /\ known \subseteq Configured /\ wallet \in [Configured -> Setup!Wallet]
         /\ alone \in [Task -> BOOLEAN] /\ clean \in BOOLEAN /\ firm \in [Configured -> BOOLEAN]
  BY DEF SetupInv, Setup!TypeOK

\* Calls that only begin.
LEMMA BeginsKeep ==
  ASSUME SetupInv, NEW t \in Task, NEW c \in Configured,
         Setup!WriteJson(t, c) \/ Setup!AddKey(t, c) \/ Setup!RestoreKey(t, c) \/ Setup!RlyBegin(t, c)
  PROVE  SetupInv'
<1>1. PICK stage \in {Setup!Adding, Setup!Keying}, step \in Setup!Adding \cup Setup!Keying :
        /\ step \in stage /\ Setup!Enter(t, c, step, stage) /\ step \notin {"clone", "write", "check", "key", "rkey"}
        /\ IF step \in InHermes THEN flavor = "hermes" ELSE flavor = "rly"
  BY DEF Setup!WriteJson, Setup!AddKey, Setup!RestoreKey, Setup!RlyBegin, InHermes, Setup!Adding, Setup!Keying
<1>2. UNCHANGED <<flavor, mem, Setup!volume, conf, known, wallet, clean, firm>>
  BY DEF Setup!WriteJson, Setup!AddKey, Setup!RestoreKey, Setup!RlyBegin
<1>3. UNCHANGED <<flavor, mem, file, phrase, keys, conf, known, wallet, clean, firm>>
  BY <1>2 DEF Setup!volume
<1>4. /\ setupPc'[t] = step /\ CallsFit'
      /\ \A u \in Task \ {t} :
           setupPc'[u] = setupPc[u] /\ arg'[u] = arg[u] /\ n'[u] = n[u] /\ (alone'[u] => alone[u])
      /\ calls' \in Setup!Num /\ setupPc' \in [Task -> {"idle"} \cup Setup!Adding \cup Setup!Keying]
      /\ arg' \in [Task -> Configured] /\ n' \in [Task -> Setup!Num] /\ alone' \in [Task -> BOOLEAN]
  BY <1>1, <1>3, EnterKeeps
<1>5. Setup!TypeOK'
  BY <1>3, <1>4, WorldIs DEF Setup!TypeOK
<1>6. KeysRest
  BY <1>1, <1>3, <1>4 DEF KeysRest
<1>7. ConfigRests
  BY <1>1, <1>3, <1>4 DEF ConfigRests
<1> QED BY <1>3, <1>4, <1>5, <1>6, <1>7, WorldIs, KeysStay, ConfigStays DEF SetupInv

LEMMA PushKeeps ==
  ASSUME SetupInv, NEW t \in Task, NEW c \in Configured, Setup!Push(t, c) PROVE SetupInv'
<1>1. /\ flavor = "hermes" /\ Setup!Enter(t, c, "clone", Setup!Adding) /\ mem' = Append(mem, c)
      /\ UNCHANGED <<flavor, file, phrase, keys, conf, known, wallet, clean, firm>>
  BY DEF Setup!Push, Setup!volume
<1>2. "clone" \in Setup!Adding /\ "clone" \in InHermes
  BY DEF Setup!Adding, InHermes
<1>3. /\ setupPc'[t] = "clone" /\ arg'[t] = c /\ CallsFit'
      /\ \A u \in Task \ {t} :
           setupPc'[u] = setupPc[u] /\ arg'[u] = arg[u] /\ n'[u] = n[u] /\ (alone'[u] => alone[u])
      /\ calls' \in Setup!Num /\ setupPc' \in [Task -> {"idle"} \cup Setup!Adding \cup Setup!Keying]
      /\ arg' \in [Task -> Configured] /\ n' \in [Task -> Setup!Num] /\ alone' \in [Task -> BOOLEAN]
  BY <1>1, <1>2, EnterKeeps
<1>4. Setup!TypeOK'
  BY <1>1, <1>3, WorldIs, PrefixKept DEF Setup!TypeOK
<1>5. KeysRest
  BY <1>1, <1>3 DEF KeysRest
<1>6. Remembered'
  <2>1. Remembered
    BY <1>1 DEF SetupInv
  <2>2. /\ Has(mem', c) /\ \A s : Prefix(s, mem) => Prefix(s, mem')
        /\ \A d : Has(mem, d) => Has(mem', d)
    BY <1>1, WorldIs, PrefixKept
  <2>3. \A u \in Task : setupPc'[u] \in {"clone", "write", "check"} => Has(mem', arg'[u])
    BY <1>3, <2>1, <2>2 DEF Remembered
  <2>4. \A d \in known' : Has(mem', d)
    BY <1>1, <2>1, <2>2 DEF Remembered
  <2>5. Prefix(file, mem') /\ \A u \in Task : Prefix(conf[u], mem')
    BY <2>1, <2>2 DEF Remembered
  <2>6. \A u \in Task : setupPc'[u] = "write" =>
          /\ Has(conf[u], arg'[u])
          /\ alone'[u] => \A d \in known : Has(conf[u], d)
    BY <1>3, <2>1 DEF Remembered
  <2>7. clean => \A d \in known : Has(file, d)
    BY <2>1 DEF Remembered
  <2>8. \A u \in Task : setupPc'[u] = "check" /\ alone'[u] /\ clean => Has(file, arg'[u])
    BY <1>3, <2>1 DEF Remembered
  <2> QED BY <1>1, <2>3, <2>4, <2>5, <2>6, <2>7, <2>8 DEF Remembered, Has, Prefix
<1> QED BY <1>1, <1>3, <1>4, <1>5, <1>6, WorldIs, KeysStay DEF SetupInv

LEMMA CloneKeeps == ASSUME SetupInv, NEW t \in Task, Setup!Clone(t) PROVE SetupInv'
<1>1. /\ setupPc[t] = "clone" /\ Setup!Goto(t, "write") /\ conf' = [conf EXCEPT ![t] = mem]
      /\ UNCHANGED <<flavor, mem, file, phrase, keys, calls, arg, n, known, wallet, alone, clean, firm>>
  BY DEF Setup!Clone, Setup!volume
<1>2. /\ setupPc' \in [Task -> {"idle"} \cup Setup!Adding \cup Setup!Keying] /\ setupPc'[t] = "write"
      /\ \A u \in Task \ {t} : setupPc'[u] = setupPc[u]
      /\ CallsFit'
  BY <1>1, GotoKeeps DEF Setup!Adding, InHermes
<1>3. /\ conf' \in [Task -> Seq(Configured)] /\ conf'[t] = mem
      /\ \A u \in Task \ {t} : conf'[u] = conf[u]
  BY <1>1, WorldIs
<1>4. Setup!TypeOK'
  BY <1>1, <1>2, <1>3, WorldIs DEF Setup!TypeOK
<1>5. KeysRest
  BY <1>1, <1>2 DEF KeysRest
<1>6. flavor = "hermes" => Remembered'
  <2> SUFFICES ASSUME flavor = "hermes"
               PROVE  Remembered'
    OBVIOUS
  <2>1. Remembered
    BY DEF SetupInv
  <2>2. Has(mem, arg[t]) /\ \A c \in known : Has(mem, c)
    BY <1>1, <2>1 DEF Remembered
  <2>3. \A u \in Task : setupPc'[u] \in {"clone", "write", "check"} => Has(mem, arg[u])
    BY <1>2, <2>1, <2>2 DEF Remembered
  <2>4. Prefix(file, mem) /\ \A u \in Task : Prefix(conf'[u], mem)
    BY <1>3, <2>1 DEF Remembered, Prefix
  <2>5. \A u \in Task : setupPc'[u] = "write" =>
          /\ Has(conf'[u], arg[u])
          /\ alone[u] => \A c \in known : Has(conf'[u], c)
    BY <1>2, <1>3, <2>1, <2>2 DEF Remembered
  <2>6. clean => \A c \in known : Has(file, c)
    BY <2>1 DEF Remembered
  <2>7. \A u \in Task : setupPc'[u] = "check" /\ alone[u] /\ clean => Has(file, arg[u])
    BY <1>2, <2>1 DEF Remembered
  <2> QED BY <1>1, <2>2, <2>3, <2>4, <2>5, <2>6, <2>7 DEF Remembered, Has, Prefix
<1> QED BY <1>1, <1>2, <1>3, <1>4, <1>5, <1>6, KeysStay DEF SetupInv

\* Who writes or validates alone is the only one to do so.
LEMMA OnlyOne ==
  ASSUME SetupInv, NEW t \in Task, NEW u \in Task \ {t}, alone[u],
         setupPc[t] \in Setup!Adding, setupPc[u] \in Setup!Adding
  PROVE  FALSE
  BY Stages DEF SetupInv, CallsFit

LEMMA WriteConfigKeeps == ASSUME SetupInv, NEW t \in Task, Setup!WriteConfig(t) PROVE SetupInv'
<1>1. /\ setupPc[t] = "write" /\ Setup!Goto(t, "check") /\ file' = conf[t] /\ clean' = alone[t]
      /\ UNCHANGED <<flavor, mem, phrase, keys, calls, arg, n, conf, known, wallet, alone, firm>>
  BY DEF Setup!WriteConfig
<1>2. /\ setupPc' \in [Task -> {"idle"} \cup Setup!Adding \cup Setup!Keying] /\ setupPc'[t] = "check"
      /\ \A u \in Task \ {t} : setupPc'[u] = setupPc[u]
      /\ CallsFit'
  BY <1>1, GotoKeeps DEF Setup!Adding, InHermes
<1>3. Setup!TypeOK'
  BY <1>1, <1>2, WorldIs DEF Setup!TypeOK
<1>4. KeysRest
  BY <1>1, <1>2 DEF KeysRest
<1>5. flavor = "hermes" => Remembered'
  <2> SUFFICES ASSUME flavor = "hermes"
               PROVE  Remembered'
    OBVIOUS
  <2>1. Remembered
    BY DEF SetupInv
  <2>2. \A u \in Task : setupPc'[u] \in {"clone", "write", "check"} => Has(mem, arg[u])
    BY <1>1, <1>2, <2>1 DEF Remembered
  <2>3. (\A c \in known : Has(mem, c)) /\ Prefix(file', mem) /\ \A u \in Task : Prefix(conf[u], mem)
    BY <1>1, <2>1 DEF Remembered
  <2>4. \A u \in Task : setupPc'[u] = "write" =>
          /\ Has(conf[u], arg[u])
          /\ alone[u] => \A c \in known : Has(conf[u], c)
    BY <1>2, <2>1 DEF Remembered
  <2>5. Has(conf[t], arg[t]) /\ (alone[t] => \A c \in known : Has(conf[t], c))
    BY <1>1, <2>1 DEF Remembered
  <2>6. \A u \in Task : setupPc'[u] = "check" /\ alone[u] /\ clean' => Has(file', arg[u])
    BY <1>1, <1>2, <2>5, OnlyOne DEF Setup!Adding
  <2> QED BY <1>1, <2>2, <2>3, <2>4, <2>5, <2>6 DEF Remembered, Has, Prefix
<1> QED BY <1>1, <1>2, <1>3, <1>4, <1>5, KeysStay DEF SetupInv

LEMMA WriteFailsKeeps == ASSUME SetupInv, NEW t \in Task, Setup!WriteFails(t) PROVE SetupInv'
<1>1. /\ setupPc[t] = "write" /\ Setup!Goto(t, "idle") /\ file' \in {file, conf[t], <<>>} /\ clean' = FALSE
      /\ UNCHANGED <<flavor, mem, phrase, keys, calls, arg, n, conf, known, wallet, alone, firm>>
  BY DEF Setup!WriteFails, Setup!AddFails
<1>2. /\ setupPc' \in [Task -> {"idle"} \cup Setup!Adding \cup Setup!Keying] /\ setupPc'[t] = "idle"
      /\ \A u \in Task \ {t} : setupPc'[u] = setupPc[u]
      /\ CallsFit'
  BY <1>1, GotoKeeps
<1>3. Setup!TypeOK'
  <2>1. <<>> \in Seq(Configured) /\ conf[t] \in Seq(Configured)
    BY WorldIs
  <2> QED BY <1>1, <1>2, <2>1, WorldIs DEF Setup!TypeOK
<1>4. KeysRest
  BY <1>1, <1>2 DEF KeysRest
<1>5. flavor = "hermes" => Remembered'
  <2> SUFFICES ASSUME flavor = "hermes"
               PROVE  Remembered'
    OBVIOUS
  <2>1. Remembered
    BY DEF SetupInv
  <2>2. \A u \in Task : setupPc'[u] \in {"clone", "write", "check"} => Has(mem, arg[u])
    BY <1>1, <1>2, <2>1 DEF Remembered
  <2>3. Prefix(<<>>, mem)
    BY DEF Prefix
  <2>4. (\A c \in known : Has(mem, c)) /\ Prefix(file', mem) /\ \A u \in Task : Prefix(conf[u], mem)
    BY <1>1, <2>1, <2>3 DEF Remembered
  <2>5. \A u \in Task : setupPc'[u] = "write" =>
          /\ Has(conf[u], arg[u])
          /\ alone[u] => \A c \in known : Has(conf[u], c)
    BY <1>2, <2>1 DEF Remembered
  <2> QED BY <1>1, <2>2, <2>4, <2>5 DEF Remembered, Has, Prefix
<1> QED BY <1>1, <1>2, <1>3, <1>4, <1>5, KeysStay DEF SetupInv

LEMMA ValidateKeeps == ASSUME SetupInv, NEW t \in Task, Setup!Validate(t) PROVE SetupInv'
<1>1. /\ setupPc[t] = "check" /\ Setup!Goto(t, "idle") /\ known' = known \cup {arg[t]}
      /\ clean' = (clean /\ alone[t])
      /\ UNCHANGED <<flavor, mem, file, phrase, keys, calls, arg, n, conf, wallet, alone, firm>>
  BY DEF Setup!Validate, Setup!volume
<1>2. /\ setupPc' \in [Task -> {"idle"} \cup Setup!Adding \cup Setup!Keying] /\ setupPc'[t] = "idle"
      /\ \A u \in Task \ {t} : setupPc'[u] = setupPc[u]
      /\ CallsFit'
  BY <1>1, GotoKeeps
<1>3. Setup!TypeOK'
  <2>1. clean' \in BOOLEAN
    BY <1>1
  <2>2. known' \subseteq Configured
    BY <1>1, WorldIs
  <2> QED BY <1>1, <1>2, <2>1, <2>2, WorldIs DEF Setup!TypeOK
<1>4. KeysRest
  BY <1>1, <1>2 DEF KeysRest
<1>5. flavor = "hermes" => Remembered'
  <2> SUFFICES ASSUME flavor = "hermes"
               PROVE  Remembered'
    OBVIOUS
  <2>1. Remembered
    BY DEF SetupInv
  <2>2. Has(mem, arg[t]) /\ (alone[t] /\ clean => Has(file, arg[t]))
    BY <1>1, <2>1 DEF Remembered
  <2>3. \A u \in Task : setupPc'[u] \in {"clone", "write", "check"} => Has(mem, arg[u])
    BY <1>1, <1>2, <2>1 DEF Remembered
  <2>4. (\A c \in known' : Has(mem, c)) /\ Prefix(file, mem) /\ \A u \in Task : Prefix(conf[u], mem)
    BY <1>1, <2>1, <2>2 DEF Remembered
  <2>5. \A u \in Task : setupPc'[u] = "write" =>
          /\ Has(conf[u], arg[u])
          /\ alone[u] => \A c \in known' : Has(conf[u], c)
    BY <1>1, <1>2, <2>1, OnlyOne DEF Remembered, Setup!Adding
  <2>6. clean' => \A c \in known' : Has(file, c)
    BY <1>1, <2>1, <2>2 DEF Remembered
  <2>7. \A u \in Task : setupPc'[u] = "check" /\ alone[u] /\ clean' => Has(file, arg[u])
    BY <1>1, <1>2, <2>1 DEF Remembered
  <2> QED BY <1>1, <2>3, <2>4, <2>5, <2>6, <2>7 DEF Remembered, Has, Prefix
<1> QED BY <1>1, <1>2, <1>3, <1>4, <1>5, KeysStay DEF SetupInv

\* The same call of the Go relayer, of whose file nothing is claimed.
LEMMA RlyAddKeeps ==
  ASSUME SetupInv, NEW t \in Task, Setup!JsonWritten(t) \/ Setup!ChainsAdd(t) PROVE SetupInv'
<1>1. /\ setupPc[t] \in {"json", "add"} /\ Setup!Goto(t, setupPc'[t]) /\ setupPc'[t] \in {"idle", "add"}
      /\ setupPc'[t] = "idle" \/ setupPc[t] = "json"
      /\ file' \in {file, Append(file, arg[t])}
      /\ known' \in {known, known \cup {arg[t]}} /\ clean' \in {clean, FALSE}
      /\ UNCHANGED <<flavor, mem, phrase, keys, calls, arg, n, conf, wallet, alone, firm>>
  BY WorldIs DEF Setup!JsonWritten, Setup!ChainsAdd, Setup!AddFails, Setup!Goto
<1>2. /\ setupPc' \in [Task -> {"idle"} \cup Setup!Adding \cup Setup!Keying]
      /\ \A u \in Task \ {t} : setupPc'[u] = setupPc[u]
      /\ CallsFit'
  BY <1>1, GotoKeeps DEF Setup!Adding, InRly
<1>3. Setup!TypeOK'
  <2>1. clean' \in BOOLEAN
    BY <1>1, WorldIs
  <2>2. file' \in Seq(Configured) /\ known' \subseteq Configured
    BY <1>1, WorldIs, PrefixKept
  <2> QED BY <1>1, <1>2, <2>1, <2>2, WorldIs DEF Setup!TypeOK
<1>4. KeysRest
  BY <1>1, <1>2 DEF KeysRest
<1>5. flavor # "hermes"
  BY <1>1 DEF SetupInv, CallsFit, InHermes
<1> QED BY <1>1, <1>2, <1>3, <1>4, <1>5, KeysStay DEF SetupInv

\* A key call that fails takes the claims about the keys of its chain with it.
LEMMA KeyFailsKeeps ==
  ASSUME SetupInv, NEW t \in Task, setupPc[t] \in Setup!Keying, Setup!KeyFails(t),
         phrase' \in [Configured -> Setup!Num], keys' \in [Configured -> Setup!Num],
         \A c \in Configured \ {arg[t]} : phrase'[c] = phrase[c] /\ keys'[c] = keys[c]
  PROVE  SetupInv'
<1>1. /\ Setup!Goto(t, "idle") /\ firm' = [firm EXCEPT ![arg[t]] = FALSE]
      /\ UNCHANGED <<flavor, mem, file, calls, arg, n, conf, known, wallet, alone, clean>>
  BY DEF Setup!KeyFails
<1>2. /\ setupPc' \in [Task -> {"idle"} \cup Setup!Adding \cup Setup!Keying] /\ setupPc'[t] = "idle"
      /\ \A u \in Task \ {t} : setupPc'[u] = setupPc[u]
      /\ CallsFit'
  BY <1>1, GotoKeeps
<1>3. firm' \in [Configured -> BOOLEAN] /\ firm'[arg[t]] = FALSE
      /\ \A c \in Configured \ {arg[t]} : firm'[c] = firm[c]
  BY <1>1, WorldIs
<1>4. Setup!TypeOK'
  BY <1>1, <1>2, <1>3, WorldIs DEF Setup!TypeOK
<1>5. Setup!KeyMatches'
  BY <1>1, <1>3 DEF SetupInv, Setup!KeyMatches
<1>6. OwnPhrase'
  <2> SUFFICES ASSUME NEW u \in Task, setupPc'[u] \in {"key", "rkey"}, alone[u]
               PROVE  phrase'[arg[u]] \in {0, n[u]}
    BY <1>1 DEF OwnPhrase
  <2>1. setupPc[u] = setupPc'[u] /\ u # t
    BY <1>2
  <2>2. arg[u] # arg[t]
    BY <2>1 DEF SetupInv, CallsFit, Setup!Keying
  <2>3. arg[u] \in Configured
    BY WorldIs
  <2> QED BY <2>1, <2>2, <2>3 DEF SetupInv, OwnPhrase
<1>7. ConfigRests
  BY <1>1, <1>2 DEF ConfigRests
<1> QED BY <1>1, <1>2, <1>4, <1>5, <1>6, <1>7, WorldIs, ConfigStays DEF SetupInv

LEMMA PhraseFailsKeeps == ASSUME SetupInv, NEW t \in Task, Setup!PhraseFails(t) PROVE SetupInv'
<1>1. setupPc[t] \in Setup!Keying /\ Setup!KeyFails(t) /\ UNCHANGED keys
  BY DEF Setup!PhraseFails, Setup!Keying
<1>2. PICK m \in {phrase[arg[t]], n[t], 0} : phrase' = [phrase EXCEPT ![arg[t]] = m]
  BY DEF Setup!PhraseFails
<1>3. m \in Setup!Num
  BY WorldIs, RelayersAssumption DEF Setup!Num
<1> QED BY <1>1, <1>2, <1>3, WorldIs, KeyFailsKeeps

LEMMA KeyEndsKeep ==
  ASSUME SetupInv, NEW t \in Task, Setup!HermesRestore(t) \/ Setup!HermesKeyFails(t) \/ Setup!RlyKeyFails(t)
  PROVE  SetupInv'
<1>1. setupPc[t] \in Setup!Keying /\ Setup!KeyFails(t) /\ UNCHANGED phrase
  BY DEF Setup!HermesRestore, Setup!HermesKeyFails, Setup!RlyKeyFails, Setup!Keying
<1>2. PICK k \in {keys[arg[t]], phrase[arg[t]], n[t]} :
        keys' = keys \/ keys' = [keys EXCEPT ![arg[t]] = k]
  BY DEF Setup!HermesRestore, Setup!HermesKeyFails, Setup!RlyKeyFails
<1>3. k \in Setup!Num
  <2>1. arg[t] \in Configured /\ n[t] \in Setup!Num
    BY WorldIs
  <2>2. keys[arg[t]] \in Setup!Num /\ phrase[arg[t]] \in Setup!Num
    BY <2>1, WorldIs
  <2> QED BY <1>2, <2>1, <2>2
<1>4. keys' \in [Configured -> Setup!Num] /\ \A c \in Configured \ {arg[t]} : keys'[c] = keys[c]
  <2>1. keys \in [Configured -> Setup!Num]
    BY WorldIs
  <2>2. CASE keys' = keys
    BY <2>1, <2>2
  <2>3. CASE keys' = [keys EXCEPT ![arg[t]] = k]
    BY <1>3, <2>1, <2>3
  <2> QED BY <1>2, <2>2, <2>3
<1>5. phrase' \in [Configured -> Setup!Num] /\ \A c \in Configured \ {arg[t]} : phrase'[c] = phrase[c]
  BY <1>1, WorldIs
<1> QED BY <1>1, <1>4, <1>5, KeyFailsKeeps

LEMMA WritePhraseKeeps == ASSUME SetupInv, NEW t \in Task, Setup!WritePhrase(t) PROVE SetupInv'
<1>1. PICK step \in {"key", "rkey"} :
        /\ setupPc[t] \in {"phrase", "rphrase"} /\ Setup!Goto(t, step)
        /\ phrase' = [phrase EXCEPT ![arg[t]] = n[t]]
        /\ UNCHANGED <<flavor, mem, file, keys, calls, arg, n, conf, known, wallet, alone, clean, firm>>
  BY DEF Setup!WritePhrase
<1>2. /\ setupPc' \in [Task -> {"idle"} \cup Setup!Adding \cup Setup!Keying] /\ setupPc'[t] = step
      /\ \A u \in Task \ {t} : setupPc'[u] = setupPc[u]
      /\ CallsFit'
  BY <1>1, GotoKeeps DEF Setup!Keying, InHermes
<1>3. /\ phrase' \in [Configured -> Setup!Num] /\ phrase'[arg[t]] = n[t]
      /\ \A c \in Configured \ {arg[t]} : phrase'[c] = phrase[c]
  BY <1>1, WorldIs
<1>4. Setup!TypeOK'
  BY <1>1, <1>2, <1>3, WorldIs DEF Setup!TypeOK
<1>5. Setup!KeyMatches'
  BY <1>1 DEF SetupInv, Setup!KeyMatches
<1>6. OwnPhrase'
  <2> SUFFICES ASSUME NEW u \in Task, setupPc'[u] \in {"key", "rkey"}, alone[u]
               PROVE  phrase'[arg[u]] \in {0, n[u]}
    BY <1>1 DEF OwnPhrase
  <2>1. CASE u = t
    BY <2>1, <1>3
  <2>2. CASE u # t
    <3>1. setupPc[u] = setupPc'[u]
      BY <2>2, <1>2
    <3>2. arg[u] # arg[t] /\ arg[u] \in Configured
      BY <2>2, <3>1, <1>1, WorldIs DEF SetupInv, CallsFit, Setup!Keying
    <3> QED BY <3>1, <3>2, <1>3 DEF SetupInv, OwnPhrase
  <2> QED BY <2>1, <2>2
<1>7. ConfigRests
  BY <1>1, <1>2 DEF ConfigRests
<1> QED BY <1>1, <1>2, <1>4, <1>5, <1>6, <1>7, WorldIs, ConfigStays DEF SetupInv

\* A key call that ends with a wallet a: the key is its address if it tells.
LEMMA WalletKeeps ==
  ASSUME SetupInv, NEW t \in Task, setupPc[t] \in Setup!Keying, Setup!Goto(t, "idle"), NEW a \in Setup!Wallet,
         wallet' = [wallet EXCEPT ![arg[t]] = a],
         keys' \in [Configured -> Setup!Num], \A c \in Configured \ {arg[t]} : keys'[c] = keys[c],
         NEW b \in BOOLEAN, firm' = [firm EXCEPT ![arg[t]] = b],
         b => /\ a.addr # 0 /\ keys'[arg[t]] = a.addr
              /\ flavor = "hermes" => a.phrase = a.addr,
         UNCHANGED <<flavor, mem, file, phrase, calls, arg, n, conf, known, alone, clean>>
  PROVE  SetupInv'
<1>1. /\ setupPc' \in [Task -> {"idle"} \cup Setup!Adding \cup Setup!Keying] /\ setupPc'[t] = "idle"
      /\ \A u \in Task \ {t} : setupPc'[u] = setupPc[u]
      /\ CallsFit'
  BY GotoKeeps
<1>2. /\ firm' \in [Configured -> BOOLEAN] /\ firm'[arg[t]] = b
      /\ \A c \in Configured \ {arg[t]} : firm'[c] = firm[c]
  BY WorldIs
<1>3. /\ wallet' \in [Configured -> Setup!Wallet] /\ wallet'[arg[t]] = a
      /\ \A c \in Configured \ {arg[t]} : wallet'[c] = wallet[c]
  BY WorldIs
<1>4. Setup!TypeOK'
  BY <1>1, <1>2, <1>3, WorldIs DEF Setup!TypeOK
<1>5. Setup!KeyMatches'
  <2> SUFFICES ASSUME NEW c \in Configured, firm'[c]
               PROVE  /\ wallet'[c].addr # 0 /\ keys'[c] = wallet'[c].addr
                      /\ flavor = "hermes" => wallet'[c].phrase = wallet'[c].addr
    BY DEF Setup!KeyMatches
  <2>1. CASE c = arg[t]
    BY <2>1, <1>2, <1>3
  <2>2. CASE c # arg[t]
    BY <2>2, <1>2, <1>3 DEF SetupInv, Setup!KeyMatches
  <2> QED BY <2>1, <2>2
<1>6. OwnPhrase'
  BY <1>1 DEF SetupInv, OwnPhrase
<1>7. ConfigRests
  BY <1>1 DEF ConfigRests
<1> QED BY <1>1, <1>4, <1>5, <1>6, <1>7, WorldIs, ConfigStays DEF SetupInv

LEMMA HermesKeyKeeps == ASSUME SetupInv, NEW t \in Task, Setup!HermesKey(t) PROVE SetupInv'
<1> DEFINE c == arg[t]
<1>1. /\ setupPc[t] = "key" /\ Setup!Goto(t, "idle")
      /\ UNCHANGED <<flavor, mem, file, phrase, calls, arg, n, conf, known, alone, clean>>
  BY DEF Setup!HermesKey
<1>2. PICK told \in BOOLEAN :
        /\ \/ Setup!CanAdd(c) /\ keys' = [keys EXCEPT ![c] = phrase[c]]
           \/ ~told /\ UNCHANGED keys
        /\ wallet' = [wallet EXCEPT ![c] = [phrase |-> n[t], addr |-> IF told THEN phrase[c] ELSE 0]]
        /\ firm' = [firm EXCEPT ![c] = told /\ alone[t]]
  BY DEF Setup!HermesKey
<1> DEFINE a == [phrase |-> n[t], addr |-> IF told THEN phrase[c] ELSE 0]
           b == told /\ alone[t]
<1>3. c \in Configured /\ phrase[c] \in Setup!Num /\ n[t] \in Setup!Num /\ 0 \in Setup!Num
  BY WorldIs, RelayersAssumption DEF Setup!Num
<1>4. a \in Setup!Wallet
  BY <1>3 DEF Setup!Wallet
<1>5. keys' \in [Configured -> Setup!Num] /\ \A d \in Configured \ {c} : keys'[d] = keys[d]
  BY <1>2, <1>3, WorldIs
<1>6. ASSUME b PROVE a.addr # 0 /\ keys'[c] = a.addr /\ a.phrase = a.addr
  <2>1. phrase[c] # 0 /\ keys'[c] = phrase[c]
    BY <1>2, <1>3, <1>6, WorldIs DEF Setup!CanAdd
  <2>2. phrase[c] = n[t]
    BY <1>1, <1>6, <2>1 DEF SetupInv, OwnPhrase
  <2> QED BY <1>6, <2>1, <2>2
<1>7. b \in BOOLEAN
  BY WorldIs
<1>8. setupPc[t] \in Setup!Keying
  BY <1>1 DEF Setup!Keying
<1> HIDE DEF a, b, c
<1>9. wallet' = [wallet EXCEPT ![arg[t]] = a] /\ firm' = [firm EXCEPT ![arg[t]] = b]
  BY <1>2 DEF a, b, c
<1> QED BY <1>1, <1>4, <1>5, <1>6, <1>7, <1>8, <1>9, WalletKeeps DEF c

LEMMA RlyAddKeyKeeps == ASSUME SetupInv, NEW t \in Task, Setup!RlyAddKey(t) PROVE SetupInv'
<1> DEFINE a == [phrase |-> 0, addr |-> n[t]]
<1>1. /\ setupPc[t] = "rlykey" /\ Setup!Goto(t, "idle") /\ keys' = [keys EXCEPT ![arg[t]] = n[t]]
      /\ wallet' = [wallet EXCEPT ![arg[t]] = a] /\ firm' = [firm EXCEPT ![arg[t]] = alone[t]]
      /\ UNCHANGED <<flavor, mem, file, phrase, calls, arg, n, conf, known, alone, clean>>
  BY DEF Setup!RlyAddKey
<1>2. arg[t] \in Configured /\ n[t] \in Setup!Num /\ 0 \in Setup!Num
  BY WorldIs, RelayersAssumption DEF Setup!Num
<1>3. a \in Setup!Wallet /\ a.addr = n[t]
  BY <1>2 DEF Setup!Wallet
<1>4. /\ keys' \in [Configured -> Setup!Num] /\ keys'[arg[t]] = n[t]
      /\ \A d \in Configured \ {arg[t]} : keys'[d] = keys[d]
  BY <1>1, <1>2, WorldIs
<1>5. n[t] # 0 /\ flavor # "hermes"
  BY <1>1 DEF SetupInv, CallsFit, InHermes
<1>6. setupPc[t] \in Setup!Keying /\ alone[t] \in BOOLEAN
  BY <1>1, WorldIs DEF Setup!Keying
<1> HIDE DEF a
<1> QED BY <1>1, <1>3, <1>4, <1>5, <1>6, WalletKeeps

LEMMA StopKeeps == ASSUME SetupInv, Setup!Stop PROVE SetupInv'
<1>1. UNCHANGED <<flavor, mem, calls, setupPc, arg, n, conf, known, wallet, alone>>
  BY DEF Setup!Stop
<1>2. CASE /\ file' = <<>> /\ phrase' = [c \in Configured |-> 0] /\ keys' = [c \in Configured |-> 0]
           /\ clean' = FALSE /\ firm' = [c \in Configured |-> FALSE]
  <2>1. 0 \in Setup!Num /\ <<>> \in Seq(Configured)
    BY RelayersAssumption DEF Setup!Num
  <2>2. /\ phrase' \in [Configured -> Setup!Num] /\ keys' \in [Configured -> Setup!Num]
        /\ firm' \in [Configured -> BOOLEAN] /\ clean' \in BOOLEAN
    BY <1>2, <2>1
  <2>3. Setup!TypeOK'
    BY <1>1, <1>2, <2>1, <2>2, WorldIs DEF Setup!TypeOK
  <2>4. CallsFit'
    BY <1>1 DEF SetupInv, CallsFit
  <2>5. OwnPhrase' /\ Setup!KeyMatches'
    BY <1>1, <1>2, WorldIs DEF OwnPhrase, Setup!KeyMatches
  <2>6. flavor = "hermes" => Remembered'
    BY <1>1, <1>2 DEF SetupInv, Remembered, Prefix, Has
  <2> QED BY <1>1, <2>3, <2>4, <2>5, <2>6, WorldIs DEF SetupInv
<1>3. CASE UNCHANGED <<Setup!volume, clean, firm>>
  <2>1. UNCHANGED Setup!vars
    BY <1>1, <1>3 DEF Setup!vars
  <2> QED BY <2>1 DEF Setup!vars, Setup!volume, SetupInv, Setup!TypeOK, CallsFit, OwnPhrase, Setup!KeyMatches,
                      Remembered, Prefix, Has
<1> QED BY <1>2, <1>3 DEF Setup!Stop

LEMMA SetupSteps == SetupInv /\ [Setup!Next]_(Setup!vars) => SetupInv'
<1> SUFFICES ASSUME SetupInv, [Setup!Next]_(Setup!vars)
             PROVE  SetupInv'
  OBVIOUS
<1>1. CASE Setup!Stop
  BY <1>1, StopKeeps
<1>2. ASSUME NEW t \in Task, NEW c \in Configured,
             Setup!Push(t, c) \/ Setup!WriteJson(t, c) \/ Setup!AddKey(t, c) \/ Setup!RestoreKey(t, c) \/ Setup!RlyBegin(t, c)
      PROVE  SetupInv'
  BY <1>2, PushKeeps, BeginsKeep
<1>3. ASSUME NEW t \in Task,
             \/ Setup!Clone(t) \/ Setup!WriteConfig(t) \/ Setup!WriteFails(t) \/ Setup!Validate(t)
             \/ Setup!JsonWritten(t) \/ Setup!ChainsAdd(t)
      PROVE  SetupInv'
  BY <1>3, CloneKeeps, WriteConfigKeeps, WriteFailsKeeps, ValidateKeeps, RlyAddKeeps
<1>4. ASSUME NEW t \in Task,
             \/ Setup!WritePhrase(t) \/ Setup!PhraseFails(t) \/ Setup!HermesKey(t) \/ Setup!HermesRestore(t)
             \/ Setup!HermesKeyFails(t) \/ Setup!RlyAddKey(t) \/ Setup!RlyKeyFails(t)
      PROVE  SetupInv'
  BY <1>4, WritePhraseKeeps, PhraseFailsKeeps, HermesKeyKeeps, RlyAddKeyKeeps, KeyEndsKeep
<1>5. CASE UNCHANGED Setup!vars
  BY <1>5 DEF Setup!vars, Setup!volume, SetupInv, Setup!TypeOK, CallsFit, OwnPhrase, Setup!KeyMatches,
              Remembered, Prefix, Has
<1> QED BY <1>1, <1>2, <1>3, <1>4, <1>5 DEF Setup!Next

LEMMA SetupStarts == Setup!Init => SetupInv
<1> SUFFICES ASSUME Setup!Init
             PROVE  SetupInv
  OBVIOUS
<1>1. 0 \in Setup!Num /\ <<>> \in Seq(Configured) /\ (CHOOSE c \in Configured : TRUE) \in Configured
  BY RelayersAssumption DEF Setup!Num
<1>2. [phrase |-> 0, addr |-> 0] \in Setup!Wallet
  BY <1>1 DEF Setup!Wallet
<1>3. /\ phrase \in [Configured -> Setup!Num] /\ keys \in [Configured -> Setup!Num] /\ wallet \in [Configured -> Setup!Wallet]
      /\ firm \in [Configured -> BOOLEAN] /\ alone \in [Task -> BOOLEAN] /\ clean \in BOOLEAN
  BY <1>1, <1>2 DEF Setup!Init
<1>4. /\ setupPc \in [Task -> {"idle"} \cup Setup!Adding \cup Setup!Keying] /\ arg \in [Task -> Configured]
      /\ n \in [Task -> Setup!Num] /\ conf \in [Task -> Seq(Configured)]
  BY <1>1 DEF Setup!Init
<1>5. Setup!TypeOK
  BY <1>1, <1>3, <1>4 DEF Setup!Init, Setup!TypeOK
<1>6. \A t \in Task : setupPc[t] = "idle" /\ conf[t] = <<>>
  BY DEF Setup!Init
<1>7. CallsFit /\ OwnPhrase
  BY <1>6 DEF CallsFit, OwnPhrase
<1>8. Setup!KeyMatches
  BY DEF Setup!Init, Setup!KeyMatches
<1>9. Remembered
  BY <1>6 DEF Setup!Init, Remembered, Prefix
<1> QED BY <1>4, <1>5, <1>7, <1>8, <1>9 DEF SetupInv

LEMMA SetupInvariant == Setup!Spec => []SetupInv
  BY SetupStarts, SetupSteps, PTL DEF Setup!Spec

LEMMA SetupTyped == Setup!Spec => []Setup!TypeOK
<1>1. SetupInv => Setup!TypeOK
  BY DEF SetupInv
<1> QED BY <1>1, SetupInvariant, PTL

\* Cardinality as the instance knows it.
LEMMA SetupCount == \A S : Setup!Cardinality(S) = Cardinality(S)
  BY DEF Setup!Cardinality, Cardinality

\* What a relayer is told before it relays is kept (add_chain_configuration,
\* add_key of relayer/hermes.rs and relayer/docker_relayer.rs).
THEOREM ToldAlwaysKept == Setup!Spec => []ToldIsKept
<1>1. SetupInv => Setup!ConfigComplete
  <2> SUFFICES ASSUME SetupInv, flavor = "hermes", clean
               PROVE  /\ \A c \in known : Setup!Listed(c) # {}
                      /\ \A c \in Configured :
                           Cardinality(Setup!Listed(c)) <= Cardinality({i \in DOMAIN mem : mem[i] = c})
    BY SetupCount DEF Setup!ConfigComplete
  <2>1. \A c \in known : Setup!Listed(c) # {}
    BY DEF SetupInv, Remembered, Has, Setup!Listed
  <2>2. ASSUME NEW c \in Configured
        PROVE  Cardinality(Setup!Listed(c)) <= Cardinality({i \in DOMAIN mem : mem[i] = c})
    <3>1. Setup!Listed(c) \subseteq {i \in DOMAIN mem : mem[i] = c}
      BY DEF SetupInv, Remembered, Prefix, Setup!Listed
    <3>2. Len(mem) \in Nat /\ DOMAIN mem = 1 .. Len(mem)
      BY WorldIs
    <3>3. IsFiniteSet(DOMAIN mem)
      BY <3>2, FS_Interval
    <3>4. IsFiniteSet({i \in DOMAIN mem : mem[i] = c})
      BY <3>3, FS_Subset
    <3> QED BY <3>1, <3>4, FS_Subset
  <2> QED BY <2>1, <2>2
<1>2. SetupInv => Setup!KeyMatches
  BY DEF SetupInv
<1> QED BY <1>1, <1>2, SetupInvariant, PTL DEF ToldIsKept

-----------------------------------------------------------------------------
(* The two together.                                                       *)

LEMMA RunStarts == MCInit => Init /\ Setup!Init
  BY DEF MCInit

LEMMA RunSteps == [MCNext]_mcvars => [Next]_vars /\ [Setup!Next]_(Setup!vars)
<1> SUFFICES ASSUME [MCNext]_mcvars
             PROVE  [Next]_vars /\ [Setup!Next]_(Setup!vars)
  OBVIOUS
<1>1. UNCHANGED setupVars => UNCHANGED Setup!vars
  BY DEF setupVars, Setup!vars, Setup!volume
<1>2. CASE Next /\ UNCHANGED setupVars
  BY <1>1, <1>2
<1>3. CASE Setup!Next /\ UNCHANGED vars
  BY <1>3
<1>4. CASE UNCHANGED mcvars
  BY <1>1, <1>4 DEF mcvars
<1> QED BY <1>2, <1>3, <1>4 DEF MCNext

\* What is checked of the two together is true of each alone: all that is in
\* the state of the run is well typed, for every value of the constants.
THEOREM RunTyped == MCSpec => []TypesOK
<1>1. MCSpec => Spec /\ Setup!Spec
  BY RunStarts, RunSteps, PTL DEF MCSpec, Spec, Setup!Spec
<1> QED BY <1>1, HermesTyped, SetupTyped, PTL DEF TypesOK
=============================================================================
