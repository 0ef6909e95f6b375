---------------------------- MODULE NodesProofs ----------------------------
(* What runs beside the chains: the event watcher, the owners of standalone*)
(* nodes and the snapshots of QuickSpawn (MCNodes), for every value of the *)
(* constants.                                                              *)
EXTENDS MCNodes, SequenceTheorems, FiniteSetTheorems, TLAPS

-----------------------------------------------------------------------------
(* The event watcher: NothingLost.                                         *)

Event == [n : Nat, by : Nat, act : Nat]

Typed ==
  /\ arrived \in Seq(Tx) /\ unread \in 0 .. Len(arrived)
  /\ cur \in Event /\ chan \in Seq(Event) /\ received \in Seq(Event)

Fresh == driver = "none" =>
  /\ sub = "none" /\ pc = "none" /\ arrived = <<>> /\ unread = 0
  /\ chan = <<>> /\ received = <<>>

\* Does an event say what its transaction was?
Honest(e) ==
  /\ e.n \in 1 .. Len(arrived)
  /\ Len(arrived[e.n]) = 1 => e.by = 1 /\ e.act \in (IF arrived[e.n][1] THEN {0, 1} ELSE {0})

AllHonest ==
  /\ pc = "send" => Honest(cur)
  /\ \A i \in 1 .. Len(chan) : Honest(chan[i])
  /\ \A i \in 1 .. Len(received) : Honest(received[i])

\* The numbers go on from what was received, through the channel, to the event
\* the task holds and the next one it will read.
InTransit == Len(received) + Len(chan)

Numbered == rx \in {"watcher", "caller"} =>
  /\ \A i \in 1 .. Len(received) : received[i].n = i
  /\ \A i \in 1 .. Len(chan) : chan[i].n = Len(received) + i
  /\ pc = "send" => cur.n = InTransit + 1 /\ NextRead = InTransit + 2
  /\ pc # "send" => NextRead = InTransit + 1

IInv == Typed /\ Fresh /\ AllHonest /\ Numbered

LEMMA Initially == Init => IInv
<1> SUFFICES ASSUME Init
             PROVE  IInv
  OBVIOUS
<1>1. NoEvent \in Event
  BY DEF NoEvent, Event
<1> QED BY <1>1 DEF Init, IInv, Typed, Fresh, AllHonest, Numbered, InTransit, NextRead

LEMMA MaxOfOne == Max({0}) = 0 /\ Max({1} \cup {0}) = 1
  BY DEF Max

\* What parse_event makes of a transaction is honest.
LEMMA ParsedHonest ==
  ASSUME arrived \in Seq(Tx), NEW n \in 1 .. Len(arrived), NEW e \in Parsed(n)
  PROVE  /\ Honest(e) /\ e \in Event /\ e.n = n
         /\ e.by \in 0 .. 2 /\ e.act \in 0 .. 2
<1> DEFINE tx   == arrived[n]
           acts == {i \in DOMAIN tx : tx[i]}
<1>1. tx \in Tx
  OBVIOUS
<1>2. PICK k \in 0 .. 2 : tx \in [1 .. k -> BOOLEAN]
  BY <1>1 DEF Tx
<1>3. Len(tx) = k /\ DOMAIN tx = 1 .. k
  BY <1>2
<1>4. e.n = n /\ e.by = Len(tx) /\ e.act \in {0, Max(acts \cup {0})}
  BY DEF Parsed
<1>5. Max(acts \cup {0}) \in 0 .. 2
  <2>1. acts \cup {0} \subseteq 0 .. 2
    BY <1>3
  <2>2. \E x \in acts \cup {0} : \A y \in acts \cup {0} : x >= y
    <3>1. CASE 2 \in acts
      BY <2>1, <3>1
    <3>2. CASE 2 \notin acts /\ 1 \in acts
      BY <2>1, <3>2
    <3>3. CASE 2 \notin acts /\ 1 \notin acts
      BY <2>1, <3>3
    <3> QED BY <3>1, <3>2, <3>3
  <2>3. Max(acts \cup {0}) \in acts \cup {0}
    BY <2>2 DEF Max
  <2>4. \A x \in acts \cup {0} : x \in 0 .. 2
    BY <2>1
  <2> QED BY <2>3, <2>4, Zenon
<1>6. ASSUME Len(tx) = 1
      PROVE  Max(acts \cup {0}) \in (IF tx[1] THEN {0, 1} ELSE {0})
  <2>1. acts = IF tx[1] THEN {1} ELSE {}
    BY <1>2, <1>3, <1>6
  <2> QED BY <2>1, MaxOfOne
<1>7. e \in Event
  BY <1>2, <1>3, <1>4, <1>5 DEF Parsed, Event
<1>8. e.by \in 0 .. 2 /\ e.act \in 0 .. 2
  BY <1>2, <1>3, <1>4, <1>5
<1> QED BY <1>4, <1>6, <1>7, <1>8 DEF Honest

-----------------------------------------------------------------------------
(* One lemma for each step that moves events.                             *)

LEMMA ConnectStep ==
  ASSUME IInv, Connect \/ SubscribeFails
  PROVE  IInv'
<1>1. /\ driver = "none" /\ driver' = "running" /\ pc' \in {"select", "over"}
      /\ UNCHANGED <<arrived, unread, cur, chan, received>>
  BY DEF Connect, SubscribeFails
<1>2. /\ arrived = <<>> /\ unread = 0 /\ chan = <<>> /\ received = <<>>
  BY <1>1 DEF IInv, Fresh
<1>3. Typed' /\ Fresh'
  BY <1>1 DEF IInv, Typed, Fresh
<1>4. AllHonest' /\ Numbered'
  BY <1>1, <1>2 DEF AllHonest, Numbered, InTransit, NextRead
<1> QED BY <1>3, <1>4 DEF IInv

LEMMA EventArrivesStep ==
  ASSUME IInv, NEW e \in Tx, EventArrives(e)
  PROVE  IInv'
<1>1. /\ sub = "open" /\ arrived' = Append(arrived, e) /\ unread' = unread + 1
      /\ UNCHANGED <<sub, driver, pc, cur, chan, rx, received>>
  BY DEF EventArrives
<1>2. /\ arrived' \in Seq(Tx) /\ Len(arrived') = Len(arrived) + 1
      /\ \A i \in 1 .. Len(arrived) : arrived'[i] = arrived[i]
  BY <1>1 DEF IInv, Typed
<1>3. Typed'
  BY <1>1, <1>2 DEF IInv, Typed
<1>4. Fresh'
  BY <1>1 DEF IInv, Fresh
<1>5. \A x : Honest(x) => Honest(x)'
  BY <1>2 DEF IInv, Typed, Honest
<1>6. AllHonest'
  <2>1. pc' = "send" => Honest(cur)'
    BY <1>1, <1>5 DEF IInv, AllHonest
  <2>2. \A i \in 1 .. Len(chan') : Honest(chan[i])'
    BY <1>1, <1>5 DEF IInv, AllHonest
  <2>3. \A i \in 1 .. Len(received') : Honest(received[i])'
    BY <1>1, <1>5 DEF IInv, AllHonest
  <2> QED BY <2>1, <2>2, <2>3 DEF AllHonest
<1>7. Numbered'
  BY <1>1, <1>2 DEF IInv, Typed, Numbered, InTransit, NextRead
<1> QED BY <1>3, <1>4, <1>6, <1>7 DEF IInv

LEMMA TakeEventStep ==
  ASSUME IInv, TakeEvent
  PROVE  IInv'
<1>1. /\ pc = "select" /\ unread > 0 /\ unread' = unread - 1
      /\ cur' \in Parsed(NextRead) /\ pc' = "send"
      /\ UNCHANGED <<arrived, sub, driver, chan, rx, received>>
  BY DEF TakeEvent
<1>2. NextRead \in 1 .. Len(arrived)
  BY <1>1 DEF IInv, Typed, NextRead
<1>3. Honest(cur') /\ cur' \in Event /\ cur'.n = NextRead
  BY <1>1, <1>2, ParsedHonest DEF IInv, Typed
<1>4. Typed' /\ Fresh'
  BY <1>1, <1>3 DEF IInv, Typed, Fresh
<1>5. AllHonest'
  BY <1>1, <1>3 DEF IInv, AllHonest, Honest
<1>6. Numbered'
  BY <1>1, <1>3 DEF IInv, Typed, Numbered, InTransit, NextRead
<1> QED BY <1>4, <1>5, <1>6 DEF IInv

LEMMA SendStep ==
  ASSUME IInv, Send
  PROVE  IInv'
<1>1. /\ pc = "send" /\ pc' = "select" /\ cur' = NoEvent
      /\ UNCHANGED <<arrived, sub, unread, driver, rx, received>>
  BY DEF Send
<1>2. NoEvent \in Event
  BY DEF NoEvent, Event
<1>3. Fresh'
  BY <1>1 DEF IInv, Fresh
<1>4. CASE rx \in {"watcher", "caller"} /\ chan' = Append(chan, cur)
  <2>1. /\ chan' \in Seq(Event) /\ Len(chan') = Len(chan) + 1
        /\ chan'[Len(chan) + 1] = cur /\ \A i \in 1 .. Len(chan) : chan'[i] = chan[i]
    BY <1>4 DEF IInv, Typed
  <2>2. Typed'
    BY <1>1, <1>2, <2>1 DEF IInv, Typed
  <2>3. \A i \in 1 .. Len(chan') : i = Len(chan) + 1 \/ i \in 1 .. Len(chan)
    BY <2>1 DEF IInv, Typed
  <2>4. AllHonest'
    <3>1. \A i \in 1 .. Len(chan') : Honest(chan'[i])
      BY <1>1, <2>1, <2>3 DEF IInv, AllHonest
    <3> QED BY <1>1, <3>1 DEF IInv, AllHonest, Honest
  <2>5. Numbered'
    <3>1. Len(received) \in Nat /\ Len(chan) \in Nat
      BY DEF IInv, Typed
    <3>2. cur.n = Len(received) + (Len(chan) + 1)
      BY <1>1, <1>4, <3>1 DEF IInv, Numbered, InTransit
    <3>3. \A i \in 1 .. Len(chan') : chan'[i].n = Len(received) + i
      BY <1>4, <2>1, <2>3, <3>2 DEF IInv, Numbered
    <3>4. NextRead' = InTransit' + 1
      BY <1>1, <1>4, <2>1, <3>1 DEF IInv, Numbered, InTransit, NextRead
    <3>5. \A i \in 1 .. Len(received') : received'[i].n = i
      BY <1>1, <1>4 DEF IInv, Numbered
    <3> QED BY <1>1, <3>3, <3>4, <3>5 DEF Numbered
  <2> QED BY <1>3, <2>2, <2>4, <2>5 DEF IInv
<1>5. CASE rx = "dropped" /\ chan' = chan
  BY <1>1, <1>2, <1>3, <1>5 DEF IInv, Typed, AllHonest, Honest, Numbered
<1> QED BY <1>4, <1>5 DEF Send

LEMMA ReceiveStep ==
  ASSUME IInv, Receive
  PROVE  IInv'
<1>1. /\ rx \in {"watcher", "caller"} /\ chan # <<>>
      /\ received' = Append(received, Head(chan)) /\ chan' = Tail(chan)
      /\ UNCHANGED <<arrived, sub, unread, driver, pc, cur, rx>>
  BY DEF Receive
<1>2. Len(chan) > 0 /\ Head(chan) = chan[1] /\ Head(chan) \in Event
  BY <1>1 DEF IInv, Typed
<1>3. /\ chan' \in Seq(Event) /\ Len(chan') = Len(chan) - 1
      /\ \A i \in 1 .. Len(chan') : chan'[i] = chan[i + 1]
  BY <1>1, <1>2 DEF IInv, Typed
<1>4. /\ received' \in Seq(Event) /\ Len(received') = Len(received) + 1
      /\ received'[Len(received) + 1] = chan[1]
      /\ \A i \in 1 .. Len(received) : received'[i] = received[i]
  BY <1>1, <1>2 DEF IInv, Typed
<1>5. Typed' /\ Fresh'
  BY <1>1, <1>2, <1>3, <1>4 DEF IInv, Typed, Fresh
<1>6. AllHonest'
  BY <1>1, <1>2, <1>3, <1>4 DEF IInv, Typed, AllHonest, Honest
<1>7. Numbered'
  <2>1. \A i \in 1 .. Len(received') : received'[i].n = i
    BY <1>1, <1>2, <1>4 DEF IInv, Typed, Numbered
  <2>2. \A i \in 1 .. Len(chan') : chan'[i].n = Len(received') + i
    BY <1>1, <1>3, <1>4 DEF IInv, Typed, Numbered
  <2>3. InTransit' = InTransit /\ NextRead' = NextRead
    BY <1>1, <1>3, <1>4 DEF IInv, Typed, InTransit, NextRead
  <2> QED BY <1>1, <2>1, <2>2, <2>3 DEF IInv, Numbered
<1> QED BY <1>5, <1>6, <1>7 DEF IInv

\* The end of the receiver empties the channel, and nothing is promised any more.
LEMMA EndStep ==
  ASSUME IInv, DropReceiver \/ Shutdown
  PROVE  IInv'
<1>1. /\ rx' = "dropped" /\ chan' = <<>>
      /\ UNCHANGED <<arrived, sub, unread, driver, pc, cur, received>>
  BY DEF DropReceiver, Shutdown
<1> QED BY <1>1 DEF IInv, Typed, Fresh, AllHonest, Honest, Numbered

\* The steps that move no event.
LEMMA QuietStep ==
  ASSUME IInv, StreamStops \/ TakeError \/ SeeShutdown \/ TakeReceiver \/ DropRest
  PROVE  IInv'
<1>1. UNCHANGED <<arrived, unread, cur, chan, received>>
  BY DEF StreamStops, TakeError, SeeShutdown, Leave, TakeReceiver, DropRest
<1>2. Typed'
  BY <1>1 DEF IInv, Typed
<1>3. CASE StreamStops
  BY <1>1, <1>2, <1>3
     DEF StreamStops, IInv, Fresh, AllHonest, Honest, Numbered, InTransit, NextRead
<1>4. CASE TakeError \/ SeeShutdown
  <2>1. pc = "select" /\ pc' = "over" /\ driver' = "aborted" /\ rx' = rx
    BY <1>4 DEF TakeError, SeeShutdown, Leave
  <2> QED BY <1>1, <1>2, <2>1 DEF IInv, Fresh, AllHonest, Honest, Numbered, InTransit, NextRead
<1>5. CASE TakeReceiver \/ DropRest
  <2>1. pc' = pc /\ driver' = driver /\ sub' = sub
    BY <1>5 DEF TakeReceiver, DropRest
  <2>2. rx' \in {"watcher", "caller"} => rx \in {"watcher", "caller"}
    BY <1>5 DEF TakeReceiver, DropRest
  <2> QED BY <1>1, <1>2, <2>1, <2>2
          DEF IInv, Fresh, AllHonest, Honest, Numbered, InTransit, NextRead
<1> QED BY <1>3, <1>4, <1>5

LEMMA Inductive == IInv /\ [Next]_vars => IInv'
<1> SUFFICES ASSUME IInv, [Next]_vars
             PROVE  IInv'
  OBVIOUS
<1>1. CASE \E e \in Tx : EventArrives(e)
  BY <1>1, EventArrivesStep
<1>2. CASE Task
  BY <1>2, TakeEventStep, SendStep, QuietStep DEF Task
<1>3. CASE UNCHANGED vars
  BY <1>3 DEF vars, IInv, Typed, Fresh, AllHonest, Honest, Numbered, InTransit, NextRead
<1> QED BY <1>1, <1>2, <1>3, ConnectStep, ReceiveStep, EndStep, QuietStep DEF Next

\* Two sequences, the second of which goes on where the first ends.
LEMMA GoesOn ==
  ASSUME NEW s \in Seq(Event), NEW t \in Seq(Event),
         \A i \in 1 .. Len(s) : s[i].n = i,
         \A i \in 1 .. Len(t) : t[i].n = Len(s) + i
  PROVE  /\ s \o t \in Seq(Event) /\ Len(s \o t) = Len(s) + Len(t)
         /\ \A i \in 1 .. Len(s \o t) : (s \o t)[i].n = i
<1>1. /\ s \o t \in Seq(Event) /\ Len(s \o t) = Len(s) + Len(t)
      /\ \A i \in 1 .. Len(s) + Len(t) : (s \o t)[i] = IF i <= Len(s) THEN s[i] ELSE t[i - Len(s)]
  BY ConcatProperties
<1>2. Len(s) \in Nat /\ Len(t) \in Nat
  OBVIOUS
<1>3. ASSUME NEW i \in 1 .. Len(s) + Len(t)
      PROVE  (s \o t)[i].n = i
  <2>1. CASE i <= Len(s)
    BY <1>1, <1>2, <2>1
  <2>2. CASE i > Len(s)
    <3>1. i - Len(s) \in 1 .. Len(t) /\ Len(s) + (i - Len(s)) = i /\ ~(i <= Len(s))
      BY <1>2, <2>2
    <3>2. (s \o t)[i] = t[i - Len(s)]
      BY <1>1, <3>1
    <3> QED BY <3>1, <3>2
  <2> QED BY <1>2, <2>1, <2>2
<1> QED BY <1>1, <1>3

\* What is received, waiting in the channel and held by the task is 1, 2, 3, ...
LEMMA InOrder ==
  ASSUME IInv, rx \in {"watcher", "caller"}
  PROVE  Numbers(received \o chan \o (IF pc = "send" THEN <<cur>> ELSE <<>>))
           = [i \in 1 .. NextRead - 1 |-> i]
<1> DEFINE held == IF pc = "send" THEN <<cur>> ELSE <<>>
           both == received \o chan
           all  == both \o held
<1>1. held \in Seq(Event) /\ Len(held) = (IF pc = "send" THEN 1 ELSE 0)
  BY DEF IInv, Typed
<1>2. both \in Seq(Event) /\ Len(both) = InTransit /\ \A i \in 1 .. Len(both) : both[i].n = i
  BY GoesOn DEF IInv, Typed, Numbered, InTransit
<1>3. Len(received) \in Nat /\ Len(chan) \in Nat /\ InTransit \in Nat
  BY DEF IInv, Typed, InTransit
<1>4. \A i \in 1 .. Len(held) : held[i].n = Len(both) + i
  BY <1>2, <1>3 DEF IInv, Numbered
<1>5. NextRead - 1 = InTransit + Len(held)
  BY <1>1, <1>3 DEF IInv, Numbered
<1> HIDE DEF held, both
<1>6. all \in Seq(Event) /\ Len(all) = NextRead - 1 /\ \A i \in 1 .. Len(all) : all[i].n = i
  BY <1>1, <1>2, <1>4, <1>5, GoesOn
<1> HIDE DEF all
<1>7. Numbers(all) = [i \in 1 .. NextRead - 1 |-> i]
  BY <1>6 DEF Numbers
<1> QED BY <1>7 DEF all, both, held

\* A receiver of cosmos/event_watcher.rs gets every event the task has read,
\* once and in order, however slow it is: for the capacity of 256 of the code as
\* for any other, and for any number of events.
THEOREM NothingEverLost == Spec => []NothingLost
<1>1. Init => IInv
  BY Initially
<1>2. IInv /\ [Next]_vars => IInv'
  BY Inductive
<1>3. IInv => NothingLost
  <2> SUFFICES ASSUME IInv
               PROVE  NothingLost
    OBVIOUS
  <2>1. \A i \in DOMAIN received : Honest(received[i])
    BY DEF IInv, Typed, AllHonest
  <2> QED BY <2>1, InOrder DEF NothingLost, Honest
<1> QED BY <1>1, <1>2, <1>3, PTL DEF Spec

LEMMA ReadingInRange ==
  ASSUME IInv, unread > 0
  PROVE  NextRead \in 1 .. Len(arrived)
  BY DEF IInv, Typed, NextRead

LEMMA WatcherTypesKept == TypeOK /\ IInv /\ [Next]_vars => TypeOK'
<1> SUFFICES ASSUME TypeOK, IInv, [Next]_vars
             PROVE  TypeOK'
  OBVIOUS
<1> USE WatcherAssumption
<1>1. ASSUME NEW e \in Tx, EventArrives(e)
      PROVE  TypeOK'
  <2>1. arrived' \in Seq(Tx) /\ Len(arrived') = Len(arrived) + 1 /\ unread <= Len(arrived)
    BY <1>1, AppendProperties DEF TypeOK, EventArrives, IInv, Typed
  <2> QED BY <1>1, <2>1 DEF TypeOK, EventArrives
<1>2. CASE TakeEvent
  <2>1. /\ NextRead \in 1 .. Len(arrived) /\ cur' \in Parsed(NextRead)
        /\ Len(arrived) <= MaxEvents /\ Len(arrived) \in Nat /\ arrived \in Seq(Tx)
    BY <1>2, ReadingInRange DEF TakeEvent, TypeOK
  <2>2. cur'.by \in 0 .. 2 /\ cur'.act \in 0 .. 2 /\ cur'.n = NextRead /\ cur' \in Event
    BY <2>1, ParsedHonest
  <2>3. cur' \in ChainEvent /\ cur' # NoEvent
    BY <2>1, <2>2 DEF ChainEvent, Event, NoEvent
  <2> QED BY <1>2, <2>3 DEF TakeEvent, TypeOK
<1>3. CASE Send
  <2>1. pc = "send" /\ cur \in ChainEvent
    BY <1>3 DEF Send, TypeOK
  <2>2. chan' \in Seq(ChainEvent) /\ Len(chan') <= Capacity
    <3>1. CASE chan' = Append(chan, cur) /\ Len(chan) < Capacity
      BY <2>1, <3>1, AppendProperties DEF TypeOK
    <3>2. CASE UNCHANGED chan
      BY <3>2 DEF TypeOK
    <3> QED BY <1>3, <3>1, <3>2 DEF Send
  <2> QED BY <1>3, <2>2 DEF Send, TypeOK
<1>4. CASE Receive
  <2>1. /\ Head(chan) \in ChainEvent
        /\ Tail(chan) \in Seq(ChainEvent) /\ Len(Tail(chan)) = Len(chan) - 1
    BY <1>4, HeadTailProperties DEF Receive, TypeOK
  <2>2. received' \in Seq(ChainEvent)
    BY <1>4, <2>1, AppendProperties DEF Receive, TypeOK
  <2> QED BY <1>4, <2>1, <2>2 DEF Receive, TypeOK
<1>5. CASE DropReceiver \/ Shutdown
  <2>1. chan' \in Seq(ChainEvent) /\ Len(chan') <= Capacity
    <3>1. chan' = <<>>
      BY <1>5 DEF DropReceiver, Shutdown
    <3>2. <<>> \in Seq(ChainEvent) /\ Len(<<>>) = 0 /\ 0 <= Capacity
      BY EmptySeq
    <3> QED BY <3>1, <3>2, Zenon
  <2>2. CASE DropReceiver
    BY <2>1, <2>2 DEF DropReceiver, TypeOK
  <2>3. CASE Shutdown
    BY <2>1, <2>3 DEF Shutdown, TypeOK
  <2> QED BY <1>5, <2>2, <2>3
<1>6. CASE TakeError \/ SeeShutdown
  BY <1>6 DEF TakeError, SeeShutdown, Leave, TypeOK
<1>7. CASE \/ Connect \/ SubscribeFails \/ StreamStops \/ TakeReceiver \/ DropRest
           \/ UNCHANGED vars
  <2>1. CASE Connect \/ SubscribeFails
    BY <2>1 DEF Connect, SubscribeFails, TypeOK, IInv, Fresh
  <2>2. CASE StreamStops \/ TakeReceiver \/ DropRest \/ UNCHANGED vars
    BY <2>2 DEF StreamStops, TakeReceiver, DropRest, vars, TypeOK
  <2> QED BY <1>7, <2>1, <2>2
<1> QED BY <1>1, <1>2, <1>3, <1>4, <1>5, <1>6, <1>7 DEF Next, Task

LEMMA WatcherTyped == Init /\ [][Next]_vars => []TypeOK
<1>1. Init => TypeOK
  BY WatcherAssumption DEF Init, TypeOK
<1>2. Init => IInv
  BY Initially
<1>3. IInv /\ [Next]_vars => IInv'
  BY Inductive
<1> QED BY <1>1, <1>2, <1>3, WatcherTypesKept, PTL

-----------------------------------------------------------------------------
(* Two owners of one container name: TypeOK and NoOrphan of StandaloneNodes.*)

\* TypeOK in three parts.
DockerTyped ==
  /\ box \in Nodes!Box /\ ids \in Nodes!Id /\ box.id <= ids
  /\ (box.id = 0) = (box.status = "absent") /\ (box.ready => box.status = "running")
  /\ volume \in BOOLEAN /\ network \in [Owner -> BOOLEAN]

OwnersTyped ==
  /\ handle \in [Owner -> Nodes!Id] /\ netHeld \in [Owner -> BOOLEAN]
  /\ initialized \in [Owner -> BOOLEAN] /\ reused \in [Owner -> BOOLEAN]

CallsTyped ==
  /\ kind \in {"anvil", "zakura", "nostr"}
  /\ nodePc \in [Owner -> Nodes!Step] /\ local \in [Owner -> Nodes!Id] /\ calls \in [Owner -> 0 .. MaxCalls]
  /\ told \in BOOLEAN /\ swallowed \in BOOLEAN

NodesInRange == DockerTyped /\ OwnersTyped /\ CallsTyped

\* Ids are given out once: no owner has the id of another one.
Apart ==
  /\ \A o \in Owner : handle[o] <= ids /\ local[o] <= ids
  /\ \A o, p \in Owner : o # p =>
       /\ handle[o] # 0 => handle[o] # handle[p] /\ handle[o] # local[p]
       /\ local[o] # 0 => local[o] # local[p]

\* What the place in a call says of the owner's fields.
InHand ==
  \A o \in Owner :
    /\ nodePc[o] \in {"net", "stop.net"} => kind = "anvil"
    /\ nodePc[o] = "port" => kind = "nostr"
    /\ nodePc[o] \in {"stop", "port"} => handle[o] = local[o]
    /\ nodePc[o] \in {"start", "wait"} /\ kind = "anvil" => handle[o] = local[o] /\ local[o] # 0
    /\ nodePc[o] # "idle" /\ kind = "zakura" /\ nodePc[o] # "stop" => handle[o] = 0
    /\ nodePc[o] = "wait" => kind # "nostr"
    /\ kind = "anvil" /\ handle[o] # 0 => initialized[o]

\* Somebody has the container in hand, somebody is about to remove the volume or
\* to make it its own, every network has its owner's id or is about to be kept.
HasBox(o) == handle[o] = box.id \/ (nodePc[o] \in {"start", "wait"} /\ local[o] = box.id)

HasVolume(o) ==
  \/ handle[o] # 0 \/ nodePc[o] \in {"net", "pull", "create"}
  \/ nodePc[o] = "stop.net" /\ initialized[o]

BoxReached == box.id # 0 /\ box.owner # "before" => \E o \in Owner : HasBox(o)

VolumeReached == volume => kind = "anvil" /\ (box.id # 0 \/ \E o \in Owner : HasVolume(o))

NetworksReached ==
  \A o \in Owner :
    network[o] => netHeld[o] \/ (kind = "anvil" /\ nodePc[o] \in {"net", "pull", "create"})

Reached == ~told /\ ~swallowed => BoxReached /\ VolumeReached /\ NetworksReached

NodesInv == NodesInRange /\ Apart /\ InHand /\ Reached


-----------------------------------------------------------------------------
(* What the parts of an action do.                                         *)

LEMMA Goes ==
  ASSUME CallsTyped, NEW o \in Owner, NEW s \in Nodes!Step, Nodes!Goto(o, s)
  PROVE  /\ nodePc' \in [Owner -> Nodes!Step] /\ calls' \in [Owner -> 0 .. MaxCalls] /\ told' \in BOOLEAN
         /\ nodePc' = [nodePc EXCEPT ![o] = s] /\ told' = told
  BY DEF CallsTyped, Nodes!Goto

LEMMA Returns ==
  ASSUME CallsTyped, NEW o \in Owner, NEW r \in {"ok", "err"}, Nodes!Return(o, r)
  PROVE  /\ nodePc' \in [Owner -> Nodes!Step] /\ local' \in [Owner -> Nodes!Id]
         /\ calls' \in [Owner -> 0 .. MaxCalls] /\ told' \in BOOLEAN
         /\ nodePc' = [nodePc EXCEPT ![o] = "idle"] /\ local' = [local EXCEPT ![o] = 0]
         /\ told' = (told \/ r = "err")
<1>1. 0 \in Nodes!Id
  BY StandaloneAssumption DEF Nodes!Id
<1> QED BY <1>1 DEF CallsTyped, Nodes!Return, Nodes!Step

LEMMA Removal ==
  ASSUME NodesInRange, NEW b \in Nodes!AfterRemoval
  PROVE  /\ b \in Nodes!Box /\ b.id <= ids /\ (b.id = 0) = (b.status = "absent")
         /\ b.ready => b.status = "running"
         /\ b.id # 0 => b.id = box.id /\ b.owner = box.owner
<1> USE StandaloneAssumption DEF NodesInRange, DockerTyped
<1>1. CASE b = Nodes!NoBox
  BY <1>1 DEF Nodes!NoBox, Nodes!Box, Nodes!Id
<1>2. CASE b = box
  BY <1>2 DEF Nodes!Box, Nodes!Id
<1>3. CASE box.id # 0 /\ b = [box EXCEPT !.status = "stopped", !.ready = FALSE]
  BY <1>3 DEF Nodes!Box, Nodes!Id
<1> QED BY <1>1, <1>2, <1>3 DEF Nodes!AfterRemoval

LEMMA Running ==
  ASSUME NodesInRange, NEW o \in Owner, Nodes!Runs(o)
  PROVE  /\ DockerTyped' /\ box'.id = box.id /\ box'.owner = box.owner
         /\ box.id = local[o] /\ local[o] # 0
         /\ UNCHANGED <<ids, volume, network>>
  BY StandaloneAssumption DEF NodesInRange, DockerTyped, Nodes!Runs, Nodes!Mine, Nodes!Box, Nodes!Id

LEMMA Created ==
  ASSUME NodesInRange, NEW o \in Owner, Nodes!NewBox(o)
  PROVE  /\ DockerTyped' /\ box.id = 0 /\ ids' = ids + 1 /\ ids' \in Nodes!Id /\ ids' # 0
         /\ box'.id = ids' /\ box'.owner = o
         /\ volume' = (volume \/ kind = "anvil") /\ UNCHANGED network
<1> USE StandaloneAssumption DEF NodesInRange, DockerTyped, Nodes!NewBox
<1>1. ids' = ids + 1 /\ ids' \in Nodes!Id /\ ids' # 0
  BY DEF Nodes!Id
<1>2. box' \in Nodes!Box /\ box'.id = ids' /\ box'.status = "created" /\ ~box'.ready /\ box'.owner = o
  BY <1>1 DEF Nodes!Box
<1>3. volume' \in BOOLEAN
  OBVIOUS
<1> QED BY <1>1, <1>2, <1>3 DEF Nodes!Id

-----------------------------------------------------------------------------
(* Every action keeps the invariant.                                       *)

LEMMA BeginStep ==
  ASSUME NodesInv, NEW o \in Owner, NEW s \in Nodes!Step, NEW id, Nodes!Begin(o, s, id),
         \/ kind = "anvil" /\ s = "clean" /\ id = 0
         \/ kind = "anvil" /\ handle[o] # 0 /\ s = "start" /\ id = handle[o]
         \/ kind = "zakura" /\ handle[o] = 0 /\ s = "probe" /\ id = 0
         \/ kind = "nostr" /\ s = "pull" /\ id = 0
         \/ s = "stop" /\ id = handle[o]
  PROVE  NodesInv'
<1> USE StandaloneAssumption DEF NodesInv, NodesInRange
<1>1. NodesInRange'
  <2>1. DockerTyped'
    BY DEF Nodes!Begin, Nodes!dockerVars, Nodes!ownerVars, Nodes!callVars, DockerTyped, Nodes!Box, Nodes!Id
  <2>2. OwnersTyped'
    BY DEF Nodes!Begin, Nodes!dockerVars, Nodes!ownerVars, Nodes!callVars, DockerTyped, OwnersTyped, CallsTyped, Nodes!Id
  <2>3. CallsTyped'
    BY DEF Nodes!Begin, Nodes!dockerVars, Nodes!ownerVars, Nodes!callVars, DockerTyped, OwnersTyped, CallsTyped, Nodes!Id, Nodes!Step
  <2> QED BY <2>1, <2>2, <2>3
<1>2. Apart'
  BY DEF Nodes!Begin, Nodes!dockerVars, Nodes!ownerVars, Nodes!callVars, DockerTyped, OwnersTyped, CallsTyped, Nodes!Id, Apart, InHand
<1>3. InHand'
  BY DEF Nodes!Begin, Nodes!dockerVars, Nodes!ownerVars, Nodes!callVars, OwnersTyped, CallsTyped, InHand
<1>4. Reached'
  <2> SUFFICES ASSUME ~told', ~swallowed'
               PROVE  BoxReached' /\ VolumeReached' /\ NetworksReached'
    BY DEF Reached
  <2>1. BoxReached'
    BY DEF Nodes!Begin, Nodes!dockerVars, Nodes!ownerVars, Nodes!callVars, DockerTyped, OwnersTyped, CallsTyped, InHand, Reached, BoxReached, HasBox, Apart, Nodes!Id
  <2>2. VolumeReached'
    BY DEF Nodes!Begin, Nodes!dockerVars, Nodes!ownerVars, Nodes!callVars, DockerTyped, OwnersTyped, CallsTyped, InHand, Reached, VolumeReached, HasVolume
  <2>3. NetworksReached'
    BY DEF Nodes!Begin, Nodes!dockerVars, Nodes!ownerVars, Nodes!callVars, DockerTyped, OwnersTyped, CallsTyped, InHand, Reached, NetworksReached
  <2> QED BY <2>1, <2>2, <2>3
<1> QED BY <1>1, <1>2, <1>3, <1>4

LEMMA FailStep ==
  ASSUME NodesInv, NEW o \in Owner, Nodes!Fail(o)
  PROVE  NodesInv'
<1> USE StandaloneAssumption DEF NodesInv, NodesInRange
<1>1. NodesInRange'
  <2>1. DockerTyped'
    BY Returns DEF Nodes!Fail, Nodes!dockerVars, Nodes!ownerVars, Nodes!callVars, DockerTyped, Nodes!Box, Nodes!Id
  <2>2. OwnersTyped'
    BY Returns DEF Nodes!Fail, Nodes!dockerVars, Nodes!ownerVars, Nodes!callVars, DockerTyped, OwnersTyped, CallsTyped, Nodes!Id
  <2>3. CallsTyped'
    BY Returns DEF Nodes!Fail, Nodes!dockerVars, Nodes!ownerVars, Nodes!callVars, DockerTyped, OwnersTyped, CallsTyped, Nodes!Id, Nodes!Step
  <2> QED BY <2>1, <2>2, <2>3
<1>2. Apart'
  BY Returns DEF Nodes!Fail, Nodes!dockerVars, Nodes!ownerVars, Nodes!callVars, DockerTyped, OwnersTyped, CallsTyped, Nodes!Id, Apart, InHand
<1>3. InHand'
  BY Returns DEF Nodes!Fail, Nodes!dockerVars, Nodes!ownerVars, Nodes!callVars, OwnersTyped, CallsTyped, InHand
<1>4. Reached'
  <2> SUFFICES ASSUME ~told', ~swallowed'
               PROVE  BoxReached' /\ VolumeReached' /\ NetworksReached'
    BY DEF Reached
  <2>1. BoxReached'
    BY Returns DEF Nodes!Fail, Nodes!dockerVars, Nodes!ownerVars, Nodes!callVars, DockerTyped, OwnersTyped, CallsTyped, InHand, Reached, BoxReached, HasBox, Apart, Nodes!Id
  <2>2. VolumeReached'
    BY Returns DEF Nodes!Fail, Nodes!dockerVars, Nodes!ownerVars, Nodes!callVars, DockerTyped, OwnersTyped, CallsTyped, InHand, Reached, VolumeReached, HasVolume
  <2>3. NetworksReached'
    BY Returns DEF Nodes!Fail, Nodes!dockerVars, Nodes!ownerVars, Nodes!callVars, DockerTyped, OwnersTyped, CallsTyped, InHand, Reached, NetworksReached
  <2> QED BY <2>1, <2>2, <2>3
<1> QED BY <1>1, <1>2, <1>3, <1>4

LEMMA ProbeStep ==
  ASSUME NodesInv, NEW o \in Owner, Nodes!Probe(o)
  PROVE  NodesInv'
<1> USE StandaloneAssumption DEF NodesInv, NodesInRange
<1>1. NodesInRange'
  <2>1. DockerTyped'
    BY Goes, Returns DEF Nodes!Step, Nodes!Probe, Nodes!dockerVars, Nodes!ownerVars, Nodes!callVars, DockerTyped, Nodes!Box, Nodes!Id
  <2>2. OwnersTyped'
    BY Goes, Returns DEF Nodes!Step, Nodes!Probe, Nodes!dockerVars, Nodes!ownerVars, Nodes!callVars, DockerTyped, OwnersTyped, CallsTyped, Nodes!Id
  <2>3. CallsTyped'
    BY Goes, Returns DEF Nodes!Step, Nodes!Probe, Nodes!dockerVars, Nodes!ownerVars, Nodes!callVars, DockerTyped, OwnersTyped, CallsTyped, Nodes!Id, Nodes!Step
  <2> QED BY <2>1, <2>2, <2>3
<1>2. Apart'
  BY Goes, Returns DEF Nodes!Step, Nodes!Probe, Nodes!dockerVars, Nodes!ownerVars, Nodes!callVars, DockerTyped, OwnersTyped, CallsTyped, Nodes!Id, Apart, InHand
<1>3. InHand'
  BY Goes, Returns DEF Nodes!Step, Nodes!Probe, Nodes!dockerVars, Nodes!ownerVars, Nodes!callVars, OwnersTyped, CallsTyped, InHand
<1>4. Reached'
  <2> SUFFICES ASSUME ~told', ~swallowed'
               PROVE  BoxReached' /\ VolumeReached' /\ NetworksReached'
    BY DEF Reached
  <2>1. BoxReached'
    BY Goes, Returns DEF Nodes!Step, Nodes!Probe, Nodes!dockerVars, Nodes!ownerVars, Nodes!callVars, DockerTyped, OwnersTyped, CallsTyped, InHand, Reached, BoxReached, HasBox, Apart, Nodes!Id
  <2>2. VolumeReached'
    BY Goes, Returns DEF Nodes!Step, Nodes!Probe, Nodes!dockerVars, Nodes!ownerVars, Nodes!callVars, DockerTyped, OwnersTyped, CallsTyped, InHand, Reached, VolumeReached, HasVolume
  <2>3. NetworksReached'
    BY Goes, Returns DEF Nodes!Step, Nodes!Probe, Nodes!dockerVars, Nodes!ownerVars, Nodes!callVars, DockerTyped, OwnersTyped, CallsTyped, InHand, Reached, NetworksReached
  <2> QED BY <2>1, <2>2, <2>3
<1> QED BY <1>1, <1>2, <1>3, <1>4

LEMMA CleanStep ==
  ASSUME NodesInv, NEW o \in Owner, Nodes!Clean(o)
  PROVE  NodesInv'
<1> USE StandaloneAssumption DEF NodesInv, NodesInRange
<1>1. NodesInRange'
  <2>1. DockerTyped'
    BY Removal, Goes DEF Nodes!Step, Nodes!Clean, Nodes!dockerVars, Nodes!ownerVars, Nodes!callVars, DockerTyped, Nodes!Box, Nodes!Id
  <2>2. OwnersTyped'
    BY Removal, Goes DEF Nodes!Step, Nodes!Clean, Nodes!dockerVars, Nodes!ownerVars, Nodes!callVars, DockerTyped, OwnersTyped, CallsTyped, Nodes!Id
  <2>3. CallsTyped'
    BY Removal, Goes DEF Nodes!Step, Nodes!Clean, Nodes!dockerVars, Nodes!ownerVars, Nodes!callVars, DockerTyped, OwnersTyped, CallsTyped, Nodes!Id, Nodes!Step
  <2> QED BY <2>1, <2>2, <2>3
<1>2. Apart'
  BY Removal, Goes DEF Nodes!Step, Nodes!Clean, Nodes!dockerVars, Nodes!ownerVars, Nodes!callVars, DockerTyped, OwnersTyped, CallsTyped, Nodes!Id, Apart, InHand
<1>3. InHand'
  BY Removal, Goes DEF Nodes!Step, Nodes!Clean, Nodes!dockerVars, Nodes!ownerVars, Nodes!callVars, OwnersTyped, CallsTyped, InHand
<1>4. Reached'
  <2> SUFFICES ASSUME ~told', ~swallowed'
               PROVE  BoxReached' /\ VolumeReached' /\ NetworksReached'
    BY DEF Reached
  <2>1. BoxReached'
    BY Removal, Goes DEF Nodes!Step, Nodes!Clean, Nodes!dockerVars, Nodes!ownerVars, Nodes!callVars, DockerTyped, OwnersTyped, CallsTyped, InHand, Reached, BoxReached, HasBox, Apart, Nodes!Id
  <2>2. VolumeReached'
    BY Removal, Goes DEF Nodes!Step, Nodes!Clean, Nodes!dockerVars, Nodes!ownerVars, Nodes!callVars, DockerTyped, OwnersTyped, CallsTyped, InHand, Reached, VolumeReached, HasVolume
  <2>3. NetworksReached'
    BY Removal, Goes DEF Nodes!Step, Nodes!Clean, Nodes!dockerVars, Nodes!ownerVars, Nodes!callVars, DockerTyped, OwnersTyped, CallsTyped, InHand, Reached, NetworksReached
  <2> QED BY <2>1, <2>2, <2>3
<1> QED BY <1>1, <1>2, <1>3, <1>4

LEMMA HostPortStep ==
  ASSUME NodesInv, NEW o \in Owner, Nodes!HostPort(o)
  PROVE  NodesInv'
<1> USE StandaloneAssumption DEF NodesInv, NodesInRange
<1>1. NodesInRange'
  <2>1. DockerTyped'
    BY Returns DEF Nodes!HostPort, Nodes!dockerVars, Nodes!ownerVars, Nodes!callVars, DockerTyped, Nodes!Box, Nodes!Id
  <2>2. OwnersTyped'
    BY Returns DEF Nodes!HostPort, Nodes!dockerVars, Nodes!ownerVars, Nodes!callVars, DockerTyped, OwnersTyped, CallsTyped, Nodes!Id
  <2>3. CallsTyped'
    BY Returns DEF Nodes!HostPort, Nodes!dockerVars, Nodes!ownerVars, Nodes!callVars, DockerTyped, OwnersTyped, CallsTyped, Nodes!Id, Nodes!Step
  <2> QED BY <2>1, <2>2, <2>3
<1>2. Apart'
  BY Returns DEF Nodes!HostPort, Nodes!dockerVars, Nodes!ownerVars, Nodes!callVars, DockerTyped, OwnersTyped, CallsTyped, Nodes!Id, Apart, InHand
<1>3. InHand'
  BY Returns DEF Nodes!HostPort, Nodes!dockerVars, Nodes!ownerVars, Nodes!callVars, OwnersTyped, CallsTyped, InHand
<1>4. Reached'
  <2> SUFFICES ASSUME ~told', ~swallowed'
               PROVE  BoxReached' /\ VolumeReached' /\ NetworksReached'
    BY DEF Reached
  <2>1. BoxReached'
    BY Returns DEF Nodes!HostPort, Nodes!dockerVars, Nodes!ownerVars, Nodes!callVars, DockerTyped, OwnersTyped, CallsTyped, InHand, Reached, BoxReached, HasBox, Apart, Nodes!Id
  <2>2. VolumeReached'
    BY Returns DEF Nodes!HostPort, Nodes!dockerVars, Nodes!ownerVars, Nodes!callVars, DockerTyped, OwnersTyped, CallsTyped, InHand, Reached, VolumeReached, HasVolume
  <2>3. NetworksReached'
    BY Returns DEF Nodes!HostPort, Nodes!dockerVars, Nodes!ownerVars, Nodes!callVars, DockerTyped, OwnersTyped, CallsTyped, InHand, Reached, NetworksReached
  <2> QED BY <2>1, <2>2, <2>3
<1> QED BY <1>1, <1>2, <1>3, <1>4

LEMMA PullStep ==
  ASSUME NodesInv, NEW o \in Owner, Nodes!Pull(o), ~Nodes!Fail(o)
  PROVE  NodesInv'
<1> USE StandaloneAssumption DEF NodesInv, NodesInRange
<1>1. NodesInRange'
  <2>1. DockerTyped'
    BY Goes DEF Nodes!Step, Nodes!Pull, Nodes!dockerVars, Nodes!ownerVars, Nodes!callVars, DockerTyped, Nodes!Box, Nodes!Id
  <2>2. OwnersTyped'
    BY Goes DEF Nodes!Step, Nodes!Pull, Nodes!dockerVars, Nodes!ownerVars, Nodes!callVars, DockerTyped, OwnersTyped, CallsTyped, Nodes!Id
  <2>3. CallsTyped'
    BY Goes DEF Nodes!Step, Nodes!Pull, Nodes!dockerVars, Nodes!ownerVars, Nodes!callVars, DockerTyped, OwnersTyped, CallsTyped, Nodes!Id, Nodes!Step
  <2> QED BY <2>1, <2>2, <2>3
<1>2. Apart'
  BY Goes DEF Nodes!Step, Nodes!Pull, Nodes!dockerVars, Nodes!ownerVars, Nodes!callVars, DockerTyped, OwnersTyped, CallsTyped, Nodes!Id, Apart, InHand
<1>3. InHand'
  BY Goes DEF Nodes!Step, Nodes!Pull, Nodes!dockerVars, Nodes!ownerVars, Nodes!callVars, OwnersTyped, CallsTyped, InHand
<1>4. Reached'
  <2> SUFFICES ASSUME ~told', ~swallowed'
               PROVE  BoxReached' /\ VolumeReached' /\ NetworksReached'
    BY DEF Reached
  <2>1. BoxReached'
    BY Goes DEF Nodes!Step, Nodes!Pull, Nodes!dockerVars, Nodes!ownerVars, Nodes!callVars, DockerTyped, OwnersTyped, CallsTyped, InHand, Reached, BoxReached, HasBox, Apart, Nodes!Id
  <2>2. VolumeReached'
    <3>1. ASSUME NEW p \in Owner, HasVolume(p)
          PROVE  HasVolume(p)'
      BY <3>1, Goes DEF Nodes!Step, Nodes!Pull, Nodes!dockerVars, Nodes!ownerVars, OwnersTyped, CallsTyped, HasVolume
    <3> QED BY <3>1, Goes DEF Nodes!Step, Nodes!Pull, Nodes!dockerVars, Nodes!ownerVars, CallsTyped, InHand, Reached, VolumeReached
  <2>3. NetworksReached'
    BY Goes DEF Nodes!Step, Nodes!Pull, Nodes!dockerVars, Nodes!ownerVars, Nodes!callVars, DockerTyped, OwnersTyped, CallsTyped, InHand, Reached, NetworksReached
  <2> QED BY <2>1, <2>2, <2>3
<1> QED BY <1>1, <1>2, <1>3, <1>4

LEMMA CreateNetworkStep ==
  ASSUME NodesInv, NEW o \in Owner, Nodes!CreateNetwork(o), ~Nodes!Fail(o)
  PROVE  NodesInv'
<1> USE StandaloneAssumption DEF NodesInv, NodesInRange
<1>1. NodesInRange'
  <2>1. DockerTyped'
    BY Goes DEF Nodes!Step, Nodes!CreateNetwork, Nodes!dockerVars, Nodes!ownerVars, Nodes!callVars, DockerTyped, Nodes!Box, Nodes!Id
  <2>2. OwnersTyped'
    BY Goes DEF Nodes!Step, Nodes!CreateNetwork, Nodes!dockerVars, Nodes!ownerVars, Nodes!callVars, DockerTyped, OwnersTyped, CallsTyped, Nodes!Id
  <2>3. CallsTyped'
    BY Goes DEF Nodes!Step, Nodes!CreateNetwork, Nodes!dockerVars, Nodes!ownerVars, Nodes!callVars, DockerTyped, OwnersTyped, CallsTyped, Nodes!Id, Nodes!Step
  <2> QED BY <2>1, <2>2, <2>3
<1>2. Apart'
  BY Goes DEF Nodes!Step, Nodes!CreateNetwork, Nodes!dockerVars, Nodes!ownerVars, Nodes!callVars, DockerTyped, OwnersTyped, CallsTyped, Nodes!Id, Apart, InHand
<1>3. InHand'
  BY Goes DEF Nodes!Step, Nodes!CreateNetwork, Nodes!dockerVars, Nodes!ownerVars, Nodes!callVars, OwnersTyped, CallsTyped, InHand
<1>4. Reached'
  <2> SUFFICES ASSUME ~told', ~swallowed'
               PROVE  BoxReached' /\ VolumeReached' /\ NetworksReached'
    BY DEF Reached
  <2>1. BoxReached'
    BY Goes DEF Nodes!Step, Nodes!CreateNetwork, Nodes!dockerVars, Nodes!ownerVars, Nodes!callVars, DockerTyped, OwnersTyped, CallsTyped, InHand, Reached, BoxReached, HasBox, Apart, Nodes!Id
  <2>2. VolumeReached'
    <3>1. ASSUME NEW p \in Owner, HasVolume(p)
          PROVE  HasVolume(p)'
      BY <3>1, Goes DEF Nodes!Step, Nodes!CreateNetwork, Nodes!dockerVars, Nodes!ownerVars, OwnersTyped, CallsTyped, HasVolume
    <3> QED BY <3>1, Goes DEF Nodes!Step, Nodes!CreateNetwork, Nodes!dockerVars, Nodes!ownerVars, CallsTyped, InHand, Reached, VolumeReached
  <2>3. NetworksReached'
    BY Goes DEF Nodes!Step, Nodes!CreateNetwork, Nodes!dockerVars, Nodes!ownerVars, Nodes!callVars, DockerTyped, OwnersTyped, CallsTyped, InHand, Reached, NetworksReached
  <2> QED BY <2>1, <2>2, <2>3
<1> QED BY <1>1, <1>2, <1>3, <1>4

LEMMA CreateStep ==
  ASSUME NodesInv, NEW o \in Owner, Nodes!Create(o), ~Nodes!Fail(o)
  PROVE  NodesInv'
<1> USE StandaloneAssumption DEF NodesInv, NodesInRange
<1>1. NodesInRange'
  <2>1. DockerTyped'
    BY Goes, Returns, Created DEF Nodes!Step, Nodes!Create, Nodes!dockerVars, Nodes!ownerVars, Nodes!callVars, DockerTyped, Nodes!Box, Nodes!Id
  <2>2. OwnersTyped'
    <3>1. ids + 1 \in Nodes!Id
      BY Created DEF Nodes!Create
    <3> QED BY <3>1 DEF Nodes!Create, OwnersTyped, Nodes!ownerVars
  <2>3. CallsTyped'
    BY Goes, Returns, Created DEF Nodes!Step, Nodes!Create, Nodes!dockerVars, Nodes!ownerVars, Nodes!callVars, DockerTyped, OwnersTyped, CallsTyped, Nodes!Id, Nodes!Step
  <2> QED BY <2>1, <2>2, <2>3
<1>2. Apart'
  BY Goes, Returns, Created DEF Nodes!Step, Nodes!Create, Nodes!dockerVars, Nodes!ownerVars, Nodes!callVars, DockerTyped, OwnersTyped, CallsTyped, Nodes!Id, Apart, InHand
<1>3. InHand'
  BY Goes, Returns, Created DEF Nodes!Step, Nodes!Create, Nodes!dockerVars, Nodes!ownerVars, Nodes!callVars, OwnersTyped, CallsTyped, InHand
<1>4. Reached'
  <2> SUFFICES ASSUME ~told', ~swallowed'
               PROVE  BoxReached' /\ VolumeReached' /\ NetworksReached'
    BY DEF Reached
  <2>1. BoxReached'
    BY Goes, Returns, Created DEF Nodes!Step, Nodes!Create, Nodes!dockerVars, Nodes!ownerVars, Nodes!callVars, DockerTyped, OwnersTyped, CallsTyped, InHand, Reached, BoxReached, HasBox, Apart, Nodes!Id
  <2>2. VolumeReached'
    BY Goes, Returns, Created DEF Nodes!Step, Nodes!Create, Nodes!dockerVars, Nodes!ownerVars, Nodes!callVars, DockerTyped, OwnersTyped, CallsTyped, InHand, Reached, VolumeReached, HasVolume
  <2>3. NetworksReached'
    BY Goes, Returns, Created DEF Nodes!Step, Nodes!Create, Nodes!dockerVars, Nodes!ownerVars, Nodes!callVars, DockerTyped, OwnersTyped, CallsTyped, InHand, Reached, NetworksReached
  <2> QED BY <2>1, <2>2, <2>3
<1> QED BY <1>1, <1>2, <1>3, <1>4

LEMMA StartBoxStep ==
  ASSUME NodesInv, NEW o \in Owner, Nodes!StartBox(o), ~Nodes!Fail(o)
  PROVE  NodesInv'
<1> USE StandaloneAssumption DEF NodesInv, NodesInRange
<1>1. NodesInRange'
  <2>1. DockerTyped'
    BY Running, Goes DEF Nodes!Step, Nodes!StartBox, Nodes!dockerVars, Nodes!ownerVars, Nodes!callVars, DockerTyped, Nodes!Box, Nodes!Id
  <2>2. OwnersTyped'
    BY Running, Goes DEF Nodes!Step, Nodes!StartBox, Nodes!dockerVars, Nodes!ownerVars, Nodes!callVars, DockerTyped, OwnersTyped, CallsTyped, Nodes!Id
  <2>3. CallsTyped'
    BY Running, Goes DEF Nodes!Step, Nodes!StartBox, Nodes!dockerVars, Nodes!ownerVars, Nodes!callVars, DockerTyped, OwnersTyped, CallsTyped, Nodes!Id, Nodes!Step
  <2> QED BY <2>1, <2>2, <2>3
<1>2. Apart'
  BY Running, Goes DEF Nodes!Step, Nodes!StartBox, Nodes!dockerVars, Nodes!ownerVars, Nodes!callVars, DockerTyped, OwnersTyped, CallsTyped, Nodes!Id, Apart, InHand
<1>3. InHand'
  BY Running, Goes DEF Nodes!Step, Nodes!StartBox, Nodes!dockerVars, Nodes!ownerVars, Nodes!callVars, OwnersTyped, CallsTyped, InHand
<1>4. Reached'
  <2> SUFFICES ASSUME ~told', ~swallowed'
               PROVE  BoxReached' /\ VolumeReached' /\ NetworksReached'
    BY DEF Reached
  <2>1. BoxReached'
    BY Running, Goes DEF Nodes!Step, Nodes!StartBox, Nodes!dockerVars, Nodes!ownerVars, Nodes!callVars, DockerTyped, OwnersTyped, CallsTyped, InHand, Reached, BoxReached, HasBox, Apart, Nodes!Id
  <2>2. VolumeReached'
    BY Running, Goes DEF Nodes!Step, Nodes!StartBox, Nodes!dockerVars, Nodes!ownerVars, Nodes!callVars, DockerTyped, OwnersTyped, CallsTyped, InHand, Reached, VolumeReached, HasVolume
  <2>3. NetworksReached'
    BY Running, Goes DEF Nodes!Step, Nodes!StartBox, Nodes!dockerVars, Nodes!ownerVars, Nodes!callVars, DockerTyped, OwnersTyped, CallsTyped, InHand, Reached, NetworksReached
  <2> QED BY <2>1, <2>2, <2>3
<1> QED BY <1>1, <1>2, <1>3, <1>4

LEMMA WaitStep ==
  ASSUME NodesInv, NEW o \in Owner, Nodes!Wait(o), ~Nodes!Fail(o)
  PROVE  NodesInv'
<1> USE StandaloneAssumption DEF NodesInv, NodesInRange
<1>1. NodesInRange'
  <2>1. DockerTyped'
    BY Returns DEF Nodes!Wait, Nodes!dockerVars, Nodes!ownerVars, Nodes!callVars, DockerTyped, Nodes!Box, Nodes!Id
  <2>2. OwnersTyped'
    BY Returns DEF Nodes!Wait, Nodes!dockerVars, Nodes!ownerVars, Nodes!callVars, DockerTyped, OwnersTyped, CallsTyped, Nodes!Id
  <2>3. CallsTyped'
    BY Returns DEF Nodes!Wait, Nodes!dockerVars, Nodes!ownerVars, Nodes!callVars, DockerTyped, OwnersTyped, CallsTyped, Nodes!Id, Nodes!Step
  <2> QED BY <2>1, <2>2, <2>3
<1>2. Apart'
  BY Returns DEF Nodes!Wait, Nodes!dockerVars, Nodes!ownerVars, Nodes!callVars, DockerTyped, OwnersTyped, CallsTyped, Nodes!Id, Apart, InHand
<1>3. InHand'
  BY Returns DEF Nodes!Wait, Nodes!dockerVars, Nodes!ownerVars, Nodes!callVars, OwnersTyped, CallsTyped, InHand
<1>4. Reached'
  <2> SUFFICES ASSUME ~told', ~swallowed'
               PROVE  BoxReached' /\ VolumeReached' /\ NetworksReached'
    BY DEF Reached
  <2>1. BoxReached'
    BY Returns DEF Nodes!Wait, Nodes!dockerVars, Nodes!ownerVars, Nodes!callVars, DockerTyped, OwnersTyped, CallsTyped, InHand, Reached, BoxReached, HasBox, Apart, Nodes!Id
  <2>2. VolumeReached'
    BY Returns DEF Nodes!Wait, Nodes!dockerVars, Nodes!ownerVars, Nodes!callVars, DockerTyped, OwnersTyped, CallsTyped, InHand, Reached, VolumeReached, HasVolume
  <2>3. NetworksReached'
    BY Returns DEF Nodes!Wait, Nodes!dockerVars, Nodes!ownerVars, Nodes!callVars, DockerTyped, OwnersTyped, CallsTyped, InHand, Reached, NetworksReached
  <2> QED BY <2>1, <2>2, <2>3
<1> QED BY <1>1, <1>2, <1>3, <1>4

LEMMA StopBoxStep ==
  ASSUME NodesInv, NEW o \in Owner, Nodes!StopBox(o)
  PROVE  NodesInv'
<1> USE StandaloneAssumption DEF NodesInv, NodesInRange
<1>1. PICK b \in (IF Nodes!Mine(o) THEN Nodes!AfterRemoval ELSE {box}) :
        /\ box' = b /\ swallowed' = (swallowed \/ (Nodes!Mine(o) /\ b.id # 0 /\ kind # "nostr"))
        /\ kind = "nostr" /\ Nodes!Mine(o) /\ b.id # 0 => told'
        /\ UNCHANGED <<kind, ids, volume, network, netHeld, initialized, reused>>
        /\ handle' = [handle EXCEPT ![o] = 0] /\ nodePc[o] = "stop"
        /\ \/ kind = "anvil" /\ Nodes!Goto(o, "stop.net") /\ UNCHANGED local
           \/ kind # "anvil" /\ \E r \in {"ok", "err"} : Nodes!Return(o, r)
  <2>1. kind \in {"anvil", "zakura", "nostr"}
    BY DEF CallsTyped
  <2>2. ASSUME Nodes!Return(o, "err")
        PROVE  told'
    BY <2>2 DEF Nodes!Return
  <2> QED BY <2>1, <2>2 DEF Nodes!StopBox
<1>2. /\ nodePc' \in [Owner -> Nodes!Step] /\ local' \in [Owner -> Nodes!Id]
      /\ calls' \in [Owner -> 0 .. MaxCalls] /\ told' \in BOOLEAN /\ (told => told')
      /\ \/ /\ kind = "anvil" /\ nodePc' = [nodePc EXCEPT ![o] = "stop.net"] /\ UNCHANGED local
         \/ /\ kind # "anvil" /\ nodePc' = [nodePc EXCEPT ![o] = "idle"]
            /\ local' = [local EXCEPT ![o] = 0]
  <2>1. "stop.net" \in Nodes!Step /\ local \in [Owner -> Nodes!Id] /\ told \in BOOLEAN
    BY DEF Nodes!Step, CallsTyped
  <2> QED BY <1>1, <2>1, Goes, Returns
<1>3. /\ b \in Nodes!Box /\ b.id <= ids /\ (b.id = 0) = (b.status = "absent")
      /\ b.ready => b.status = "running"
      /\ b.id # 0 => b.id = box.id /\ b.owner = box.owner
      /\ handle[o] = local[o] /\ (b.id # 0 => Nodes!Mine(o) \/ b = box)
  BY <1>1, Removal DEF DockerTyped, InHand
<1>4. NodesInRange'
  <2>1. DockerTyped'
    BY <1>1, <1>3 DEF DockerTyped
  <2>2. OwnersTyped'
    BY <1>1 DEF OwnersTyped, Nodes!Id
  <2>3. CallsTyped'
    BY <1>1, <1>2 DEF CallsTyped
  <2> QED BY <2>1, <2>2, <2>3
<1>5. Apart'
  BY <1>1, <1>2 DEF DockerTyped, OwnersTyped, CallsTyped, Nodes!Id, Apart
<1>6. InHand'
  BY <1>1, <1>2 DEF OwnersTyped, CallsTyped, InHand
<1>7. Reached'
  <2> SUFFICES ASSUME ~told', ~swallowed'
               PROVE  BoxReached' /\ VolumeReached' /\ NetworksReached'
    BY DEF Reached
  <2>1. ~told /\ ~swallowed /\ (Nodes!Mine(o) => b.id = 0)
    BY <1>1, <1>2 DEF CallsTyped
  <2>2. BoxReached'
    <3> SUFFICES ASSUME b.id # 0, b.owner # "before"
                 PROVE  \E p \in Owner : HasBox(p)'
      BY <1>1 DEF BoxReached
    <3>1. b = box /\ ~Nodes!Mine(o)
      BY <1>1, <2>1
    <3>2. PICK p \in Owner : HasBox(p)
      BY <2>1, <3>1 DEF Reached, BoxReached
    <3>3. p # o
      BY <1>1, <1>3, <3>1, <3>2 DEF HasBox, Nodes!Mine
    <3> QED BY <1>1, <1>2, <3>1, <3>2, <3>3 DEF HasBox, OwnersTyped, CallsTyped
  <2>3. VolumeReached'
    <3> SUFFICES ASSUME volume, b.id = 0
                 PROVE  kind = "anvil" /\ \E p \in Owner : HasVolume(p)'
      BY <1>1, <2>1 DEF Reached, VolumeReached
    <3>1. kind = "anvil"
      BY <2>1 DEF Reached, VolumeReached
    <3>2. handle[o] # 0 => HasVolume(o)'
      BY <1>1, <1>2, <3>1 DEF InHand, HasVolume, CallsTyped
    <3>3. ASSUME NEW p \in Owner, p # o, HasVolume(p)
          PROVE  HasVolume(p)'
      BY <1>1, <1>2, <3>3 DEF HasVolume, OwnersTyped, CallsTyped
    <3>4. CASE Nodes!Mine(o)
      BY <1>3, <3>1, <3>2, <3>4 DEF Nodes!Mine
    <3>5. CASE ~Nodes!Mine(o)
      <4>1. PICK p \in Owner : HasVolume(p)
        BY <1>1, <2>1, <3>5 DEF Reached, VolumeReached
      <4>2. p = o => handle[o] # 0
        BY <1>1, <4>1 DEF HasVolume
      <4> QED BY <3>1, <3>2, <3>3, <4>1, <4>2
    <3> QED BY <3>4, <3>5
  <2>4. NetworksReached'
    BY <1>1, <1>2, <2>1 DEF CallsTyped, Reached, NetworksReached
  <2> QED BY <2>2, <2>3, <2>4
<1> QED BY <1>4, <1>5, <1>6, <1>7

LEMMA StopNetworkStep ==
  ASSUME NodesInv, NEW o \in Owner, Nodes!StopNetwork(o)
  PROVE  NodesInv'
<1> USE StandaloneAssumption DEF NodesInv, NodesInRange
<1>1. NodesInRange'
  <2>1. DockerTyped'
    <3>1. volume' \in BOOLEAN
      BY DEF Nodes!StopNetwork, DockerTyped
    <3>2. network' \in [Owner -> BOOLEAN]
      BY DEF Nodes!StopNetwork, DockerTyped
    <3> QED BY <3>1, <3>2 DEF Nodes!StopNetwork, DockerTyped
  <2>2. OwnersTyped'
    BY Returns DEF Nodes!StopNetwork, Nodes!dockerVars, Nodes!ownerVars, Nodes!callVars, DockerTyped, OwnersTyped, CallsTyped, Nodes!Id
  <2>3. CallsTyped'
    BY Returns DEF Nodes!StopNetwork, Nodes!dockerVars, Nodes!ownerVars, Nodes!callVars, DockerTyped, OwnersTyped, CallsTyped, Nodes!Id, Nodes!Step
  <2> QED BY <2>1, <2>2, <2>3
<1>2. Apart'
  BY Returns DEF Nodes!StopNetwork, Nodes!dockerVars, Nodes!ownerVars, Nodes!callVars, DockerTyped, OwnersTyped, CallsTyped, Nodes!Id, Apart, InHand
<1>3. InHand'
  BY Returns DEF Nodes!StopNetwork, Nodes!dockerVars, Nodes!ownerVars, Nodes!callVars, OwnersTyped, CallsTyped, InHand
<1>4. Reached'
  <2> SUFFICES ASSUME ~told', ~swallowed'
               PROVE  BoxReached' /\ VolumeReached' /\ NetworksReached'
    BY DEF Reached
  <2>1. BoxReached'
    BY Returns DEF Nodes!StopNetwork, Nodes!dockerVars, Nodes!ownerVars, Nodes!callVars, DockerTyped, OwnersTyped, CallsTyped, InHand, Reached, BoxReached, HasBox, Apart, Nodes!Id
  <2>2. VolumeReached'
    <3>1. /\ ~told /\ ~swallowed /\ (volume' => volume) /\ UNCHANGED <<box, kind>>
          /\ volume' /\ box.id = 0 => ~initialized[o]
      BY Returns DEF Nodes!StopNetwork, DockerTyped, CallsTyped
    <3>2. ASSUME NEW p \in Owner, HasVolume(p), p = o => ~initialized[o]
          PROVE  HasVolume(p)'
      BY <3>2, Returns DEF Nodes!StopNetwork, OwnersTyped, CallsTyped, HasVolume
    <3> QED BY <3>1, <3>2 DEF Reached, VolumeReached
  <2>3. NetworksReached'
    <3>1. ~told /\ ~swallowed /\ (network'[o] => ~netHeld[o])
      BY Returns DEF Nodes!StopNetwork, DockerTyped, CallsTyped
    <3>2. ~network'[o]
      BY <3>1 DEF Nodes!StopNetwork, DockerTyped, Reached, NetworksReached
    <3> QED BY <3>1, <3>2, Returns DEF Nodes!StopNetwork, DockerTyped, OwnersTyped, CallsTyped, Reached, NetworksReached
  <2> QED BY <2>1, <2>2, <2>3
<1> QED BY <1>1, <1>2, <1>3, <1>4

LEMMA CancelStep ==
  ASSUME NodesInv, NEW o \in Owner, Nodes!Cancel(o)
  PROVE  NodesInv'
<1> USE StandaloneAssumption DEF NodesInv, NodesInRange
<1>1. NodesInRange'
  <2>1. DockerTyped'
    BY Removal, Running, Created, Returns DEF Nodes!Cancel, Nodes!Mine, Nodes!dockerVars, Nodes!ownerVars, Nodes!callVars, DockerTyped, Nodes!Box, Nodes!Id
  <2>2. OwnersTyped'
    <3>1. 0 \in Nodes!Id
      BY DEF Nodes!Id
    <3> QED BY <3>1 DEF Nodes!Cancel, OwnersTyped, Nodes!ownerVars
  <2>3. CallsTyped'
    BY Removal, Running, Created, Returns DEF Nodes!Cancel, Nodes!Mine, Nodes!dockerVars, Nodes!ownerVars, Nodes!callVars, DockerTyped, OwnersTyped, CallsTyped, Nodes!Id, Nodes!Step
  <2> QED BY <2>1, <2>2, <2>3
<1>2. Apart'
  BY Removal, Running, Created, Returns DEF Nodes!Cancel, Nodes!Mine, Nodes!dockerVars, Nodes!ownerVars, Nodes!callVars, DockerTyped, OwnersTyped, CallsTyped, Nodes!Id, Apart, InHand
<1>3. InHand'
  BY Removal, Running, Created, Returns DEF Nodes!Cancel, Nodes!Mine, Nodes!dockerVars, Nodes!ownerVars, Nodes!callVars, OwnersTyped, CallsTyped, InHand
<1>4. Reached'
  <2> SUFFICES ASSUME ~told', ~swallowed'
               PROVE  BoxReached' /\ VolumeReached' /\ NetworksReached'
    BY DEF Reached
  <2>1. BoxReached'
    BY Removal, Running, Created, Returns DEF Nodes!Cancel, Nodes!Mine, Nodes!dockerVars, Nodes!ownerVars, Nodes!callVars, DockerTyped, OwnersTyped, CallsTyped, InHand, Reached, BoxReached, HasBox, Apart, Nodes!Id
  <2>2. VolumeReached'
    BY Removal, Running, Created, Returns DEF Nodes!Cancel, Nodes!Mine, Nodes!dockerVars, Nodes!ownerVars, Nodes!callVars, DockerTyped, OwnersTyped, CallsTyped, InHand, Reached, VolumeReached, HasVolume
  <2>3. NetworksReached'
    BY Removal, Running, Created, Returns DEF Nodes!Cancel, Nodes!Mine, Nodes!dockerVars, Nodes!ownerVars, Nodes!callVars, DockerTyped, OwnersTyped, CallsTyped, InHand, Reached, NetworksReached
  <2> QED BY <2>1, <2>2, <2>3
<1> QED BY <1>1, <1>2, <1>3, <1>4

LEMMA BoxReadyStep ==
  ASSUME NodesInv, Nodes!BoxReady
  PROVE  NodesInv'
<1> USE StandaloneAssumption DEF NodesInv, NodesInRange
<1>1. NodesInRange'
  <2>1. DockerTyped'
    BY DEF Nodes!BoxReady, Nodes!dockerVars, Nodes!ownerVars, Nodes!callVars, DockerTyped, Nodes!Box, Nodes!Id
  <2>2. OwnersTyped'
    BY DEF Nodes!BoxReady, Nodes!dockerVars, Nodes!ownerVars, Nodes!callVars, DockerTyped, OwnersTyped, CallsTyped, Nodes!Id
  <2>3. CallsTyped'
    BY DEF Nodes!BoxReady, Nodes!dockerVars, Nodes!ownerVars, Nodes!callVars, DockerTyped, OwnersTyped, CallsTyped, Nodes!Id, Nodes!Step
  <2> QED BY <2>1, <2>2, <2>3
<1>2. Apart'
  BY DEF Nodes!BoxReady, Nodes!dockerVars, Nodes!ownerVars, Nodes!callVars, DockerTyped, OwnersTyped, CallsTyped, Nodes!Id, Apart, InHand
<1>3. InHand'
  BY DEF Nodes!BoxReady, Nodes!dockerVars, Nodes!ownerVars, Nodes!callVars, OwnersTyped, CallsTyped, InHand
<1>4. Reached'
  <2> SUFFICES ASSUME ~told', ~swallowed'
               PROVE  BoxReached' /\ VolumeReached' /\ NetworksReached'
    BY DEF Reached
  <2>1. BoxReached'
    BY DEF Nodes!BoxReady, Nodes!dockerVars, Nodes!ownerVars, Nodes!callVars, DockerTyped, OwnersTyped, CallsTyped, InHand, Reached, BoxReached, HasBox, Apart, Nodes!Id
  <2>2. VolumeReached'
    BY DEF Nodes!BoxReady, Nodes!dockerVars, Nodes!ownerVars, Nodes!callVars, DockerTyped, OwnersTyped, CallsTyped, InHand, Reached, VolumeReached, HasVolume
  <2>3. NetworksReached'
    BY DEF Nodes!BoxReady, Nodes!dockerVars, Nodes!ownerVars, Nodes!callVars, DockerTyped, OwnersTyped, CallsTyped, InHand, Reached, NetworksReached
  <2> QED BY <2>1, <2>2, <2>3
<1> QED BY <1>1, <1>2, <1>3, <1>4

LEMMA BoxExitsStep ==
  ASSUME NodesInv, Nodes!BoxExits
  PROVE  NodesInv'
<1> USE StandaloneAssumption DEF NodesInv, NodesInRange
<1>1. NodesInRange'
  <2>1. DockerTyped'
    BY DEF Nodes!BoxExits, Nodes!dockerVars, Nodes!ownerVars, Nodes!callVars, DockerTyped, Nodes!Box, Nodes!Id
  <2>2. OwnersTyped'
    BY DEF Nodes!BoxExits, Nodes!dockerVars, Nodes!ownerVars, Nodes!callVars, DockerTyped, OwnersTyped, CallsTyped, Nodes!Id
  <2>3. CallsTyped'
    BY DEF Nodes!BoxExits, Nodes!dockerVars, Nodes!ownerVars, Nodes!callVars, DockerTyped, OwnersTyped, CallsTyped, Nodes!Id, Nodes!Step
  <2> QED BY <2>1, <2>2, <2>3
<1>2. Apart'
  BY DEF Nodes!BoxExits, Nodes!dockerVars, Nodes!ownerVars, Nodes!callVars, DockerTyped, OwnersTyped, CallsTyped, Nodes!Id, Apart, InHand
<1>3. InHand'
  BY DEF Nodes!BoxExits, Nodes!dockerVars, Nodes!ownerVars, Nodes!callVars, OwnersTyped, CallsTyped, InHand
<1>4. Reached'
  <2> SUFFICES ASSUME ~told', ~swallowed'
               PROVE  BoxReached' /\ VolumeReached' /\ NetworksReached'
    BY DEF Reached
  <2>1. BoxReached'
    BY DEF Nodes!BoxExits, Nodes!dockerVars, Nodes!ownerVars, Nodes!callVars, DockerTyped, OwnersTyped, CallsTyped, InHand, Reached, BoxReached, HasBox, Apart, Nodes!Id
  <2>2. VolumeReached'
    BY DEF Nodes!BoxExits, Nodes!dockerVars, Nodes!ownerVars, Nodes!callVars, DockerTyped, OwnersTyped, CallsTyped, InHand, Reached, VolumeReached, HasVolume
  <2>3. NetworksReached'
    BY DEF Nodes!BoxExits, Nodes!dockerVars, Nodes!ownerVars, Nodes!callVars, DockerTyped, OwnersTyped, CallsTyped, InHand, Reached, NetworksReached
  <2> QED BY <2>1, <2>2, <2>3
<1> QED BY <1>1, <1>2, <1>3, <1>4

LEMMA NodesInductive == NodesInv /\ [Nodes!Next]_(Nodes!vars) => NodesInv'
<1> SUFFICES ASSUME NodesInv, [Nodes!Next]_(Nodes!vars)
             PROVE  NodesInv'
  OBVIOUS
<1>1. ASSUME NEW o \in Owner,
             \/ Nodes!Initialize(o) \/ Nodes!StartAnvil(o) \/ Nodes!SpawnZakura(o) \/ Nodes!StartRelay(o) \/ Nodes!Stop(o)
      PROVE  NodesInv'
  <2>1. /\ "clean" \in Nodes!Step /\ "start" \in Nodes!Step /\ "probe" \in Nodes!Step
        /\ "pull" \in Nodes!Step /\ "stop" \in Nodes!Step
    BY DEF Nodes!Step
  <2> QED
    BY <1>1, <2>1, BeginStep DEF Nodes!Initialize, Nodes!StartAnvil, Nodes!SpawnZakura, Nodes!StartRelay, Nodes!Stop
<1>2. ASSUME NEW o \in Owner, Nodes!StartRefused(o)
      PROVE  NodesInv'
  BY <1>2, FailStep DEF Nodes!StartRefused
<1>3. ASSUME NEW o \in Owner, Nodes!Continue(o)
      PROVE  NodesInv'
  BY <1>3, FailStep, ProbeStep, CleanStep, CreateNetworkStep, PullStep, CreateStep, StartBoxStep,
     HostPortStep, WaitStep, StopBoxStep, StopNetworkStep DEF Nodes!Continue
<1>4. ASSUME NEW o \in Owner, Nodes!Cancel(o)
      PROVE  NodesInv'
  BY <1>4, CancelStep
<1>5. CASE Nodes!BoxReady \/ Nodes!BoxExits
  BY <1>5, BoxReadyStep, BoxExitsStep
<1>6. CASE UNCHANGED Nodes!vars
  BY <1>6 DEF Nodes!vars, Nodes!dockerVars, Nodes!ownerVars, Nodes!callVars, NodesInv, NodesInRange, DockerTyped, OwnersTyped,
     CallsTyped, Apart, InHand, Reached, BoxReached, VolumeReached, NetworksReached, HasBox,
     HasVolume
<1> QED BY <1>1, <1>2, <1>3, <1>4, <1>5, <1>6 DEF Nodes!Next

LEMMA NodesInitially == Nodes!Init => NodesInv
<1> SUFFICES ASSUME Nodes!Init
             PROVE  NodesInv
  OBVIOUS
<1> USE StandaloneAssumption DEF Nodes!Init
<1>1. Nodes!NoBox \in Nodes!Box /\ Nodes!NoBox.id = 0 /\ Nodes!NoBox.status = "absent" /\ ~Nodes!NoBox.ready
  BY DEF Nodes!NoBox, Nodes!Box, Nodes!Id
<1>2. DockerTyped /\ (box.id # 0 => box.owner = "before" /\ kind # "nostr")
  <2>1. CASE box = Nodes!NoBox
    BY <1>1, <2>1 DEF DockerTyped, Nodes!Id
  <2>2. CASE box # Nodes!NoBox
    <3>1. box \in Nodes!Before /\ kind # "nostr"
      BY <2>2
    <3>2. /\ box \in Nodes!Box /\ box.id = 1 /\ box.owner = "before" /\ box.status # "absent"
          /\ box.ready => box.status = "running"
      BY <2>2, <3>1 DEF Nodes!Before
    <3> QED BY <3>1, <3>2 DEF DockerTyped, Nodes!Id
  <2> QED BY <2>1, <2>2
<1>3. OwnersTyped /\ CallsTyped
  <2>1. 0 \in Nodes!Id /\ 0 \in 0 .. MaxCalls /\ "idle" \in Nodes!Step
    BY DEF Nodes!Id, Nodes!Step
  <2>2. OwnersTyped
    BY <2>1 DEF OwnersTyped
  <2>3. CallsTyped
    BY <2>1 DEF CallsTyped
  <2> QED BY <2>2, <2>3
<1>4. Apart /\ InHand
  BY <1>2 DEF Apart, InHand, DockerTyped, Nodes!Id
<1>5. Reached
  BY <1>2 DEF Reached, BoxReached, VolumeReached, NetworksReached
<1> QED BY <1>2, <1>3, <1>4, <1>5 DEF NodesInv, NodesInRange

LEMMA NodesInvariant == Nodes!Spec => []NodesInv
  BY NodesInitially, NodesInductive, PTL DEF Nodes!Spec

\* Ids, statuses and handles stay in their ranges, and no two owners hold one
\* container, for any number of owners, containers and calls
\* (chain/ethereum.rs, chain/zakura.rs, nostr/relayer_manager.rs).
THEOREM NodesTyped == Nodes!Spec => []Nodes!TypeOK
<1>1. NodesInv => Nodes!TypeOK
  BY DEF NodesInv, NodesInRange, DockerTyped, OwnersTyped, CallsTyped, Apart, Nodes!TypeOK, Nodes!Id
<1> QED BY <1>1, NodesInvariant, PTL

\* When all calls have returned, what is left is in somebody's hands, or was
\* reported, or a removal failed in silence.
THEOREM NothingOrphaned == Nodes!Spec => []NoOrphan
<1>1. NodesInv => NoOrphan
  BY DEF NoOrphan, NodesInv, Reached, BoxReached, VolumeReached, NetworksReached, HasBox, HasVolume, Nodes!Quiet, Nodes!NoOrphan
<1> QED BY <1>1, NodesInvariant, PTL

-----------------------------------------------------------------------------
(* Saves of one snapshot: LastSaveStands of SnapshotStore.                 *)

LEMMA ThreeFiles == Store!Step = 1 .. 3 /\ Len(Store!File) = 3
  BY DEF Store!Step, Store!File

StoreTyped ==
  /\ files \in [Store!Step -> SUBSET Store!Content]
  /\ savePc \in [Saver -> {"idle", "mkdir", "truncate", "fill", "late"}]
  /\ step \in [Saver -> Store!Step] /\ met \in [Saver -> BOOLEAN] /\ clean \in BOOLEAN

Torn(s)  == {[by |-> s, torn |-> TRUE]}
Whole(s) == {[by |-> s, torn |-> FALSE]}

\* Whoever saves beside another knows; nobody saves after a clean end.
Counted ==
  /\ \A s, t \in Saver : s # t /\ savePc[s] # "idle" /\ savePc[t] # "idle" => met[s] /\ met[t]
  /\ clean => \A s \in Saver : savePc[s] = "idle"

\* A save that met no other has its files up to its step.
Written ==
  \A s \in Saver : savePc[s] \in {"mkdir", "truncate", "fill"} /\ ~met[s] =>
    /\ savePc[s] = "mkdir" => step[s] = 1
    /\ savePc[s] = "fill" => files[step[s]] = Torn(s)
    /\ \A i \in Store!Step : i < step[s] => files[i] = Whole(s)

Stands == clean => \E s \in Saver : \A i \in Store!Step : files[i] = Whole(s)

StoreInv == StoreTyped /\ Counted /\ Written /\ Stands

\* The two ways in which a save goes on.
Last(s) ==
  step[s] = 3 /\ savePc' = [savePc EXCEPT ![s] = "idle"] /\ clean' = ~met[s] /\ UNCHANGED step

Further(s) ==
  /\ step[s] \in {1, 2} /\ step' = [step EXCEPT ![s] = @ + 1]
  /\ savePc' = [savePc EXCEPT ![s] = "truncate"] /\ UNCHANGED clean

LEMMA AdvanceCases ==
  ASSUME StoreTyped, NEW s \in Saver, Store!Advance(s)
  PROVE  Last(s) \/ Further(s)
<1>1. step[s] \in 1 .. 3 /\ Len(Store!File) = 3
  BY ThreeFiles DEF StoreTyped
<1>2. CASE step[s] = 3
  BY <1>1, <1>2 DEF Store!Advance, Last
<1>3. CASE step[s] # 3
  BY <1>1, <1>3 DEF Store!Advance, Further
<1> QED BY <1>2, <1>3

LEMMA AdvanceType ==
  ASSUME StoreTyped, NEW s \in Saver, Last(s) \/ Further(s)
  PROVE  /\ savePc' \in [Saver -> {"idle", "mkdir", "truncate", "fill", "late"}]
         /\ step' \in [Saver -> Store!Step] /\ clean' \in BOOLEAN
<1>1. savePc' \in [Saver -> {"idle", "mkdir", "truncate", "fill", "late"}]
  BY DEF StoreTyped, Last, Further
<1>2. step' \in [Saver -> Store!Step]
  BY ThreeFiles DEF StoreTyped, Last, Further
<1>3. clean' \in BOOLEAN
  BY DEF StoreTyped, Last, Further
<1> QED BY <1>1, <1>2, <1>3

LEMMA StoreInductive == StoreInv /\ [Store!Next]_(Store!vars) => StoreInv'
<1> SUFFICES ASSUME StoreInv, [Store!Next]_(Store!vars)
             PROVE  StoreInv'
  OBVIOUS
<1> USE ThreeFiles DEF StoreInv
<1>1. ASSUME NEW s \in Saver, Store!Begin(s)
      PROVE  StoreInv'
  <2>1. StoreTyped'
    <3>1. met' \in [Saver -> BOOLEAN]
      BY <1>1, Zenon DEF Store!Begin
    <3>2. savePc' \in [Saver -> {"idle", "mkdir", "truncate", "fill", "late"}]
      BY <1>1 DEF StoreTyped, Store!Begin
    <3>3. step' \in [Saver -> Store!Step]
      BY <1>1, ThreeFiles DEF StoreTyped, Store!Begin
    <3>4. files' \in [Store!Step -> SUBSET Store!Content] /\ clean' \in BOOLEAN
      BY <1>1 DEF StoreTyped, Store!Begin
    <3> QED BY <3>1, <3>2, <3>3, <3>4 DEF StoreTyped
  <2>2. Counted'
    BY <1>1 DEF StoreTyped, Counted, Store!Begin
  <2>3. Written'
    BY <1>1 DEF StoreTyped, Written, Store!Begin
  <2>4. Stands'
    BY <1>1 DEF Stands, Store!Begin
  <2> QED BY <2>1, <2>2, <2>3, <2>4
<1>2. ASSUME NEW s \in Saver, Store!MakeDir(s)
      PROVE  StoreInv'
  BY <1>2 DEF StoreTyped, Counted, Written, Stands, Store!MakeDir
<1>3. ASSUME NEW s \in Saver, Store!Truncate(s)
      PROVE  StoreInv'
  <2>1. StoreTyped'
    BY <1>3 DEF StoreTyped, Store!Truncate, Store!Content
  <2>2. Counted'
    BY <1>3 DEF StoreTyped, Counted, Store!Truncate
  <2>3. Written'
    BY <1>3 DEF StoreTyped, Counted, Written, Store!Truncate, Torn, Whole
  <2>4. Stands'
    BY <1>3 DEF Counted, Stands, Store!Truncate
  <2> QED BY <2>1, <2>2, <2>3, <2>4
<1>4. ASSUME NEW s \in Saver, Store!Fill(s)
      PROVE  StoreInv'
  <2>1. PICK torn \in BOOLEAN :
          /\ files' = [files EXCEPT ![step[s]] = {[by |-> s, torn |-> torn]}]
          /\ files[step[s]] = Torn(s) => torn = FALSE
    BY <1>4 DEF Store!Fill, Torn
  <2>2. savePc[s] = "fill" /\ (Last(s) \/ Further(s)) /\ UNCHANGED met
    BY <1>4, AdvanceCases DEF Store!Fill
  <2>3. StoreTyped'
    <3>1. files' \in [Store!Step -> SUBSET Store!Content]
      BY <2>1 DEF StoreTyped, Store!Content
    <3> QED BY <3>1, <2>2, AdvanceType DEF StoreTyped
  <2>4. Counted'
    BY <2>2 DEF StoreTyped, Counted, Last, Further
  <2>5. ~met[s] => \A i \in Store!Step : i <= step[s] => files'[i] = Whole(s)
    <3> SUFFICES ASSUME ~met[s], NEW i \in Store!Step, i <= step[s]
                 PROVE  files'[i] = Whole(s)
      OBVIOUS
    <3>1. files[step[s]] = Torn(s) /\ (i < step[s] => files[i] = Whole(s))
      BY <2>2 DEF Written
    <3>2. files' = [files EXCEPT ![step[s]] = Whole(s)]
      BY <2>1, <3>1 DEF Whole
    <3>3. CASE i = step[s]
      BY <3>2, <3>3 DEF StoreTyped
    <3>4. CASE i # step[s]
      <4>1. step[s] \in 1 .. 3 /\ i \in 1 .. 3
        BY DEF StoreTyped
      <4>2. i < step[s]
        BY <3>4, <4>1
      <4> QED BY <3>1, <3>2, <3>4, <4>2 DEF StoreTyped
    <3> QED BY <3>3, <3>4
  <2>6. Written'
    <3> SUFFICES ASSUME NEW t \in Saver, savePc'[t] \in {"mkdir", "truncate", "fill"}, ~met'[t]
                 PROVE  /\ savePc'[t] = "mkdir" => step'[t] = 1
                        /\ savePc'[t] = "fill" => files'[step'[t]] = Torn(t)
                        /\ \A i \in Store!Step : i < step'[t] => files'[i] = Whole(t)
      BY DEF Written, Torn, Whole
    <3>1. t = s
      BY <2>2 DEF StoreTyped, Counted, Last, Further
    <3> QED BY <3>1, <2>2, <2>5 DEF StoreTyped, Last, Further
  <2>7. Stands'
    <3>1. CASE Last(s)
      <4>1. clean' => ~met[s]
        BY <3>1 DEF Last
      <4>2. \A i \in Store!Step : i <= step[s]
        BY <3>1 DEF Last
      <4> QED BY <2>5, <4>1, <4>2 DEF Stands, Whole
    <3>2. CASE Further(s)
      BY <2>2, <3>2 DEF Counted, Stands, Further
    <3> QED BY <2>2, <3>1, <3>2
  <2> QED BY <2>3, <2>4, <2>6, <2>7
<1>5. ASSUME NEW s \in Saver, Store!SaveEnds(s) \/ Store!SaveCancelled(s)
      PROVE  StoreInv'
  <2>1. PICK p \in {"idle", "late"} : savePc' = [savePc EXCEPT ![s] = p]
    BY <1>5 DEF Store!SaveEnds, Store!SaveCancelled
  <2>2. savePc[s] # "idle" /\ clean' = FALSE /\ UNCHANGED <<files, step, met>>
    BY <1>5 DEF Store!SaveEnds, Store!SaveCancelled
  <2>3. StoreTyped'
    BY <2>1, <2>2 DEF StoreTyped
  <2>4. Counted'
    BY <2>1, <2>2 DEF StoreTyped, Counted
  <2>5. Written'
    BY <2>1, <2>2 DEF StoreTyped, Written, Torn, Whole
  <2> QED BY <2>2, <2>3, <2>4, <2>5 DEF Stands
<1>6. ASSUME NEW s \in Saver, Store!LateWrite(s)
      PROVE  StoreInv'
  <2>1. StoreTyped'
    BY <1>6 DEF StoreTyped, Store!LateWrite, Store!Content
  <2>2. Counted' /\ ~clean'
    BY <1>6 DEF StoreTyped, Counted, Store!LateWrite
  <2>3. Written'
    BY <1>6 DEF StoreTyped, Counted, Written, Store!LateWrite
  <2> QED BY <2>1, <2>2, <2>3 DEF Stands
<1>7. CASE UNCHANGED Store!vars
  BY <1>7 DEF StoreTyped, Counted, Written, Stands, Store!vars
<1> QED BY <1>1, <1>2, <1>3, <1>4, <1>5, <1>6, <1>7 DEF Store!Next

LEMMA SavesInvariant == Store!Spec => []StoreInv
<1>1. Store!Init => StoreInv
  <2>1. Store!Init => StoreTyped
    <3> SUFFICES ASSUME Store!Init
                 PROVE  StoreTyped
      OBVIOUS
    <3>1. files \in [Store!Step -> SUBSET Store!Content]
      BY DEF Store!Init, Store!NoFile
    <3>2. savePc \in [Saver -> {"idle", "mkdir", "truncate", "fill", "late"}]
      BY DEF Store!Init
    <3>3. step \in [Saver -> Store!Step]
      BY ThreeFiles DEF Store!Init
    <3>4. met \in [Saver -> BOOLEAN] /\ clean \in BOOLEAN
      BY DEF Store!Init
    <3> QED BY <3>1, <3>2, <3>3, <3>4 DEF StoreTyped
  <2>2. Store!Init => Counted
    BY DEF Store!Init, Counted
  <2>3. Store!Init => Written
    BY DEF Store!Init, Written
  <2>4. Store!Init => Stands
    BY DEF Store!Init, Stands
  <2> QED BY <2>1, <2>2, <2>3, <2>4 DEF StoreInv
<1> QED BY <1>1, StoreInductive, PTL DEF Store!Spec

\* A save that ended well, with none beside it, stands: its three files are its
\* own and whole, for any number of processes that save, are cut off or write
\* late (quickspawn/store.rs).
THEOREM LastSaveAlwaysStands == Store!Spec => []LastSaveStands
<1>1. StoreInv => LastSaveStands
  <2> SUFFICES ASSUME StoreInv, clean
               PROVE  LastSaveStands
    BY DEF LastSaveStands, Store!LastSaveStands
  <2>1. PICK s \in Saver : \A i \in Store!Step : files[i] = Whole(s)
    BY DEF StoreInv, Stands
  <2>2. files[1] = Whole(s)
    BY <2>1, ThreeFiles
  <2>3. Store!Exists
    BY <2>2 DEF Store!Exists, Whole, Store!NoFile
  <2>4. [by |-> s, torn |-> FALSE] \in Store!Loads
    BY <2>2 DEF Store!Loads, Whole
  <2> QED BY <2>1, <2>3, <2>4 DEF LastSaveStands, Store!LastSaveStands, Whole
<1> QED BY <1>1, SavesInvariant, PTL

\* Cardinality as the instance knows it.
LEMMA SameCount == ASSUME NEW S PROVE Store!Cardinality(S) = Cardinality(S)
  BY DEF Store!Cardinality, Cardinality

LEMMA StoreTypes == Store!Spec => []Store!TypeOK
<1> DEFINE AtMostOne == \A i \in Store!Step : files[i] = {} \/ \E c : files[i] = {c}
<1>1. Store!Init => AtMostOne
  BY DEF Store!Init, Store!NoFile
<1>2. StoreTyped /\ AtMostOne /\ [Store!Next]_(Store!vars) => AtMostOne'
  <2> SUFFICES ASSUME StoreTyped, AtMostOne, [Store!Next]_(Store!vars)
               PROVE  AtMostOne'
    OBVIOUS
  <2>1. ASSUME NEW s \in Saver, Store!Truncate(s) \/ Store!Fill(s) \/ Store!LateWrite(s)
        PROVE  AtMostOne'
    <3>1. \E c : files' = [files EXCEPT ![step[s]] = {c}]
      BY <2>1 DEF Store!Truncate, Store!Fill, Store!LateWrite
    <3> QED BY <3>1 DEF StoreTyped
  <2>2. ASSUME NEW s \in Saver, Store!Begin(s) \/ Store!MakeDir(s) \/ Store!SaveEnds(s) \/ Store!SaveCancelled(s)
        PROVE  AtMostOne'
    BY <2>2 DEF Store!Begin, Store!MakeDir, Store!SaveEnds, Store!SaveCancelled
  <2>3. CASE UNCHANGED Store!vars
    BY <2>3 DEF Store!vars
  <2> QED BY <2>1, <2>2, <2>3 DEF Store!Next
<1>3. StoreTyped /\ AtMostOne => Store!TypeOK
  <2> SUFFICES ASSUME StoreTyped, AtMostOne
               PROVE  \A i \in Store!Step : Cardinality(files[i]) <= 1
    BY SameCount DEF StoreTyped, Store!TypeOK
  <2> SUFFICES ASSUME NEW i \in Store!Step
               PROVE  Cardinality(files[i]) <= 1
    OBVIOUS
  <2>1. CASE files[i] = {}
    BY <2>1, FS_EmptySet
  <2>2. CASE \E c : files[i] = {c}
    BY <2>2, FS_Singleton
  <2> QED BY <2>1, <2>2
<1>4. StoreInv => StoreTyped
  BY DEF StoreInv
<1> QED BY <1>1, <1>2, <1>3, <1>4, SavesInvariant, PTL DEF Store!Spec

-----------------------------------------------------------------------------
(* The three together.                                                     *)

LEMMA RunStarts == MCInit => Init /\ Nodes!Init /\ Store!Init
  BY DEF MCInit

LEMMA RunSteps ==
  [MCNext]_mcvars => [Next]_vars /\ [Nodes!Next]_(Nodes!vars) /\ [Store!Next]_(Store!vars)
<1> SUFFICES ASSUME [MCNext]_mcvars
             PROVE  [Next]_vars /\ [Nodes!Next]_(Nodes!vars) /\ [Store!Next]_(Store!vars)
  OBVIOUS
<1> USE DEF nodeVars, storeVars, Nodes!vars, Nodes!dockerVars, Nodes!ownerVars, Nodes!callVars,
            Store!vars
<1>1. CASE Next /\ UNCHANGED <<nodeVars, storeVars>>
  BY <1>1
<1>2. CASE Nodes!Next /\ UNCHANGED <<vars, storeVars>>
  BY <1>2
<1>3. CASE Store!Next /\ UNCHANGED <<vars, nodeVars>>
  BY <1>3
<1>4. CASE UNCHANGED mcvars
  BY <1>4 DEF mcvars
<1> QED BY <1>1, <1>2, <1>3, <1>4 DEF MCNext

\* What is checked of the three together is true of each alone: all that is in
\* the state of the run is well typed, for every value of the constants.
THEOREM RunTyped == MCSpec => []TypesOK
<1>1. MCSpec => Init /\ [][Next]_vars
  BY RunStarts, RunSteps, PTL DEF MCSpec
<1>2. MCSpec => Nodes!Spec /\ Store!Spec
  BY RunStarts, RunSteps, PTL DEF MCSpec, Nodes!Spec, Store!Spec
<1>3. Init /\ [][Next]_vars => []TypeOK
  BY WatcherTyped
<1>4. Nodes!Spec /\ Store!Spec => []Nodes!TypeOK /\ []Store!TypeOK
  BY NodesTyped, StoreTypes
<1> QED BY <1>1, <1>2, <1>3, <1>4, PTL DEF TypesOK
=============================================================================
