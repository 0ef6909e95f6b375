----------------------------- MODULE EventWatcher -----------------------------
(***************************************************************************)
(* ChainEventWatcher (cosmos/event_watcher.rs): a spawned task races the   *)
(* next event of a WebSocket subscription against a shutdown signal and    *)
(* passes parsed events on through a bounded channel.                      *)
(*                                                                         *)
(* While the task waits in send it looks at neither the subscription nor   *)
(* the signal.  What gets it out is a receive, or the end of the receiver, *)
(* and shutdown(self) ends the receiver too, unless the caller has moved   *)
(* rx, a public field, out of the watcher.                                 *)
(***************************************************************************)
EXTENDS Naturals, Sequences, FiniteSetsExt

CONSTANTS Capacity,     \* of the channel: 256 in the code
          MaxEvents     \* bound: transactions on the chain

\* The wasm events of a transaction: has the i-th, of contract i, an action?
Tx == UNION {[1 .. n -> BOOLEAN] : n \in 0 .. 2}

\* A channel without room is refused by tokio.
ASSUME WatcherAssumption == Capacity \in Nat \ {0} /\ MaxEvents \in Nat

VARIABLES
  arrived,              \* the transactions the chain has had, in order
  sub, unread,          \* the subscription, and how many events wait in it
  driver,               \* the task that runs the WebSocket
  pc, cur,              \* the watcher's task, the event it holds
  chan, rx, signal,     \* channel, who holds its receiver, shutdown sender
  received

vars == <<arrived, sub, unread, driver, pc, cur, chan, rx, signal, received>>

\* Contract and action by the index of their wasm event; an action 0 is none,
\* or the type of the transaction's message.
ChainEvent == [n : 1 .. MaxEvents, by : 0 .. 2, act : 0 .. 2]
NoEvent    == [n |-> 0, by |-> 0, act |-> 0]

TypeOK ==
  /\ arrived \in Seq(Tx) /\ Len(arrived) <= MaxEvents
  /\ sub \in {"none", "open", "error", "ended"} /\ unread \in 0 .. MaxEvents
  /\ driver \in {"none", "running", "aborted"}
  /\ pc \in {"none", "select", "send", "over"}
  /\ cur \in ChainEvent \cup {NoEvent} /\ (cur # NoEvent <=> pc = "send")
  /\ chan \in Seq(ChainEvent) /\ Len(chan) <= Capacity
  /\ rx \in {"none", "watcher", "caller", "dropped"}
  /\ signal \in {"none", "held", "sent", "dropped"}
  /\ received \in Seq(ChainEvent)

Init ==
  /\ arrived = <<>> /\ sub = "none" /\ unread = 0 /\ driver = "none"
  /\ pc = "none" /\ cur = NoEvent /\ chan = <<>> /\ rx = "none" /\ signal = "none"
  /\ received = <<>>

-----------------------------------------------------------------------------
(* connect.                                                                *)

Connect ==
  /\ driver = "none" /\ driver' = "running" /\ sub' = "open" /\ pc' = "select"
  /\ rx' = "watcher" /\ signal' = "held"
  /\ UNCHANGED <<arrived, unread, cur, chan, received>>

\* The driver was spawned before subscribe failed: its handle is dropped,
\* which does not abort it.
SubscribeFails ==
  /\ driver = "none" /\ driver' = "running" /\ pc' = "over"
  /\ UNCHANGED <<arrived, sub, unread, cur, chan, rx, signal, received>>

-----------------------------------------------------------------------------
(* The chain and the connection.                                           *)

EventArrives(e) ==
  /\ sub = "open" /\ Len(arrived) < MaxEvents
  /\ arrived' = Append(arrived, e) /\ unread' = unread + 1
  /\ UNCHANGED <<sub, driver, pc, cur, chan, rx, signal, received>>

\* An error item follows what has arrived, or the stream ends without one.
StreamStops ==
  /\ sub = "open" /\ sub' \in {"error", "ended"}
  /\ UNCHANGED <<arrived, unread, driver, pc, cur, chan, rx, signal, received>>

-----------------------------------------------------------------------------
(* The task.                                                               *)

NextRead == Len(arrived) - unread + 1

\* parse_event: the last value of a key wins, and the keys that end in .action
\* come in the order of a map: wasm.action, or message.action.  Without the
\* flat map the wasm events are read in order, to the same effect.
Parsed(n) ==
  LET acts == {i \in DOMAIN arrived[n] : arrived[n][i]}
  IN  [n : {n}, by : {Len(arrived[n])}, act : {0, Max(acts \cup {0})}]

TakeEvent ==
  /\ pc = "select" /\ unread > 0
  /\ unread' = unread - 1 /\ cur' \in Parsed(NextRead) /\ pc' = "send"
  /\ UNCHANGED <<arrived, sub, driver, chan, rx, signal, received>>

Leave ==
  /\ pc' = "over" /\ sub' = "ended" /\ driver' = "aborted"
  /\ UNCHANGED <<arrived, unread, cur, chan, rx, signal, received>>

TakeError == pc = "select" /\ unread = 0 /\ sub = "error" /\ Leave

\* A sender that is dropped resolves the receiver as well.
SeeShutdown == pc = "select" /\ signal \in {"sent", "dropped"} /\ Leave

\* (Mutant) try_send: what does not fit is lost.
SendMut ==
  /\ pc = "send" /\ pc' = "select" /\ cur' = NoEvent
  /\ chan' = IF rx \in {"watcher", "caller"} /\ Len(chan) < Capacity THEN Append(chan, cur) ELSE chan
  /\ UNCHANGED <<arrived, sub, unread, driver, rx, signal, received>>

\* Waits for room; fails, which is ignored, when there is no receiver.
Send ==
  /\ pc = "send" /\ pc' = "select" /\ cur' = NoEvent
  /\ \/ rx \in {"watcher", "caller"} /\ Len(chan) < Capacity /\ chan' = Append(chan, cur)
     \/ rx = "dropped" /\ UNCHANGED chan
  /\ UNCHANGED <<arrived, sub, unread, driver, rx, signal, received>>

Task == TakeEvent \/ TakeError \/ SeeShutdown \/ Send

-----------------------------------------------------------------------------
(* The holder of the watcher.                                              *)

Receive ==
  /\ rx \in {"watcher", "caller"} /\ chan # <<>>
  /\ received' = Append(received, Head(chan)) /\ chan' = Tail(chan)
  /\ UNCHANGED <<arrived, sub, unread, driver, pc, cur, rx, signal>>

\* rx is moved out; the rest of the watcher can no longer be shut down, only
\* dropped.
TakeReceiver ==
  /\ rx = "watcher" /\ rx' = "caller"
  /\ UNCHANGED <<arrived, sub, unread, driver, pc, cur, chan, signal, received>>

DropRest ==
  /\ rx \in {"caller", "dropped"} /\ signal = "held" /\ signal' = "dropped"
  /\ UNCHANGED <<arrived, sub, unread, driver, pc, cur, chan, rx, received>>

DropReceiver ==
  /\ rx = "caller" /\ rx' = "dropped" /\ chan' = <<>>
  /\ UNCHANGED <<arrived, sub, unread, driver, pc, cur, signal, received>>

\* (Mutant) shutdown(&mut self): the receiver stays.
ShutdownMut ==
  /\ rx = "watcher" /\ signal = "held"
  /\ signal' \in {"sent", "dropped"}
  /\ UNCHANGED <<arrived, sub, unread, driver, pc, cur, chan, rx, received>>

\* shutdown consumes the watcher, and with it the receiver; so does a drop.
Shutdown ==
  /\ rx = "watcher" /\ signal = "held"
  /\ signal' \in {"sent", "dropped"} /\ rx' = "dropped" /\ chan' = <<>>
  /\ UNCHANGED <<arrived, sub, unread, driver, pc, cur, received>>

Next ==
  \/ Connect \/ SubscribeFails
  \/ \E e \in Tx : EventArrives(e)
  \/ StreamStops \/ Task
  \/ Receive \/ TakeReceiver \/ DropRest \/ DropReceiver \/ Shutdown

\* The runtime schedules the task.
Spec == Init /\ [][Next]_vars /\ WF_vars(Task)

-----------------------------------------------------------------------------
(* Properties.                                                             *)

\* The task and its WebSocket end once the watcher is shut down or dropped,
\* also when the channel is full and the task waits in send, unless somebody
\* has moved the receiver out and keeps it without receiving.
ShutdownEnds ==
  (signal \in {"sent", "dropped"}) ~> (pc = "over" /\ driver = "aborted") \/ rx = "caller"

Numbers(s) == [i \in DOMAIN s |-> s[i].n]

\* A receiver gets every event the task has read, once and in order, however
\* slow it is; and of a transaction with one wasm event, contract and action
\* belong together.
NothingLost ==
  /\ rx \in {"watcher", "caller"} =>
       LET seen == Numbers(received \o chan \o (IF pc = "send" THEN <<cur>> ELSE <<>>))
       IN  seen = [i \in 1 .. NextRead - 1 |-> i]
  /\ \A i \in DOMAIN received :
       LET tx == arrived[received[i].n] IN
       Len(tx) = 1 => received[i].by = 1 /\ received[i].act \in (IF tx[1] THEN {0, 1} ELSE {0})
=============================================================================
