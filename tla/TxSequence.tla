----------------------------- MODULE TxSequence -----------------------------
(***************************************************************************)
(* Signed transactions on one chain: how the calls of a test pick account  *)
(* sequence numbers and how long they wait.  Four routes lead to a chain:  *)
(*                                                                         *)
(*   node     ChainNode::exec_tx_with (send_funds, votes, IBC transfers):  *)
(*            a CLI command, then a wait for the next block;               *)
(*   trait    Chain::chain_exec_tx_with (storing and calling contracts,    *)
(*            votes of GovernanceExt): the same command, no wait;          *)
(*   propose  submit_software_upgrade_proposal: like trait, but an output  *)
(*            that cannot be read means proposal 1;                        *)
(*   builder  TxBuilder::broadcast: signs in the process, no wait.         *)
(*                                                                         *)
(* Each takes the sequence from the committed state, simulates against the *)
(* node's check state (committed state plus mempool) and broadcasts in     *)
(* sync mode: the answer comes from CheckTx, and a refused transaction is  *)
(* a `code` in the answer, with exit code 0.  Next to it wait_for_blocks.  *)
(*                                                                         *)
(* The chain is external: a block is proposed from the mempool some time   *)
(* before it is committed, so a transaction may miss the next block.       *)
(***************************************************************************)
EXTENDS Naturals, Sequences, FiniteSets

CONSTANTS Task, Account,
          MaxCalls,         \* bound: calls per task
          MaxHeight,        \* bound: the chain halts here
          MaxPolls,         \* wait_for_next_block gives up after so many (30)
          MaxStale          \* wait_for_blocks gives up after so many (5)

ASSUME TxAssumption ==
  /\ MaxCalls \in Nat \ {0} /\ MaxHeight \in Nat
  /\ MaxPolls \in Nat \ {0} /\ MaxStale \in Nat \ {0}

Route == {"node", "trait", "propose", "builder"}

VARIABLES
  \* the chain
  sequence,     \* committed sequence of each account
  mempool,      \* accepted transactions, oldest first
  deciding,     \* is a block being decided?
  proposed,     \* how many transactions of the mempool it takes
  height,
  \* the tasks of the test
  key,          \* account each task signs with
  pc, route, calls,
  local,        \* locals of the call in progress
  answer,       \* what CheckTx said of the call's transaction
  ret           \* "gaveup": Ok, but the wait ended without what it waited for

chainVars == <<sequence, mempool, deciding, proposed, height>>
callVars  == <<pc, route, calls, local, answer, ret>>
vars      == <<chainVars, key, callVars>>

Tx == [by : Task, call : 1 .. MaxCalls, seq : Nat, after : 0 .. MaxHeight]

\* seq: sequence taken for the transaction; start: height a wait began at;
\* target: height wait_for_blocks waits for (before it: how many blocks);
\* last: height it saw last; idle: polls without progress.
NoLocals == [seq |-> 0, start |-> 0, target |-> 0, last |-> 0, idle |-> 0]

TypeOK ==
  /\ sequence \in [Account -> Nat]
  /\ mempool \in Seq(Tx)
  /\ deciding \in BOOLEAN /\ proposed \in 0 .. Len(mempool)
  /\ height \in 0 .. MaxHeight
  /\ key \in [Task -> Account]
  /\ pc \in [Task -> {"idle", "query", "simulate", "broadcast", "height", "poll",
                      "blocks", "blocks.poll"}]
  /\ route \in [Task -> Route \cup {"none"}]
  /\ calls \in [Task -> 0 .. MaxCalls]
  /\ local \in [Task -> [seq : Nat, start : 0 .. MaxHeight, target : 0 .. MaxHeight + 2,
                         last : 0 .. MaxHeight, idle : Nat]]
  /\ \A t \in Task : local[t].idle < MaxPolls \/ local[t].idle < MaxStale
  /\ answer \in [Task -> {"none", "accepted", "refused"}]
  /\ ret \in [Task -> {"none", "ok", "gaveup", "err"}]

Init ==
  /\ sequence = [a \in Account |-> 0]
  /\ mempool = <<>> /\ deciding = FALSE /\ proposed = 0 /\ height = 0
  /\ key \in [Task -> Account]
  /\ pc = [t \in Task |-> "idle"] /\ route = [t \in Task |-> "none"]
  /\ calls = [t \in Task |-> 0] /\ local = [t \in Task |-> NoLocals]
  /\ answer = [t \in Task |-> "none"] /\ ret = [t \in Task |-> "none"]

-----------------------------------------------------------------------------
(* The chain.                                                              *)

Pending(a) == {i \in DOMAIN mempool : key[mempool[i].by] = a}

\* The sequence CheckTx and the simulation expect.
CheckSequence(a) == sequence[a] + Cardinality(Pending(a))

\* A proposer takes what the mempool holds, once per block ...
Propose ==
  /\ ~deciding /\ height < MaxHeight
  /\ deciding' = TRUE
  /\ proposed' = Len(mempool)
  /\ UNCHANGED <<sequence, mempool, height, key, callVars>>

\* (Mutant) What the proposal took is not forgotten.
CommitMut ==
  /\ deciding
  /\ deciding' = FALSE
  /\ height' = height + 1
  /\ sequence' = [a \in Account |-> sequence[a] + Cardinality(Pending(a) \cap (1 .. proposed))]
  /\ mempool' = SubSeq(mempool, proposed + 1, Len(mempool))
  /\ UNCHANGED <<proposed, key, callVars>>

\* ... and the block is committed.
Commit ==
  /\ deciding
  /\ deciding' = FALSE /\ proposed' = 0
  /\ height' = height + 1
  /\ sequence' = [a \in Account |-> sequence[a] + Cardinality(Pending(a) \cap (1 .. proposed))]
  /\ mempool' = SubSeq(mempool, proposed + 1, Len(mempool))
  /\ UNCHANGED <<key, callVars>>

-----------------------------------------------------------------------------
(* Steps of a call.                                                        *)

Goto(t, step, l) ==
  /\ pc' = [pc EXCEPT ![t] = step]
  /\ local' = [local EXCEPT ![t] = l]
  /\ UNCHANGED ret

Return(t, r) ==
  /\ pc' = [pc EXCEPT ![t] = "idle"]
  /\ local' = [local EXCEPT ![t] = NoLocals]
  /\ ret' = [ret EXCEPT ![t] = r]

Begin(t, step, r, l) ==
  /\ pc[t] = "idle" /\ calls[t] < MaxCalls
  /\ pc' = [pc EXCEPT ![t] = step]
  /\ route' = [route EXCEPT ![t] = r]
  /\ calls' = [calls EXCEPT ![t] = @ + 1]
  /\ local' = [local EXCEPT ![t] = l]
  /\ answer' = [answer EXCEPT ![t] = "none"]
  /\ ret' = [ret EXCEPT ![t] = "none"]
  /\ UNCHANGED <<chainVars, key>>

Send(t) == \E r \in Route : Begin(t, "query", r, NoLocals)

\* The command, or the request, fails before anything was broadcast.
SendFails(t) ==
  /\ pc[t] \in {"query", "simulate"}
  /\ Return(t, "err") \/ (route[t] = "propose" /\ Return(t, "ok"))
  /\ UNCHANGED <<chainVars, key, route, calls, answer>>

\* The account is read from the committed state.
QueryAccount(t) ==
  /\ pc[t] = "query"
  /\ Goto(t, "simulate", [local[t] EXCEPT !.seq = sequence[key[t]]])
  /\ UNCHANGED <<chainVars, key, route, calls, answer>>

\* (Mutant) The gas of a CLI transaction is given, not estimated.
SimulateMut(t) ==
  /\ pc[t] = "simulate"
  /\ Goto(t, "broadcast", local[t])
  /\ UNCHANGED <<chainVars, key, route, calls, answer>>

\* `--gas auto`: the command fails when the simulation does (SendFails).  The
\* builder falls back to a default amount of gas.
Simulate(t) ==
  /\ pc[t] = "simulate"
  /\ route[t] = "builder" \/ local[t].seq = CheckSequence(key[t])
  /\ Goto(t, "broadcast", local[t])
  /\ UNCHANGED <<chainVars, key, route, calls, answer>>

\* CheckTx takes the transaction or refuses it; the answer may be lost.
Broadcast(t) ==
  LET fits == local[t].seq = CheckSequence(key[t])
      tx   == [by |-> t, call |-> calls[t], seq |-> local[t].seq, after |-> height]
  IN  /\ pc[t] = "broadcast"
      /\ mempool' = IF fits THEN Append(mempool, tx) ELSE mempool
      /\ answer' = [answer EXCEPT ![t] = IF fits THEN "accepted" ELSE "refused"]
      /\ \/ IF route[t] = "node" THEN Goto(t, "height", NoLocals) ELSE Return(t, "ok")
         \/ Return(t, "err")
      /\ UNCHANGED <<sequence, deciding, proposed, height, key, route, calls>>

\* wait_for_next_block: a height that cannot be read counts as 0.
ReadHeight(t) ==
  /\ pc[t] = "height"
  /\ \E h \in {height, 0} : Goto(t, "poll", [local[t] EXCEPT !.start = h])
  /\ UNCHANGED <<chainVars, key, route, calls, answer>>

\* (Mutant) Polls without a new block are not counted.
PollHeightMut(t) ==
  /\ pc[t] = "poll"
  /\ height > local[t].start
  /\ Return(t, "ok")
  /\ UNCHANGED <<chainVars, key, route, calls, answer>>

\* A poll that fails, or sees no new block, leaves one less.
PollHeight(t) ==
  /\ pc[t] = "poll"
  /\ \/ height > local[t].start /\ Return(t, "ok")
     \/ local[t].idle + 1 < MaxPolls /\ Goto(t, "poll", [local[t] EXCEPT !.idle = @ + 1])
     \/ local[t].idle + 1 >= MaxPolls /\ Return(t, "gaveup")
  /\ UNCHANGED <<chainVars, key, route, calls, answer>>

AwaitBlocks(t) ==
  \E n \in 1 .. 2 : Begin(t, "blocks", "none", [NoLocals EXCEPT !.target = n])

\* wait_for_blocks.
AwaitStart(t) ==
  /\ pc[t] = "blocks"
  /\ \/ Goto(t, "blocks.poll", [local[t] EXCEPT !.start = height, !.last = height,
                                                !.target = height + @])
     \/ Return(t, "err")
  /\ UNCHANGED <<chainVars, key, route, calls, answer>>

\* (Mutant) One block too few is enough.
AwaitPollMut(t) ==
  /\ pc[t] = "blocks.poll"
  /\ Return(t, IF height + 1 >= local[t].target THEN "ok" ELSE "gaveup")
  /\ UNCHANGED <<chainVars, key, route, calls, answer>>

\* The height reached the target; or it stood still for too long; or the
\* deadline passed, which may be at any poll; or it cannot be read.
AwaitPoll(t) ==
  LET stale == IF height = local[t].last THEN local[t].idle + 1 ELSE 0
  IN  /\ pc[t] = "blocks.poll"
      /\ \/ height >= local[t].target /\ Return(t, "ok")
         \/ /\ height < local[t].target /\ stale < MaxStale
            /\ Goto(t, "blocks.poll", [local[t] EXCEPT !.last = height, !.idle = stale])
         \/ height < local[t].target /\ Return(t, "gaveup")
         \/ Return(t, "err")
      /\ UNCHANGED <<chainVars, key, route, calls, answer>>

-----------------------------------------------------------------------------

\* The steps of a call once it began.
Step(t) ==
  \/ SendFails(t) \/ QueryAccount(t) \/ Simulate(t) \/ Broadcast(t)
  \/ ReadHeight(t) \/ PollHeight(t)
  \/ AwaitStart(t) \/ AwaitPoll(t)

Next ==
  \/ Propose \/ Commit
  \/ \E t \in Task : Send(t) \/ AwaitBlocks(t) \/ Step(t)

\* A call that began goes on; nothing is assumed of the chain, which may stop.
Spec == Init /\ [][Next]_vars /\ \A t \in Task : WF_vars(Step(t))

-----------------------------------------------------------------------------
(* Properties.                                                             *)

\* The transaction of t's last call is in a block.
Committed(t) ==
  /\ answer[t] = "accepted"
  /\ \A i \in DOMAIN mempool : mempool[i].by # t \/ mempool[i].call # calls[t]

\* No other task signs with the key of t.
Alone(t) == \A u \in Task \ {t} : key[u] # key[t]

\* A CLI transaction that returned Ok was accepted, whatever was sent before
\* and however short the earlier waits were, as long as no other task signs
\* with the same key: the simulation catches a stale sequence.  (The builder
\* has no such net, nor have two tasks that share the key, and a proposal is
\* Ok whatever became of it.)
OkIsAccepted ==
  \A t \in Task :
    ret[t] \in {"ok", "gaveup"} /\ route[t] \in {"node", "trait"} /\ Alone(t) =>
      answer[t] = "accepted"

\* wait_for_blocks(2), which configure_relayers uses to "wait for funding txs
\* to confirm": when it saw its two blocks, everything that was in the mempool
\* when it began is committed, although the first block may have been
\* proposed before.
TwoBlocksConfirm ==
  [][\A t \in Task :
       pc[t] = "blocks.poll" /\ ret'[t] = "ok" /\ local[t].target = local[t].start + 2 =>
         \A i \in DOMAIN mempool : mempool[i].after > local[t].start]_vars

\* Every call returns, also on a chain that produces no block.
CallsReturn == \A t \in Task : pc[t] # "idle" ~> pc[t] = "idle"

\* "The next signed tx must wait for commit so the account sequence is
\* visible on-chain" (node.rs:414): when exec_tx_with has seen its block, the
\* transaction it waited for is committed.
SequenceVisible ==
  \A t \in Task : ret[t] = "ok" /\ route[t] = "node" /\ answer[t] = "accepted" => Committed(t)
=============================================================================
