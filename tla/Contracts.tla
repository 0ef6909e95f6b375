------------------------------- MODULE Contracts -------------------------------
(***************************************************************************)
(* The contract calls of CosmWasmExt (cosmos/cosmwasm.rs) as a test makes  *)
(* them: store a code, instantiate it, execute the contract.  Each sends   *)
(* a transaction by the CLI in sync mode, which answers before it is in a  *)
(* block, and prints no JSON when its simulation on the committed state    *)
(* fails.                                                                  *)
(***************************************************************************)
EXTENDS Naturals, Sequences, FiniteSets

CONSTANTS Task,
          MaxCalls      \* bound: codes stored in all

VARIABLES
  tells,                \* do answers carry ids and addresses (queued by a test)?
  mempool,
  codes,                \* the tasks that stored them, in which attempt
  contracts,            \* their codes, the tasks that made them, in which attempt
  ran,                  \* executions: task and contract
  pc, stores,           \* of a task; the codes it has tried to store
  own,                  \* the id the chain gave the last of them, or 0
  code, guessed,        \* the id the task goes on with
  made, contract,       \* contract of the chain and the one the task knows, or 0
  ret

vars == <<tells, mempool, codes, contracts, ran, pc, stores, own, code, guessed, made,
          contract, ret>>

Id    == 0 .. MaxCalls
TxOf  == [do : {"store", "instantiate", "execute"}, by : Task, nth : Id, on : Id]

TypeOK ==
  /\ tells \in BOOLEAN /\ mempool \subseteq TxOf
  /\ codes \in Seq([by : Task, nth : Id]) /\ contracts \in Seq([code : Id, by : Task, nth : Id])
  /\ ran \subseteq (Task \X Id)
  /\ pc \in [Task -> {"idle", "stored", "sent", "ready"}] /\ stores \in [Task -> Id]
  /\ \A f \in {own, code, made, contract} : f \in [Task -> Id]
  /\ guessed \in [Task -> BOOLEAN] /\ ret \in [Task -> {"none", "ok", "err"}]

Init ==
  /\ tells \in BOOLEAN /\ mempool = {} /\ codes = <<>> /\ contracts = <<>> /\ ran = {}
  /\ pc = [t \in Task |-> "idle"] /\ stores = [t \in Task |-> 0]
  /\ own = [t \in Task |-> 0] /\ code = [t \in Task |-> 0]
  /\ guessed = [t \in Task |-> FALSE]
  /\ made = [t \in Task |-> 0] /\ contract = [t \in Task |-> 0]
  /\ ret = [t \in Task |-> "none"]

-----------------------------------------------------------------------------
(* The chain.                                                              *)

Stored(t, n) ==
  /\ codes' = Append(codes, [by |-> t, nth |-> n])
  /\ own' = IF n = stores'[t] THEN [own EXCEPT ![t] = Len(codes) + 1] ELSE own

Instantiated(t, n, c) ==
  /\ contracts' = Append(contracts, [code |-> c, by |-> t, nth |-> n])
  /\ made' = IF n = stores[t] THEN [made EXCEPT ![t] = Len(contracts) + 1] ELSE made

\* A block takes a transaction, which may fail in it all the same; `nth` is the
\* attempt it belongs to, `on` the code it instantiates or the executed contract.
Commit(tx) ==
  /\ tx \in mempool /\ mempool' = mempool \ {tx} /\ UNCHANGED stores
  /\ CASE tx.do = "store" ->
            (Stored(tx.by, tx.nth) \/ UNCHANGED <<codes, own>>) /\ UNCHANGED <<contracts, made, ran>>
       [] tx.do = "instantiate" ->
            (Instantiated(tx.by, tx.nth, tx.on) \/ UNCHANGED <<contracts, made>>) /\ UNCHANGED <<codes, own, ran>>
       [] tx.do = "execute" ->
            ran' \in {ran, ran \cup {<<tx.by, tx.on>>}} /\ UNCHANGED <<codes, own, contracts, made>>
  /\ UNCHANGED <<tells, pc, code, guessed, contract, ret>>

-----------------------------------------------------------------------------
(* The calls.                                                              *)

Goto(t, step) == pc' = [pc EXCEPT ![t] = step] /\ ret' = [ret EXCEPT ![t] = "none"]

Fail(t) == pc' = [pc EXCEPT ![t] = "idle"] /\ ret' = [ret EXCEPT ![t] = "err"]

Sent(t, do, on) == [do |-> do, by |-> t, nth |-> stores'[t], on |-> on]

\* The attempts so far: a task and the number of one of its codes.
Begun == {a \in Task \X (1 .. MaxCalls) : a[2] <= stores[a[1]]}

Enter(t) ==
  /\ pc[t] = "idle" /\ Cardinality(Begun) < MaxCalls
  /\ stores' = [stores EXCEPT ![t] = @ + 1]
  /\ made' = [made EXCEPT ![t] = 0] /\ contract' = [contract EXCEPT ![t] = 0]

\* store_code: any JSON is an Ok, and without a code_id it means 1, whether the
\* transaction is on its way or was refused.
StoreGuesses(t) ==
  /\ Enter(t)
  /\ mempool' \in {mempool, mempool \cup {Sent(t, "store", 0)}}
  /\ code' = [code EXCEPT ![t] = 1] /\ guessed' = [guessed EXCEPT ![t] = TRUE]
  /\ own' = [own EXCEPT ![t] = 0] /\ Goto(t, "stored")
  /\ UNCHANGED <<tells, codes, contracts, ran>>

StoreTold(t) ==
  /\ tells /\ Enter(t) /\ Stored(t, stores[t] + 1)
  /\ code' = [code EXCEPT ![t] = Len(codes) + 1] /\ guessed' = [guessed EXCEPT ![t] = FALSE]
  /\ Goto(t, "stored") /\ UNCHANGED <<tells, mempool, contracts, ran>>

\* No JSON: the code may be stored nevertheless.
StoreFails(t) ==
  /\ Enter(t)
  /\ mempool' \in {mempool, mempool \cup {Sent(t, "store", 0)}}
  /\ own' = [own EXCEPT ![t] = 0] /\ Fail(t)
  /\ UNCHANGED <<tells, codes, contracts, ran, code, guessed>>

\* (Mutant) The last code of the chain is instantiated.
InstantiateMut(t) ==
  /\ pc[t] = "stored" /\ UNCHANGED stores
  /\ \/ /\ codes # <<>> /\ mempool' = mempool \cup {Sent(t, "instantiate", Len(codes))} /\ Goto(t, "sent")
        /\ UNCHANGED <<contracts, made, contract>>
     \/ UNCHANGED <<mempool, contracts, made, contract>> /\ Fail(t)
  /\ UNCHANGED <<tells, codes, ran, own, code, guessed>>

\* instantiate_contract: the simulation wants the code; an answer with a hash
\* and no address is looked up again after three seconds; one that tells the
\* address ends the call.
Instantiate(t) ==
  /\ pc[t] = "stored" /\ UNCHANGED stores
  /\ \/ /\ code[t] \in DOMAIN codes
        /\ mempool' \in {mempool, mempool \cup {Sent(t, "instantiate", code[t])}}
        /\ Goto(t, "sent") /\ UNCHANGED <<contracts, made, contract>>
     \/ /\ tells /\ code[t] \in DOMAIN codes /\ Instantiated(t, stores[t], code[t])
        /\ contract' = [contract EXCEPT ![t] = Len(contracts) + 1]
        /\ Goto(t, "ready") /\ UNCHANGED mempool
     \/ UNCHANGED <<mempool, contracts, made, contract>> /\ Fail(t)
  /\ UNCHANGED <<tells, codes, ran, own, code, guessed>>

\* The events of the committed transaction name the contract; a transaction that
\* is not found in time, or that failed, ends in an error.
FindAddress(t) ==
  /\ pc[t] = "sent"
  /\ \/ made[t] # 0 /\ contract' = [contract EXCEPT ![t] = made[t]] /\ Goto(t, "ready")
     \/ Fail(t) /\ UNCHANGED contract
  /\ UNCHANGED <<tells, mempool, codes, contracts, ran, stores, own, code, guessed, made>>

\* execute_contract (and every call that ends in parse_tx_response): JSON is an
\* Ok, with or without a code that says it was refused.
Execute(t) ==
  /\ pc[t] = "ready" /\ pc' = [pc EXCEPT ![t] = "idle"] /\ UNCHANGED stores
  /\ \/ /\ mempool' \in {mempool, mempool \cup {Sent(t, "execute", contract[t])}}
        /\ ret' = [ret EXCEPT ![t] = "ok"]
     \/ ret' = [ret EXCEPT ![t] = "err"] /\ UNCHANGED mempool
  /\ UNCHANGED <<tells, codes, contracts, ran, own, code, guessed, made, contract>>

Next ==
  \/ \E tx \in mempool : Commit(tx)
  \/ \E t \in Task : StoreGuesses(t) \/ StoreTold(t) \/ StoreFails(t)
                     \/ Instantiate(t) \/ FindAddress(t) \/ Execute(t)

Spec == Init /\ [][Next]_vars

-----------------------------------------------------------------------------
(* Properties.                                                             *)

\* A test only ever executes a contract it has instantiated itself, and the
\* contract runs the code the test has stored, unless its id was a guess; a guess
\* is right for the first code of a chain on which nobody else stores one.
RunsOwnCode ==
  /\ \A p \in ran : contracts[p[2]].by = p[1]
  /\ \A t \in Task : contract[t] # 0 =>
       LET c == contracts[contract[t]].code IN
       /\ contracts[contract[t]].by = t
       /\ ~guessed[t] => codes[c] = [by |-> t, nth |-> stores[t]]
       /\ (stores[t] = 1 /\ \A i \in DOMAIN codes : codes[i].by = t) => c = own[t]
=============================================================================
