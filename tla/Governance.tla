------------------------------ MODULE Governance ------------------------------
(***************************************************************************)
(* The proposal workflows of a test: GovernanceExt (cosmos/governance.rs), *)
(* IbcWasmExt (cosmos/ibc_wasm.rs) and vote_on_proposal_all_validators     *)
(* (chain/cosmos.rs).  A task submits a proposal, learns its id or guesses *)
(* it to be 1, votes yes and polls until the proposal has passed.          *)
(*                                                                         *)
(* The CLI broadcasts in sync mode: it answers before the transaction is   *)
(* in a block, so the answer has no proposal id, except where an answer    *)
(* carries the events of the transaction (the mock, older chains).  It     *)
(* simulates a transaction on the committed state first, and prints no     *)
(* JSON when that fails, on a vote for what is not in voting for one.      *)
(***************************************************************************)
EXTENDS Naturals, Sequences, FiniteSets

CONSTANTS Task,
          Validators,   \* number of validators, which vote one by one
          MaxCalls      \* bound: workflows in all

\* A software upgrade voted on by one key or by every validator, or the code
\* of an 08-wasm light client.
Kind == {"upgrade", "upgrade by all", "client"}

VARIABLES
  kind, tells,          \* of the tasks; do answers carry events?
  mempool,              \* transactions on their way
  proposals,            \* by whom, in which workflow, any yes, status
  pc, calls,
  own,                  \* the id the chain gave a task's proposal, or 0
  id, guessed,          \* the id the task goes on with
  ballots, ret

env  == <<kind, tells>>
vars == <<env, mempool, proposals, pc, calls, own, id, guessed, ballots, ret>>

Status   == {"voting", "passed", "rejected"}
Proposal == [by : Task, call : 1 .. MaxCalls, yes : BOOLEAN, st : Status]
TxOf     == [by : Task, call : 1 .. MaxCalls, on : 0 .. MaxCalls]   \* on = 0: a submission

TypeOK ==
  /\ kind \in [Task -> Kind] /\ tells \in BOOLEAN
  /\ mempool \subseteq TxOf /\ proposals \in Seq(Proposal) /\ Len(proposals) <= MaxCalls
  /\ pc \in [Task -> {"idle", "find", "vote", "poll"}] /\ calls \in [Task -> 0 .. MaxCalls]
  /\ own \in [Task -> 0 .. MaxCalls] /\ id \in [Task -> 0 .. MaxCalls]
  /\ guessed \in [Task -> BOOLEAN] /\ ballots \in [Task -> 0 .. Validators]
  /\ ret \in [Task -> {"none", "ok", "err"}]

Init ==
  /\ kind \in [Task -> Kind] /\ tells \in BOOLEAN
  /\ mempool = {} /\ proposals = <<>>
  /\ pc = [t \in Task |-> "idle"] /\ calls = [t \in Task |-> 0]
  /\ own = [t \in Task |-> 0] /\ id = [t \in Task |-> 0]
  /\ guessed = [t \in Task |-> FALSE] /\ ballots = [t \in Task |-> 0]
  /\ ret = [t \in Task |-> "none"]

-----------------------------------------------------------------------------
(* The chain.                                                              *)

\* A proposal of the workflow a task is in is its own.
Record(p) ==
  /\ proposals' = Append(proposals, p)
  /\ own' = IF p.call = calls[p.by] THEN [own EXCEPT ![p.by] = Len(proposals) + 1] ELSE own

\* A block takes a transaction; it may fail in it all the same.
Commit(tx) ==
  /\ tx \in mempool /\ mempool' = mempool \ {tx}
  /\ \/ UNCHANGED <<proposals, own>>
     \/ tx.on = 0 /\ Record([by |-> tx.by, call |-> tx.call, yes |-> FALSE, st |-> "voting"])
     \/ /\ tx.on # 0 /\ proposals[tx.on].st = "voting"
        /\ proposals' = [proposals EXCEPT ![tx.on].yes = TRUE] /\ UNCHANGED own
  /\ UNCHANGED <<env, pc, calls, id, guessed, ballots, ret>>

\* The voting period ends; without a yes a proposal does not pass.
Tally(i) ==
  /\ proposals[i].st = "voting"
  /\ \E st \in {"passed", "rejected"} :
       /\ st = "passed" => proposals[i].yes
       /\ proposals' = [proposals EXCEPT ![i].st = st]
  /\ UNCHANGED <<env, mempool, pc, calls, own, id, guessed, ballots, ret>>

-----------------------------------------------------------------------------
(* Submission.                                                             *)

Goto(t, step) == pc' = [pc EXCEPT ![t] = step] /\ ret' = [ret EXCEPT ![t] = "none"]

End(t, r) == pc' = [pc EXCEPT ![t] = "idle"] /\ ret' = [ret EXCEPT ![t] = r]

Know(t, i, guess) ==
  id' = [id EXCEPT ![t] = i] /\ guessed' = [guessed EXCEPT ![t] = guess]

\* The workflows so far: a task and the number of one of its calls.
Begun == {w \in Task \X (1 .. MaxCalls) : w[2] <= calls[w[1]]}

Enter(t) ==
  /\ pc[t] = "idle" /\ Cardinality(Begun) < MaxCalls
  /\ calls' = [calls EXCEPT ![t] = @ + 1] /\ ballots' = [ballots EXCEPT ![t] = 0]

\* On its way, or refused.
Sent(t) == mempool' \in {mempool, mempool \cup {[by |-> t, call |-> calls[t] + 1, on |-> 0]}}

Forget(t) == own' = [own EXCEPT ![t] = 0]

\* The call does not get through; what it started may have.
SubmitFails(t) ==
  /\ Enter(t) /\ Sent(t) /\ Forget(t) /\ Know(t, 0, FALSE)
  /\ End(t, "err") /\ UNCHANGED <<env, proposals>>

\* submit_software_upgrade_proposal: neither exit code nor code is looked at,
\* and an answer without an id, or that is no JSON, means 1.
SubmitUpgrade(t) ==
  /\ kind[t] # "client" /\ Enter(t) /\ Sent(t) /\ Forget(t) /\ Know(t, 1, TRUE)
  /\ Goto(t, "vote") /\ UNCHANGED <<env, proposals>>

\* The answer has the events of the committed transaction.
SubmitTold(t) ==
  /\ kind[t] # "client" /\ tells /\ Enter(t)
  /\ proposals' = Append(proposals, [by |-> t, call |-> calls[t] + 1, yes |-> FALSE, st |-> "voting"])
  /\ own' = [own EXCEPT ![t] = Len(proposals) + 1]
  /\ Know(t, Len(proposals) + 1, FALSE)
  /\ Goto(t, "vote") /\ UNCHANGED <<env, mempool>>

\* submit_ibc_wasm_store_code: exit code, JSON, code and hash are looked at.
SubmitClient(t) ==
  /\ kind[t] = "client" /\ Enter(t) /\ Forget(t) /\ Know(t, 0, FALSE)
  /\ mempool' = mempool \cup {[by |-> t, call |-> calls[t] + 1, on |-> 0]}
  /\ Goto(t, "find") /\ UNCHANGED <<env, proposals>>

\* (Mutant) The last proposal of the chain is taken.
FindIdMut(t) ==
  /\ pc[t] = "find"
  /\ \/ proposals # <<>> /\ Know(t, Len(proposals), FALSE) /\ Goto(t, "vote")
     \/ Know(t, 1, TRUE) /\ Goto(t, "vote")
     \/ End(t, "err") /\ UNCHANGED <<id, guessed>>
  /\ UNCHANGED <<env, mempool, proposals, calls, own, ballots>>

\* proposal_id_from_tx, three seconds later: the id is in the events of the
\* committed transaction; a transaction that is not found, has failed, or has
\* no such event means 1; what is no JSON is an error.
FindId(t) ==
  /\ pc[t] = "find"
  /\ \/ own[t] # 0 /\ Know(t, own[t], FALSE) /\ Goto(t, "vote")
     \/ Know(t, 1, TRUE) /\ Goto(t, "vote")
     \/ End(t, "err") /\ UNCHANGED <<id, guessed>>
  /\ UNCHANGED <<env, mempool, proposals, calls, own, ballots>>

-----------------------------------------------------------------------------
(* Votes and the wait.                                                     *)

Votable(t) == id[t] \in DOMAIN proposals /\ proposals[id[t]].st = "voting"

\* vote_on_proposal: no JSON is an error; JSON with a code is none.  All
\* validators vote one after the other, and stop at an exit code.
Vote(t) ==
  /\ pc[t] = "vote"
  /\ \/ /\ Votable(t)
        /\ mempool' \in {mempool, mempool \cup {[by |-> t, call |-> calls[t], on |-> id[t]]}}
        /\ ballots' = [ballots EXCEPT ![t] = @ + 1]
        /\ Goto(t, IF kind[t] = "upgrade by all" /\ ballots'[t] < Validators THEN "vote" ELSE "poll")
     \/ UNCHANGED <<mempool, ballots>> /\ End(t, "err")
  /\ UNCHANGED <<env, proposals, calls, own, id, guessed>>

\* (Mutant) The wait ends when the proposal is decided.
PollPassedMut(t) ==
  /\ pc[t] = "poll" /\ proposals[id[t]].st # "voting" /\ End(t, "ok")
  /\ UNCHANGED <<env, mempool, proposals, calls, own, id, guessed, ballots>>

\* poll_for_proposal_status: a query that fails, or shows another status, is
\* repeated a second later, until the timeout.
PollPassed(t) ==
  /\ pc[t] = "poll" /\ proposals[id[t]].st = "passed" /\ End(t, "ok")
  /\ UNCHANGED <<env, mempool, proposals, calls, own, id, guessed, ballots>>

PollTimeout(t) ==
  /\ pc[t] = "poll" /\ End(t, "err")
  /\ UNCHANGED <<env, mempool, proposals, calls, own, id, guessed, ballots>>

Next ==
  \/ \E tx \in mempool : Commit(tx)
  \/ \E i \in DOMAIN proposals : Tally(i)
  \/ \E t \in Task :
       \/ SubmitFails(t) \/ SubmitUpgrade(t) \/ SubmitTold(t) \/ SubmitClient(t) \/ FindId(t)
       \/ Vote(t) \/ PollPassed(t) \/ PollTimeout(t)

Spec == Init /\ [][Next]_vars

-----------------------------------------------------------------------------
(* Properties.                                                             *)

\* A workflow that ends with Ok has seen a proposal pass: the task's own,
\* unless its id was a guess.  A guess is right in the first workflow of a task
\* on a chain where only it proposes; a workflow repeated after a timeout, or
\* beside another one, may report another proposal's success.
PassedIsOwn ==
  \A t \in Task : ret[t] = "ok" =>
    /\ proposals[id[t]].st = "passed"
    /\ ~guessed[t] => id[t] = own[t]
    /\ (calls[t] = 1 /\ \A i \in DOMAIN proposals : proposals[i].by = t) => id[t] = own[t]
=============================================================================
