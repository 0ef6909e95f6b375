---------------------------- MODULE ExampleSteps ----------------------------
(***************************************************************************)
(* The vocabulary of the example programs: a program is sequences of steps,*)
(* and a step is a call of the library or a check, with what has to hold   *)
(* for it to succeed and what holds after it.  What holds is a set of      *)
(* facts; some facts are things that exist outside the program and have to *)
(* be removed.                                                             *)
(*                                                                         *)
(* The form of a step says what its failure does: the question mark of a   *)
(* fallible call, a panic, or nothing.  The calls themselves are modelled  *)
(* in the modules of their components; here each is one step with every    *)
(* outcome.                                                                *)
(***************************************************************************)
LOCAL INSTANCE Sequences
LOCAL INSTANCE SequencesExt

\* op: "call"; "wait" (for blocks or for a time); "poll" (asks until it is so, or
\* gives up); "spin" (never gives up, and an error ends the asking); "set" (an
\* assignment).
\* fail: what a failure does: "err" (?, or return Err), "panic" (unwrap, assert),
\* "on" (logged or ignored; `skip` more steps are passed over), "note" and "gate"
\* (recorded for the verdict at the end; the program goes on with the next step,
\* or with the next segment).
\* late: facts of a transaction, true when a block has taken it; by: its signer.
S(how, failure, need, give) ==
  [op |-> how, fail |-> failure, need |-> need, give |-> give, late |-> {}, drop |-> {},
   by |-> <<>>, skip |-> 0]

Do(need, give)  == S("call", "err", need, give)
Try(need, give) == S("call", "on", need, give)
Must(need)      == S("call", "panic", need, {})
Check(need)     == S("call", "err", need, {})
Poll(need)      == S("poll", "err", need, {})
Look(need)      == S("poll", "on", need, {})
Await(need)     == S("poll", "panic", need, {})
Spin(need)      == S("spin", "on", need, {})
Set(give)       == S("set", "on", {}, give)
Wait            == S("wait", "err", {}, {})
Rest            == S("wait", "on", {}, {})
Note(s)         == [s EXCEPT !.fail = "note"]
Gate(s)         == [s EXCEPT !.fail = "gate"]
Drop(gone)      == [Try({}, {}) EXCEPT !.drop = gone]

-----------------------------------------------------------------------------
(* Facts.                                                                  *)

Net       == <<"net">>          \* the test's network
Home      == <<"home">>         \* the relayer's volume
Relaying  == <<"relaying">>     \* its container
Box(c)    == <<"box", c>>       \* the containers and volumes of a chain
Up(c)     == <<"up", c>>        \* it makes blocks
Key(c, u) == <<"key", c, u>>
Funds(c, u)    == <<"funds", c, u>>
Known(c)       == <<"known", c>>        \* to the relayer
Channel(p)     == <<"channel", p>>
Received(x)    == <<"received", x>>     \* a packet that a relayer brings
File(c, x)     == <<"file", c, x>>      \* in a chain's container, or "host"
Code(c, x)     == <<"code", c, x>>
Contract(c, x) == <<"contract", c, x>>
Proc(x)        == <<"proc", x>>         \* any other process or container
Kept(c)        == <<"kept", c>>         \* the handle that the shutdown stops it by
Seen(x)        == <<"seen", x>>         \* anything else that a program has found

Lasts(f) == f[1] \in {"net", "home", "relaying", "box", "proc"}

-----------------------------------------------------------------------------
(* Calls.                                                                  *)

Tx(c, u, need, late) ==
  [Do(need \cup {Up(c)}, {}) EXCEPT !.late = late, !.by = <<c, u>>]

TryTx(c, u, need, late) == [Tx(c, u, need, late) EXCEPT !.fail = "on"]

\* Steps for each member of a sequence.
Each(s, Steps(_)) == FlattenSeq([i \in DOMAIN s |-> Steps(s[i])])

\* Chain::initialize and start.
Initialize(c) == Do({}, {Box(c), Net})
Start(c)      == Do({Box(c)}, {Up(c)})

\* Chain::stop, which logs what fails, and removes the network when it is the last.
Stop(c) == Drop({Up(c), Box(c), Net})

\* A chain on a network of its own, which Box counts in.
InitializeAlone(c) == Do({}, {Box(c)})
StopAlone(c)       == Drop({Up(c), Box(c)})

\* Interchain::start_chains.
StartChains(cs) ==
  [i \in DOMAIN cs |-> Initialize(cs[i])] \o [i \in DOMAIN cs |-> Start(cs[i])]

\* Interchain::configure_relayers: a relayer that cannot be funded is logged.
Configure(cs) ==
  Each(cs, LAMBDA c : <<Do({Up(c), Home}, {Known(c), Key(c, "relayer")}),
                        TryTx(c, "validator", {}, {Funds(c, "relayer")}), Rest>>)
    \o <<Rest>>

\* Interchain::create_ibc_paths, for one link; the relayer signs on both sides.
Link(c, d, p) ==
  <<Do({Known(c), Known(d), Funds(c, "relayer"), Funds(d, "relayer")}, {Channel(p)})>>

\* Interchain::start_relayers.
StartRelayers == <<Do({Home}, {Relaying})>>

\* Interchain::close.
Close(cs) == <<Drop({Relaying, Home})>> \o [i \in DOMAIN cs |-> Stop(cs[i])]

\* create_key, and `keys show`, whose empty answer is an error.
NewKey(c, u)     == Do({Up(c)}, {Key(c, u)})
KeyAddress(c, u) == Do({Key(c, u)}, {})

\* copy_file_from_host.
CopyIn(c, x) == Do({Up(c), File("host", x)}, {File(c, x)})

\* A command in a running node that changes nothing there.
Ask(c) == Do({Up(c)}, {})

\* A transaction signed by a user, and one that the node then waits a block for
\* (exec_tx_with: funds, transfers, votes).
Sign(c, u, need, late) == Tx(c, u, need \cup {Key(c, u), Funds(c, u)}, late)
Sent(tx)               == <<tx, Rest>>

\* send_funds from the key of the first validator, and send_ibc_transfer.
Fund(c, u)           == Sent(Tx(c, "validator", {}, {Funds(c, u)}))
Transfer(c, u, p, x) == Sent(Sign(c, u, {Channel(p)}, {Received(x)}))

\* A transaction whose inclusion is waited for.
Included(tx) == <<tx, Poll(tx.late)>>
=============================================================================
