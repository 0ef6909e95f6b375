------------------------------ MODULE ChainReads ------------------------------
(***************************************************************************)
(* What a test reads from a chain or a relayer: the queries of ChainNode   *)
(* (cosmos/node.rs), CosmosChain (chain/cosmos.rs), IbcWasmExt and the two *)
(* relayers.  Each is one command in a container, whose answer may be      *)
(* anything; a reader turns it into a value or an error, and several turn  *)
(* a failure into the value a chain has at its start.                      *)
(***************************************************************************)
EXTENDS Naturals

CONSTANTS Task,
          Most          \* bound: how far a chain gets

\* An exec that fails; one with an exit code and no output; none; no JSON; JSON
\* without the key that is looked for; an answer.
Answer == {"failed", "exit", "empty", "garbled", "other", "good"}

Err  == Most + 2                \* a reader's error
Junk == Most + 1                \* text that was taken for a value

-----------------------------------------------------------------------------
(* The readers: an answer, and the value v a good one has, to a value.  0  *)
(* is an empty string or list, `true` of catching_up, and no tokens.       *)

\* The first of two commands, which an older SDK does not know.
FallsBack(a) == a \in {"exit", "empty"}

QueryBalance(a, v) ==
  CASE a = "good" -> v [] a \in {"exit", "empty", "other"} -> 0 [] OTHER -> Err

QueryHeight(a, v) == CASE a = "good" -> v [] a = "other" -> 0 [] OTHER -> Err

\* (Mutant) A status without the field means synced.
IsSyncedMut(a, v) == CASE a = "good" -> v [] a = "other" -> Most [] OTHER -> Err

\* The negation of is_catching_up.
IsSynced(a, v) == CASE a = "good" -> v [] a = "other" -> 0 [] OTHER -> Err

\* Its command lacks arguments, and no chain gives it a good answer.
Acknowledgements(a, v) == CASE a = "good" -> v [] a = "failed" -> Err [] OTHER -> 0

Timeouts(a, v) == IF a = "failed" THEN Err ELSE 0

QueryIbcWasmChecksums(a, v) ==
  CASE a = "good" -> v [] a \in {"exit", "empty", "other"} -> 0 [] OTHER -> Err

\* Lines that are not JSON, or have no result that parses, are skipped.
HermesQuery(a, v) == CASE a = "good" -> v [] a = "failed" -> Err [] OTHER -> 0

RlyQuery(a, v) == CASE a = "good" -> v [] a \in {"exit", "empty"} -> 0 [] OTHER -> Err

QueryJson(a, v) == CASE a = "good" -> v [] a = "other" -> Junk [] OTHER -> Err

GetKeyAddress(a, v) ==
  CASE a = "good" -> v [] a \in {"exit", "empty"} -> 0 [] a = "failed" -> Err [] OTHER -> Junk

\* get_address and build_wallet decode what get_key_address returns.
GetAddress(a, v) ==
  IF GetKeyAddress(a, v) \in {0, Junk, Err} THEN Err ELSE v

NodeId(a, v) == IF GetKeyAddress(a, v) = 0 THEN Err ELSE GetKeyAddress(a, v)

GenesisHash(a, v) ==
  CASE a = "good" -> v [] a = "empty" -> 0 [] a \in {"exit", "failed"} -> Err [] OTHER -> Junk

ReadGenesis(a, v) == CASE a = "good" -> v [] a = "other" -> Junk [] OTHER -> Err

QueryBlockHash(a, v) == IF a = "good" THEN v ELSE Err

\* The outputs of state export and genesis_bytes are passed on as they are.
ExportState(a, v) ==
  CASE a = "good" -> v [] a \in {"exit", "empty"} -> 0 [] a = "failed" -> Err [] OTHER -> Junk

Counting == {"balance", "height", "synced", "acks", "timeouts", "checksums", "hermes", "rly"}
Naming   == {"json", "key address", "address", "node id", "genesis hash", "genesis",
             "block hash", "export"}

Reading(r, a, v) ==
  CASE r = "balance"      -> QueryBalance(a, v)
    [] r = "height"       -> QueryHeight(a, v)
    [] r = "synced"       -> IsSynced(a, v)
    [] r = "acks"         -> Acknowledgements(a, v)
    [] r = "timeouts"     -> Timeouts(a, v)
    [] r = "checksums"    -> QueryIbcWasmChecksums(a, v)
    [] r = "hermes"       -> HermesQuery(a, v)
    [] r = "rly"          -> RlyQuery(a, v)
    [] r = "json"         -> QueryJson(a, v)
    [] r = "key address"  -> GetKeyAddress(a, v)
    [] r = "address"      -> GetAddress(a, v)
    [] r = "node id"      -> NodeId(a, v)
    [] r = "genesis hash" -> GenesisHash(a, v)
    [] r = "genesis"      -> ReadGenesis(a, v)
    [] r = "block hash"   -> QueryBlockHash(a, v)
    [] r = "export"       -> ExportState(a, v)

-----------------------------------------------------------------------------

VARIABLES
  truth,                \* how far the chain is: of everything that is counted
  old,                  \* does it have the older SDK's bank queries?
  pc,                   \* of a task
  what, value, first,   \* its last two readings: of what, the values
  silent                \* was a value of them made up by the reader?

vars == <<truth, old, pc, what, value, first, silent>>

TypeOK ==
  /\ truth \in 0 .. Most /\ old \in BOOLEAN
  /\ pc \in [Task -> {"idle", "older"}] /\ what \in [Task -> {"none"} \cup Counting \cup Naming]
  /\ value \in [Task -> 0 .. Err] /\ first \in [Task -> 0 .. Err]
  /\ silent \in [Task -> BOOLEAN]

Init ==
  /\ truth = 0 /\ old \in BOOLEAN /\ pc = [t \in Task |-> "idle"]
  /\ what = [t \in Task |-> "none"] /\ value = [t \in Task |-> 0]
  /\ first = [t \in Task |-> 0] /\ silent = [t \in Task |-> FALSE]

\* Blocks, incoming transfers, a node that syncs: what is counted only grows.
Grow ==
  /\ truth < Most /\ truth' = truth + 1
  /\ UNCHANGED <<old, pc, what, value, first, silent>>

Truth(r) == IF r \in Counting THEN truth ELSE 1

Take(t, r, a) ==
  LET made == a # "good" /\ Reading(r, a, Truth(r)) # Err
      same == what[t] = r
  IN  /\ value' = [value EXCEPT ![t] = Reading(r, a, Truth(r))]
      /\ what' = [what EXCEPT ![t] = r]
      /\ first' = [first EXCEPT ![t] = IF same THEN value[t] ELSE Err]
      /\ silent' = [silent EXCEPT ![t] = made \/ (same /\ @)]

Read(t) ==
  /\ pc[t] = "idle"
  /\ \E r \in (Counting \cup Naming) \ {"balance"}, a \in Answer : Take(t, r, a)
  /\ UNCHANGED <<truth, old, pc>>

\* query_balance: the newer command, and the older one when it answers nothing.
Balance(t) ==
  /\ pc[t] = "idle"
  /\ \E a \in Answer :
       /\ a = "good" => ~old
       /\ IF FallsBack(a)
          THEN pc' = [pc EXCEPT ![t] = "older"] /\ UNCHANGED <<what, value, first, silent>>
          ELSE Take(t, "balance", a) /\ UNCHANGED pc
  /\ UNCHANGED <<truth, old>>

BalanceOlder(t) ==
  /\ pc[t] = "older" /\ pc' = [pc EXCEPT ![t] = "idle"]
  /\ \E a \in Answer : Take(t, "balance", a)
  /\ UNCHANGED <<truth, old>>

Next == Grow \/ \E t \in Task : Read(t) \/ Balance(t) \/ BalanceOlder(t)

Spec == Init /\ [][Next]_vars

-----------------------------------------------------------------------------
(* Properties.                                                             *)

\* Whatever a node answers, a count that a reader returns is never ahead of the
\* chain, so a wait for a height, a balance, a synced node or a packet cannot
\* end too early; an address that is decoded, and a block hash, are real.  A
\* difference of two counts may be wrong: it shows a gain or a loss that never
\* was when one of the two was a failure read as 0, and only then.
NeverAhead ==
  \A t \in Task : value[t] # Err =>
    /\ what[t] \in Counting => value[t] <= truth
    /\ what[t] \in {"address", "block hash"} => value[t] = 1
    /\ what[t] \in Counting /\ first[t] # Err /\ ~silent[t] => first[t] <= value[t]
=============================================================================
