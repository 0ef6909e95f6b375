----------------------------- MODULE RelayerSetup -----------------------------
(***************************************************************************)
(* What a test tells a relayer before it relays: chains and keys           *)
(* (add_chain_configuration, add_key and restore_key of HermesRelayer in   *)
(* relayer/hermes.rs and of DockerRelayer in relayer/docker_relayer.rs     *)
(* with the commands of relayer/rly.rs), from concurrent tasks: the calls  *)
(* take &self.                                                             *)
(*                                                                         *)
(* The relayer's volume holds its config file, one mnemonic file per chain *)
(* (Hermes) and the keyring.  Hermes keeps the chains in memory as well    *)
(* and rewrites the whole file from them.  Every file access and command   *)
(* is an exec in a one-off container, which may fail whatever it did.      *)
(***************************************************************************)
EXTENDS Naturals, Sequences, FiniteSets

CONSTANTS Task, Chain,
          MaxCalls      \* bound: calls in all; a call's number is its mnemonic

VARIABLES
  flavor,               \* "hermes" or "rly"
  mem,                  \* chain_configs: the chains, in the order of the calls
  file,                 \* the chains of the config file; <<>> is none, or torn
  phrase, keys,         \* per chain: mnemonic.txt and keyring, or 0
  calls, pc, arg, n,    \* of a task: where, for which chain, its number
  conf,                 \* the clone of mem that write_hermes_config formats
  known,                \* chains whose add_chain_configuration was Ok
  wallet,               \* per chain the last wallet of add_key
  alone,                \* has the call met another one on the same thing?
  clean, firm           \* was the last write of the file, the last key of a
                        \* chain, undisturbed?

volume == <<file, phrase, keys>>
vars   == <<flavor, mem, volume, calls, pc, arg, n, conf, known, wallet, alone, clean, firm>>

Num    == 0 .. MaxCalls
Wallet == [phrase : Num, addr : Num]

Adding == {"clone", "write", "check", "json", "add"}
Keying == {"phrase", "key", "rphrase", "rkey", "rlykey", "rlyrestore"}

TypeOK ==
  /\ flavor \in {"hermes", "rly"} /\ mem \in Seq(Chain) /\ file \in Seq(Chain)
  /\ phrase \in [Chain -> Num] /\ keys \in [Chain -> Num] /\ calls \in Num
  /\ pc \in [Task -> {"idle"} \cup Adding \cup Keying] /\ arg \in [Task -> Chain]
  /\ n \in [Task -> Num] /\ \A t \in Task : conf[t] \in Seq(Chain)
  /\ known \subseteq Chain /\ wallet \in [Chain -> Wallet]
  /\ alone \in [Task -> BOOLEAN] /\ clean \in BOOLEAN /\ firm \in [Chain -> BOOLEAN]

Init ==
  /\ flavor \in {"hermes", "rly"} /\ mem = <<>> /\ file = <<>>
  /\ phrase = [c \in Chain |-> 0] /\ keys = [c \in Chain |-> 0] /\ calls = 0
  /\ pc = [t \in Task |-> "idle"] /\ arg = [t \in Task |-> CHOOSE c \in Chain : TRUE]
  /\ n = [t \in Task |-> 0] /\ conf = [t \in Task |-> <<>>]
  /\ known = {} /\ wallet = [c \in Chain |-> [phrase |-> 0, addr |-> 0]]
  /\ alone = [t \in Task |-> TRUE] /\ clean = FALSE /\ firm = [c \in Chain |-> FALSE]

-----------------------------------------------------------------------------

\* Calls that touch the same thing: the config file, or the keys of a chain.
Rivals(t, c, stage) ==
  {u \in Task \ {t} : pc[u] \in stage /\ (stage = Adding \/ arg[u] = c)}

Enter(t, c, step, stage) ==
  LET rivals == Rivals(t, c, stage) IN
  /\ pc[t] = "idle" /\ calls < MaxCalls /\ calls' = calls + 1
  /\ pc' = [pc EXCEPT ![t] = step] /\ arg' = [arg EXCEPT ![t] = c]
  /\ n' = [n EXCEPT ![t] = calls + 1]
  /\ alone' = [u \in Task |-> IF u = t THEN rivals = {} ELSE alone[u] /\ u \notin rivals]

Goto(t, step) == pc' = [pc EXCEPT ![t] = step]

\* A call that fails, or is not alone, leaves its file in doubt.
AddFails(t) ==
  /\ Goto(t, "idle") /\ clean' = FALSE
  /\ UNCHANGED <<flavor, mem, phrase, keys, calls, arg, n, conf, known, wallet, alone, firm>>

KeyFails(t) ==
  /\ Goto(t, "idle") /\ firm' = [firm EXCEPT ![arg[t]] = FALSE]
  /\ UNCHANGED <<flavor, mem, file, calls, arg, n, conf, known, wallet, alone, clean>>

-----------------------------------------------------------------------------
(* HermesRelayer::add_chain_configuration.                                 *)

\* The chain is listed before anything that may fail.
Push(t, c) ==
  /\ flavor = "hermes" /\ Enter(t, c, "clone", Adding) /\ mem' = Append(mem, c)
  /\ UNCHANGED <<flavor, volume, conf, known, wallet, clean, firm>>

\* (Mutant) Only the new chain is formatted.
CloneMut(t) ==
  /\ pc[t] = "clone" /\ Goto(t, "write") /\ conf' = [conf EXCEPT ![t] = <<arg[t]>>]
  /\ UNCHANGED <<flavor, mem, volume, calls, arg, n, known, wallet, alone, clean, firm>>

Clone(t) ==
  /\ pc[t] = "clone" /\ Goto(t, "write") /\ conf' = [conf EXCEPT ![t] = mem]
  /\ UNCHANGED <<flavor, mem, volume, calls, arg, n, known, wallet, alone, clean, firm>>

WriteConfig(t) ==
  /\ pc[t] = "write" /\ Goto(t, "check") /\ file' = conf[t]
  /\ clean' = alone[t]
  /\ UNCHANGED <<flavor, mem, phrase, keys, calls, arg, n, conf, known, wallet, alone, firm>>

\* An error of the exec, or an exit code that is looked at.
WriteFails(t) ==
  /\ pc[t] = "write" /\ file' \in {file, conf[t], <<>>} /\ AddFails(t)

\* The file is read back and validated; neither makes the call fail.
Validate(t) ==
  /\ pc[t] = "check" /\ Goto(t, "idle") /\ known' = known \cup {arg[t]}
  /\ clean' = (clean /\ alone[t])
  /\ UNCHANGED <<flavor, mem, volume, calls, arg, n, conf, wallet, alone, firm>>

-----------------------------------------------------------------------------
(* DockerRelayer::add_chain_configuration with rly: a file per chain, and  *)
(* `rly chains add`, whose exit code is not looked at.                     *)

WriteJson(t, c) ==
  /\ flavor = "rly" /\ Enter(t, c, "json", Adding)
  /\ UNCHANGED <<flavor, mem, volume, conf, known, wallet, clean, firm>>

JsonWritten(t) ==
  /\ pc[t] = "json"
  /\ \/ Goto(t, "add") /\ UNCHANGED <<flavor, mem, phrase, keys, calls, arg, n, conf, known, wallet, alone, clean, firm>>
     \/ AddFails(t)
  /\ UNCHANGED file

\* rly refuses a chain it has.
ChainsAdd(t) ==
  LET has == \E i \in DOMAIN file : file[i] = arg[t] IN
  /\ pc[t] = "add" /\ Goto(t, "idle")
  /\ file' \in {file, IF has THEN file ELSE Append(file, arg[t])}
  /\ known' \in {known, known \cup {arg[t]}}
  /\ UNCHANGED <<flavor, mem, phrase, keys, calls, arg, n, conf, wallet, alone, clean, firm>>

-----------------------------------------------------------------------------
(* HermesRelayer::add_key and restore_key: the mnemonic goes through one   *)
(* file per chain, whatever the name of the key.                           *)

AddKey(t, c) ==
  /\ flavor = "hermes" /\ Enter(t, c, "phrase", Keying)
  /\ UNCHANGED <<flavor, mem, volume, conf, known, wallet, clean, firm>>

RestoreKey(t, c) ==
  /\ flavor = "hermes" /\ Enter(t, c, "rphrase", Keying)
  /\ UNCHANGED <<flavor, mem, volume, conf, known, wallet, clean, firm>>

\* (Mutant) A mnemonic file that is there is kept.
WritePhraseMut(t) ==
  /\ pc[t] \in {"phrase", "rphrase"} /\ Goto(t, IF pc[t] = "phrase" THEN "key" ELSE "rkey")
  /\ phrase' = [phrase EXCEPT ![arg[t]] = IF @ = 0 THEN n[t] ELSE @]
  /\ UNCHANGED <<flavor, mem, file, keys, calls, arg, n, conf, known, wallet, alone, clean, firm>>

WritePhrase(t) ==
  /\ pc[t] \in {"phrase", "rphrase"} /\ Goto(t, IF pc[t] = "phrase" THEN "key" ELSE "rkey")
  /\ phrase' = [phrase EXCEPT ![arg[t]] = n[t]]
  /\ UNCHANGED <<flavor, mem, file, keys, calls, arg, n, conf, known, wallet, alone, clean, firm>>

PhraseFails(t) ==
  /\ pc[t] \in {"phrase", "rphrase"} /\ KeyFails(t) /\ UNCHANGED keys
  /\ \E m \in {phrase[arg[t]], n[t], 0} : phrase' = [phrase EXCEPT ![arg[t]] = m]

\* hermes knows the chains of its file, and needs a mnemonic.
CanAdd(c) == (\E i \in DOMAIN file : file[i] = c) /\ phrase[c] # 0

\* keys add --overwrite prints the address of what it has read; no address, or
\* an exit code, is an Ok with an empty one.
HermesKey(t) ==
  LET c == arg[t] IN
  /\ pc[t] = "key" /\ Goto(t, "idle") /\ UNCHANGED phrase
  /\ \E told \in BOOLEAN :
       /\ \/ CanAdd(c) /\ keys' = [keys EXCEPT ![c] = phrase[c]]
          \/ ~told /\ UNCHANGED keys
       /\ wallet' = [wallet EXCEPT ![c] = [phrase |-> n[t], addr |-> IF told THEN phrase[c] ELSE 0]]
       /\ firm' = [firm EXCEPT ![c] = told /\ alone[t]]
  /\ UNCHANGED <<flavor, mem, file, calls, arg, n, conf, known, alone, clean>>

\* Without --overwrite a key that is there stays, which is an Ok.
HermesRestore(t) ==
  LET c == arg[t] IN
  /\ pc[t] = "rkey" /\ KeyFails(t) /\ UNCHANGED phrase
  /\ keys' \in {keys} \cup (IF CanAdd(c) /\ keys[c] = 0 THEN {[keys EXCEPT ![c] = phrase[c]]} ELSE {})

\* The exec of keys add ends in an error.
HermesKeyFails(t) ==
  /\ pc[t] \in {"key", "rkey"} /\ KeyFails(t) /\ UNCHANGED phrase
  /\ keys' \in {keys} \cup (IF CanAdd(arg[t]) THEN {[keys EXCEPT ![arg[t]] = phrase[arg[t]]]} ELSE {})

-----------------------------------------------------------------------------
(* The same with rly, in one command each.                                 *)

RlyBegin(t, c) ==
  /\ flavor = "rly" /\ \E step \in {"rlykey", "rlyrestore"} : Enter(t, c, step, Keying)
  /\ UNCHANGED <<flavor, mem, volume, conf, known, wallet, clean, firm>>

\* rly makes the mnemonic and does not replace a key; what it prints has to be
\* JSON, and the wallet is kept with an empty mnemonic.
RlyAddKey(t) ==
  LET c == arg[t] IN
  /\ pc[t] = "rlykey" /\ keys[c] = 0 /\ (\E i \in DOMAIN file : file[i] = c)
  /\ Goto(t, "idle") /\ keys' = [keys EXCEPT ![c] = n[t]]
  /\ wallet' = [wallet EXCEPT ![c] = [phrase |-> 0, addr |-> n[t]]]
  /\ firm' = [firm EXCEPT ![c] = alone[t]]
  /\ UNCHANGED <<flavor, mem, file, phrase, calls, arg, n, conf, known, alone, clean>>

RlyKeyFails(t) ==
  LET c == arg[t] IN
  /\ pc[t] \in {"rlykey", "rlyrestore"} /\ KeyFails(t) /\ UNCHANGED phrase
  /\ keys' \in {keys} \cup (IF keys[c] = 0 THEN {[keys EXCEPT ![c] = n[t]]} ELSE {})

-----------------------------------------------------------------------------

\* stop: the volume is removed, also between two commands of a call, unless a
\* one-off container uses it; the relayer's memory stays.
Stop ==
  /\ \/ /\ file' = <<>> /\ phrase' = [c \in Chain |-> 0] /\ keys' = [c \in Chain |-> 0]
        /\ clean' = FALSE /\ firm' = [c \in Chain |-> FALSE]
     \/ UNCHANGED <<volume, clean, firm>>
  /\ UNCHANGED <<flavor, mem, calls, pc, arg, n, conf, known, wallet, alone>>

Next ==
  \/ Stop
  \/ \E t \in Task :
       \/ \E c \in Chain : Push(t, c) \/ WriteJson(t, c) \/ AddKey(t, c) \/ RestoreKey(t, c) \/ RlyBegin(t, c)
       \/ Clone(t) \/ WriteConfig(t) \/ WriteFails(t) \/ Validate(t)
       \/ JsonWritten(t) \/ ChainsAdd(t)
       \/ WritePhrase(t) \/ PhraseFails(t) \/ HermesKey(t) \/ HermesRestore(t) \/ HermesKeyFails(t)
       \/ RlyAddKey(t) \/ RlyKeyFails(t)

Spec == Init /\ [][Next]_vars

-----------------------------------------------------------------------------
(* Properties.                                                             *)

Listed(c) == {i \in DOMAIN file : file[i] = c}

\* Once a Hermes config has been written whole by a call that met no other, its
\* file lists every chain whose add_chain_configuration was Ok before, also one
\* of a call whose write was lost or failed; a chain is listed once for every
\* call made for it, so a call repeated after a failure lists it twice.  (With rly
\* an Ok says nothing about the file.)
ConfigComplete ==
  flavor = "hermes" /\ clean =>
    /\ \A c \in known : Listed(c) # {}
    /\ \A c \in Chain : Cardinality(Listed(c)) <= Cardinality({i \in DOMAIN mem : mem[i] = c})

\* A wallet that add_key returns with an address is the key the relayer signs
\* with on that chain, and with Hermes its mnemonic is that key's, when no other
\* key call for the chain ran beside it or after it and no stop came after it.
KeyMatches ==
  \A c \in Chain : firm[c] =>
    /\ wallet[c].addr # 0 /\ keys[c] = wallet[c].addr
    /\ flavor = "hermes" => wallet[c].phrase = wallet[c].addr
=============================================================================
