------------------------------ MODULE NodeFiles ------------------------------
(***************************************************************************)
(* The file operations of a ChainNode (cosmos/node.rs) that take more than *)
(* one command: write_file, create_snapshot, wipe_data and                 *)
(* apply_config_override.  Each is a sequence of execs in the container of *)
(* the node, on fixed paths: the temporary of a written file, the archive  *)
(* in /tmp, the backup of the signing state.  They take &self, so several  *)
(* tasks of a test may be in them at the same time, for the same node.     *)
(*                                                                         *)
(* A command that does not get through ends the call with an error.  A     *)
(* command that exits with a failure ends it only where the code looks at  *)
(* the exit code.  The shell of wipe_data may be killed between any two    *)
(* commands of its line.                                                   *)
(***************************************************************************)
EXTENDS Naturals, Sequences

CONSTANTS Task,
          Chunks,       \* chunks of 65536 characters of a large file
          MaxCalls      \* bound: calls per task

Op == {"none", "small", "large", "snapshot", "wipe", "override"}

VARIABLES
  \* the home of the node
  file, tmp,            \* the target of write_file and its .b64: chunks written
  archive,              \* /tmp/snapshot.tar.lz4: "none", "torn" or "whole"
  data, pvs, backup,    \* data directory, signing state in it and beside it
  config,               \* a TOML file: its own settings, and the overrides merged
  \* the tasks
  op, pc, chunk,        \* the call, its step, the next chunk
  read, got,            \* the config and the archive as the call read them
  calls, ret,
  met,                  \* did a call on the same paths run meanwhile?
  wipesMet,             \* did two wipes ever?
  unseen                \* did the call overlook a command that failed?

disk   == <<file, tmp, archive, data, pvs, backup, config>>
locals == <<op, pc, chunk, read, got, calls, ret, met, wipesMet, unseen>>
vars   == <<disk, locals>>

Content(t) == [i \in 1 .. Chunks |-> <<t, i>>]
Piece      == Task \X (1 .. Chunks)
Copy       == {"none", "torn", "whole"}
Config     == [own : BOOLEAN, by : SUBSET Task]
NoConfig   == [own |-> FALSE, by |-> {}]

\* The signing state is in the data directory when it is not beside it.
TypeOK ==
  /\ file \in Seq(Piece) /\ tmp \in Seq(Piece)
  /\ archive \in Copy /\ data \in BOOLEAN /\ pvs \in Copy /\ backup \in Copy
  /\ pvs # "none" => data
  /\ config \in Config
  /\ op \in [Task -> Op] /\ chunk \in [Task -> 1 .. Chunks + 1]
  /\ pc \in [Task -> {"idle", "mkdir", "write", "rm", "append", "decode", "pack", "pack.end",
                      "fetch", "wipe.cp", "wipe.rm", "wipe.mkdir", "wipe.mv", "cat", "store"}]
  /\ read \in [Task -> Config] /\ got \in [Task -> Copy]
  /\ calls \in [Task -> 0 .. MaxCalls] /\ ret \in [Task -> {"none", "ok", "err"}]
  /\ met \in [Task -> BOOLEAN] /\ wipesMet \in BOOLEAN /\ unseen \in [Task -> BOOLEAN]

Init ==
  /\ file = <<>> /\ tmp = <<>> /\ archive = "none"
  /\ data = TRUE /\ pvs = "whole" /\ backup = "none"
  /\ config = [own |-> TRUE, by |-> {}]
  /\ op = [t \in Task |-> "none"] /\ pc = [t \in Task |-> "idle"]
  /\ chunk = [t \in Task |-> 1] /\ read = [t \in Task |-> NoConfig]
  /\ got = [t \in Task |-> "none"]
  /\ calls = [t \in Task |-> 0] /\ ret = [t \in Task |-> "none"]
  /\ met = [t \in Task |-> FALSE] /\ wipesMet = FALSE /\ unseen = [t \in Task |-> FALSE]

-----------------------------------------------------------------------------
(* Calls.                                                                  *)

First(o) == CASE o \in {"small", "large"} -> "mkdir" [] o = "snapshot" -> "pack"
              [] o = "wipe" -> "wipe.cp" [] o = "override" -> "cat"

\* Calls that touch the paths of a call.
Rivals(o) == CASE o \in {"small", "large"} -> {"small", "large"}
               [] o \in {"snapshot", "wipe"} -> {"snapshot", "wipe"}
               [] o = "override" -> {"override"}

Others(t, o) == {u \in Task \ {t} : pc[u] # "idle" /\ op[u] \in Rivals(o)}

Begin(t, o) ==
  /\ pc[t] = "idle" /\ calls[t] < MaxCalls
  /\ op' = [op EXCEPT ![t] = o] /\ pc' = [pc EXCEPT ![t] = First(o)]
  /\ calls' = [calls EXCEPT ![t] = @ + 1]
  /\ chunk' = [chunk EXCEPT ![t] = 1] /\ read' = [read EXCEPT ![t] = NoConfig]
  /\ got' = [got EXCEPT ![t] = "none"]
  /\ ret' = [ret EXCEPT ![t] = "none"] /\ unseen' = [unseen EXCEPT ![t] = FALSE]
  /\ met' = [u \in Task |-> IF u = t THEN Others(t, o) # {}
                            ELSE met[u] \/ u \in Others(t, o)]
  /\ wipesMet' = (wipesMet \/ (o = "wipe" /\ \E u \in Others(t, o) : op[u] = "wipe"))
  /\ UNCHANGED disk

Goto(t, step) ==
  /\ pc' = [pc EXCEPT ![t] = step]
  /\ UNCHANGED <<op, calls, ret, met, wipesMet>>

Return(t, r) ==
  /\ pc' = [pc EXCEPT ![t] = "idle"] /\ ret' = [ret EXCEPT ![t] = r]
  /\ UNCHANGED <<op, calls, met, wipesMet>>

\* The exit code is looked at, or not.
Overlook(t) == unseen' = [unseen EXCEPT ![t] = TRUE]

\* An exec that could not be made, or whose exit code the code looks at; a
\* write may have got as far as the redirection.
Fails(t) ==
  /\ pc[t] \in {"mkdir", "write", "rm", "append", "pack", "fetch", "wipe.cp", "cat", "store"}
  /\ Return(t, "err")
  /\ file' \in (IF pc[t] = "write" THEN {file, <<>>} ELSE {file})
  /\ tmp' \in (IF pc[t] = "append" THEN {tmp, Append(tmp, <<t, chunk[t]>>)} ELSE {tmp})
  /\ config' \in (IF pc[t] = "store" THEN {config, NoConfig} ELSE {config})
  /\ UNCHANGED <<archive, data, pvs, backup, chunk, read, got, unseen>>

-----------------------------------------------------------------------------
(* write_file: a small file by one command, a large one in chunks.         *)

MakeParent(t) ==
  /\ pc[t] = "mkdir"
  /\ Goto(t, IF op[t] = "small" THEN "write" ELSE "rm")
  /\ UNCHANGED <<disk, chunk, read, got, unseen>>

WriteSmall(t) ==
  /\ pc[t] = "write"
  /\ file' = Content(t)
  /\ Return(t, "ok")
  /\ UNCHANGED <<tmp, archive, data, pvs, backup, config, chunk, read, got, unseen>>

\* (Mutant) The temporary of an earlier attempt is not removed.
RemoveTmpMut(t) ==
  /\ pc[t] = "rm"
  /\ UNCHANGED <<tmp, unseen>>
  /\ Goto(t, "append")
  /\ UNCHANGED <<file, archive, data, pvs, backup, config, chunk, read, got>>

\* The exit code of rm is not looked at.
RemoveTmp(t) ==
  /\ pc[t] = "rm"
  /\ \/ tmp' = <<>> /\ UNCHANGED unseen
     \/ tmp # <<>> /\ UNCHANGED tmp /\ Overlook(t)
  /\ Goto(t, "append")
  /\ UNCHANGED <<file, archive, data, pvs, backup, config, chunk, read, got>>

AppendChunk(t) ==
  /\ pc[t] = "append"
  /\ tmp' = Append(tmp, <<t, chunk[t]>>)
  /\ chunk' = [chunk EXCEPT ![t] = @ + 1]
  /\ Goto(t, IF chunk[t] = Chunks THEN "decode" ELSE "append")
  /\ UNCHANGED <<file, archive, data, pvs, backup, config, read, got, unseen>>

\* base64 -d tmp > file && rm tmp: the file is written before it fails, and
\* without a temporary it is empty.
Decode(t) ==
  /\ pc[t] = "decode"
  /\ \/ tmp # <<>> /\ file' = tmp /\ tmp' = <<>> /\ Return(t, "ok")
     \/ \E f \in {file, tmp, <<>>} : file' = f /\ UNCHANGED tmp /\ Return(t, "err")
  /\ UNCHANGED <<archive, data, pvs, backup, config, chunk, read, got, unseen>>

-----------------------------------------------------------------------------
(* create_snapshot.                                                        *)

PackBegin(t) ==
  /\ pc[t] = "pack" /\ data /\ archive' = "torn" /\ Goto(t, "pack.end")
  /\ UNCHANGED <<file, tmp, data, pvs, backup, config, chunk, read, got, unseen>>

\* tar | lz4: the exit code is the one of lz4, so a tar that failed, or that
\* the process writing to the data directory made fail, is not noticed.
PackEnd(t) ==
  /\ pc[t] = "pack.end"
  /\ \/ data /\ archive' = "whole" /\ Goto(t, "fetch") /\ UNCHANGED unseen
     \/ data /\ archive' = "torn" /\ Goto(t, "fetch") /\ Overlook(t)
     \/ UNCHANGED <<archive, unseen>> /\ Return(t, "err")
  /\ UNCHANGED <<file, tmp, data, pvs, backup, config, chunk, read, got>>

Fetch(t) ==
  /\ pc[t] = "fetch"
  /\ got' = [got EXCEPT ![t] = archive]
  /\ Return(t, "ok")
  /\ UNCHANGED <<disk, chunk, read, unseen>>

-----------------------------------------------------------------------------
(* wipe_data: cp, rm -rf, mkdir, mv, each after the success of the one     *)
(* before it; a failure or a kill in between ends the line.                *)

WipeEnds(t) ==
  /\ pc[t] \in {"wipe.rm", "wipe.mkdir", "wipe.mv"}
  /\ Return(t, "err")
  /\ UNCHANGED <<disk, chunk, read, got, unseen>>

\* (Mutant) The data is removed although the copy failed (`;` for `&&`).
WipeCopyMut(t) ==
  /\ pc[t] = "wipe.cp"
  /\ \/ pvs # "none" /\ backup' = pvs
     \/ UNCHANGED backup
  /\ Goto(t, "wipe.rm")
  /\ UNCHANGED <<file, tmp, archive, data, pvs, config, chunk, read, got, unseen>>

WipeCopy(t) ==
  /\ pc[t] = "wipe.cp" /\ pvs # "none"
  /\ \/ backup' = pvs /\ Goto(t, "wipe.rm")
     \/ backup' = "torn" /\ Return(t, "err")
  /\ UNCHANGED <<file, tmp, archive, data, pvs, config, chunk, read, got, unseen>>

\* rm -rf may stop half-way.
WipeRemove(t) ==
  /\ pc[t] = "wipe.rm" /\ pvs' = "none"
  /\ \/ data' = FALSE /\ Goto(t, "wipe.mkdir")
     \/ UNCHANGED data /\ Return(t, "err")
  /\ UNCHANGED <<file, tmp, archive, backup, config, chunk, read, got, unseen>>

WipeMake(t) ==
  /\ pc[t] = "wipe.mkdir" /\ data' = TRUE /\ Goto(t, "wipe.mv")
  /\ UNCHANGED <<file, tmp, archive, pvs, backup, config, chunk, read, got, unseen>>

WipeRestore(t) ==
  /\ pc[t] = "wipe.mv" /\ data /\ backup # "none"
  /\ pvs' = backup /\ backup' = "none" /\ Return(t, "ok")
  /\ UNCHANGED <<file, tmp, archive, data, config, chunk, read, got, unseen>>

-----------------------------------------------------------------------------
(* apply_config_override: read, merge, write.                              *)

\* A file that cannot be read counts as empty: no exit code is looked at.
Cat(t) ==
  /\ pc[t] = "cat"
  /\ \/ read' = [read EXCEPT ![t] = config] /\ UNCHANGED unseen
     \/ read' = [read EXCEPT ![t] = NoConfig] /\ Overlook(t)
  /\ Goto(t, "store")
  /\ UNCHANGED <<disk, chunk, got>>

\* The redirection truncates the file before anything can fail.
Store(t) ==
  /\ pc[t] = "store"
  /\ \/ config' = [read[t] EXCEPT !.by = @ \cup {t}] /\ UNCHANGED unseen
     \/ config' \in {config, NoConfig} /\ Overlook(t)
  /\ Return(t, "ok")
  /\ UNCHANGED <<file, tmp, archive, data, pvs, backup, chunk, read, got>>

-----------------------------------------------------------------------------

Next ==
  \E t \in Task :
    \/ \E o \in Op \ {"none"} : Begin(t, o)
    \/ Fails(t) \/ MakeParent(t) \/ WriteSmall(t) \/ RemoveTmp(t) \/ AppendChunk(t) \/ Decode(t)
    \/ PackBegin(t) \/ PackEnd(t) \/ Fetch(t)
    \/ WipeCopy(t) \/ WipeRemove(t) \/ WipeMake(t) \/ WipeRestore(t) \/ WipeEnds(t)
    \/ Cat(t) \/ Store(t)

Spec == Init /\ [][Next]_vars

-----------------------------------------------------------------------------
(* Properties.                                                             *)

\* What the step that ends the call of t has brought about.
Whole(t) ==
  CASE op[t] \in {"small", "large"} -> file' = Content(t)
    [] op[t] = "snapshot" -> got'[t] = "whole"
    [] op[t] = "wipe"     -> data' /\ (pvs' = "whole" \/ wipesMet)
    [] op[t] = "override" -> config' = [config EXCEPT !.by = @ \cup {t}]

\* A call that returns Ok has done its work, whatever earlier attempts left
\* behind, unless another call was on the same paths meanwhile, or a command
\* failed of those whose exit code is not looked at: the rm of the temporary,
\* the tar of a snapshot, the cat and the write of an override.
OkIsWhole ==
  [][\A t \in Task :
       pc[t] # "idle" /\ ret'[t] = "ok" /\ ~met[t] /\ ~unseen'[t] => Whole(t)]_vars

\* "Backs up priv_validator_state.json before wiping and restores it" (node.rs
\* 1004): the whole signing state of the validator is in the data directory or
\* beside it, wherever a wipe was killed and however often it was tried again,
\* as long as no two tasks wipe the node at the same time.  (Two may: the
\* second removes what the first has just restored.)
SigningStateKept == ~wipesMet => pvs = "whole" \/ backup = "whole"
=============================================================================
