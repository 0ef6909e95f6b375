----------------------------- MODULE SnapshotStore -----------------------------
(***************************************************************************)
(* LocalFsStore of QuickSpawn (quickspawn/store.rs), which keeps a         *)
(* snapshot as three files in a directory named by its id.                 *)
(*                                                                         *)
(* The id is made of chain id, height and genesis hash: savers of one      *)
(* chain at one height share it, and their genesis, but not what else a    *)
(* snapshot holds (time of creation, keys, contracts).  A write truncates  *)
(* its file before it fills it, and the process may be killed in between.  *)
(***************************************************************************)
EXTENDS Naturals, Sequences, FiniteSets

CONSTANTS Saver         \* processes that save a snapshot of one id

\* The files in the order save writes them.
File == <<"snapshot.json", "genesis.json", "metadata.json">>
Step == DOMAIN File

Content == [by : Saver, torn : BOOLEAN]
NoFile  == {}

VARIABLES
  files,                \* per file nothing, or its content
  pc, step,             \* of each saver
  met, clean            \* did another save meet it; did the last one to end
                        \* end well and alone?

vars == <<files, pc, step, met, clean>>

TypeOK ==
  /\ files \in [Step -> SUBSET Content] /\ \A i \in Step : Cardinality(files[i]) <= 1
  /\ pc \in [Saver -> {"idle", "mkdir", "truncate", "fill", "late"}]
  /\ step \in [Saver -> Step] /\ met \in [Saver -> BOOLEAN] /\ clean \in BOOLEAN

Init ==
  /\ files = [i \in Step |-> NoFile]
  /\ pc = [s \in Saver |-> "idle"] /\ step = [s \in Saver |-> 1]
  /\ met = [s \in Saver |-> FALSE] /\ clean = FALSE

-----------------------------------------------------------------------------
(* save, as often as one likes.                                            *)

Begin(s) ==
  LET others == {t \in Saver : pc[t] # "idle"} IN
  /\ pc[s] = "idle" /\ pc' = [pc EXCEPT ![s] = "mkdir"]
  /\ step' = [step EXCEPT ![s] = 1]
  /\ met' = [t \in Saver |-> IF t = s THEN others # {} ELSE met[t] \/ t \in others]
  /\ clean' = FALSE
  /\ UNCHANGED <<files>>

\* A directory that is there is no error.
MakeDir(s) ==
  /\ pc[s] = "mkdir" /\ pc' = [pc EXCEPT ![s] = "truncate"]
  /\ UNCHANGED <<files, step, met, clean>>

Advance(s) ==
  IF step[s] = Len(File)
  THEN pc' = [pc EXCEPT ![s] = "idle"] /\ clean' = ~met[s] /\ UNCHANGED step
  ELSE /\ step' = [step EXCEPT ![s] = @ + 1]
       /\ pc' = [pc EXCEPT ![s] = "truncate"] /\ UNCHANGED clean

\* (Mutant) A file that is there already is not written again.
TruncateMut(s) ==
  /\ pc[s] = "truncate"
  /\ IF files[step[s]] # NoFile THEN Advance(s) /\ UNCHANGED files
     ELSE /\ pc' = [pc EXCEPT ![s] = "fill"] /\ UNCHANGED <<step, clean>>
          /\ files' = [files EXCEPT ![step[s]] = {[by |-> s, torn |-> TRUE]}]
  /\ UNCHANGED <<met>>

Truncate(s) ==
  /\ pc[s] = "truncate" /\ pc' = [pc EXCEPT ![s] = "fill"]
  /\ files' = [files EXCEPT ![step[s]] = {[by |-> s, torn |-> TRUE]}]
  /\ UNCHANGED <<step, met, clean>>

\* Where another saver has truncated or filled the file meanwhile, its bytes
\* may be left over.
Fill(s) ==
  LET mine == files[step[s]] = {[by |-> s, torn |-> TRUE]} IN
  /\ pc[s] = "fill" /\ Advance(s)
  /\ \E torn \in (IF mine THEN {FALSE} ELSE BOOLEAN) :
       files' = [files EXCEPT ![step[s]] = {[by |-> s, torn |-> torn]}]
  /\ UNCHANGED <<met>>

\* A write fails, or the process is killed: the files stay as they are.
SaveEnds(s) ==
  /\ pc[s] \notin {"idle", "late"} /\ pc' = [pc EXCEPT ![s] = "idle"] /\ clean' = FALSE
  /\ UNCHANGED <<files, step, met>>

\* The future is dropped at an await: the write goes on in a thread of its own
\* and ends some time later.
SaveCancelled(s) ==
  /\ pc[s] \in {"truncate", "fill"} /\ pc' = [pc EXCEPT ![s] = "late"] /\ clean' = FALSE
  /\ UNCHANGED <<files, step, met>>

LateWrite(s) ==
  /\ pc[s] = "late" /\ pc' = [pc EXCEPT ![s] = "idle"]
  /\ \E torn \in BOOLEAN : files' = [files EXCEPT ![step[s]] = {[by |-> s, torn |-> torn]}]
  /\ UNCHANGED <<step, met, clean>>

-----------------------------------------------------------------------------
(* load and exists look at the first file only.                            *)

Exists == files[1] # NoFile

\* What is torn does not parse, and nothing is compared with the genesis hash.
Loads == {c \in files[1] : ~c.torn}

Next ==
  \E s \in Saver :
    \/ Begin(s) \/ MakeDir(s) \/ Truncate(s) \/ Fill(s)
    \/ SaveEnds(s) \/ SaveCancelled(s) \/ LateWrite(s)

Spec == Init /\ [][Next]_vars

-----------------------------------------------------------------------------
(* Properties.                                                             *)

\* When the last save has ended well and none ran beside it, the directory
\* holds its three files, whole, whatever an earlier one that was cut off or
\* met another has left: what exists loads, and the metadata is its own.  (While
\* a save is under way or after a crash, exists may be true of a torn file.)
LastSaveStands ==
  clean => /\ Exists /\ Loads # {}
           /\ \E s \in Saver : \A i \in Step : files[i] = {[by |-> s, torn |-> FALSE]}
=============================================================================
