---------------------------- MODULE TestTeardown ----------------------------
(***************************************************************************)
(* How a TestChain (ict-rs/src/testing/mod.rs), or a TestEthChain around   *)
(* an Anvil node, gets rid of its resources: by an explicit cleanup(),     *)
(* which may be cancelled like any future, and by Drop, which cannot       *)
(* await: it starts a thread that runs chain.stop() with Handle::block_on  *)
(* and joins it, blocking the thread it runs on.                           *)
(*                                                                         *)
(* A tokio runtime polls its I/O driver on its own threads only: the one   *)
(* inside Runtime::block_on when it is a current_thread runtime (what a    *)
(* plain #[tokio::test] builds), the workers when it is a multi_thread     *)
(* one.  Handle::block_on does not drive I/O.  With the mock backend stop  *)
(* does no I/O; with Docker every removal is a request and an answer.      *)
(***************************************************************************)
EXTENDS Naturals, FiniteSets

CONSTANTS Chain,      \* the chains of one test
          Eth,        \* those that are a TestEthChain
          Worker      \* worker threads of a multi_thread runtime

ASSUME TeardownAssumption == Eth \subseteq Chain /\ "none" \notin Chain

Thread == Worker \cup {"main"}

\* What a chain owns, in the order stop() removes it.
Resource == {"container", "volume", "network"}

\* The struct keeps an id of these, the volume goes by its name.
Handle == {"container", "network"}

VARIABLES
  flavor, backend,  \* of the tokio runtime and of the container runtime
  keep,             \* ICT_KEEP_CONTAINERS
  phase,
  left,             \* resources of each chain that exist
  held,             \* the ids still in the struct
  todo,             \* removals stop() has still to try
  waiting,          \* is a request to Docker in flight?
  cleanedUp,
  joining,          \* the chain whose Drop blocks a thread, or "none"
  spoiled           \* a removal failed, or setup did, or Drop only warned

env  == <<flavor, backend, keep>>
vars == <<env, phase, left, held, todo, waiting, cleanedUp, joining, spoiled>>

\* The removal stop() tries next, or the one that is under way; it skips a
\* container or network whose id it has no longer.
NextRemoval(c) ==
  IF "container" \in todo[c] THEN "container"
  ELSE IF "volume" \in todo[c] THEN "volume" ELSE "network"

Owned(c, r) == r \in Handle => r \in held[c]

TypeOK ==
  /\ flavor \in {"current_thread", "multi_thread"}
  /\ backend \in {"mock", "docker"}
  /\ keep \in BOOLEAN
  /\ phase \in [Chain -> {"none", "up", "cleaning", "dropping", "gone"}]
  /\ left \in [Chain -> SUBSET Resource]
  /\ held \in [Chain -> SUBSET Handle]
  /\ todo \in [Chain -> SUBSET Resource]
  /\ waiting \in [Chain -> BOOLEAN]
  /\ cleanedUp \in [Chain -> BOOLEAN]
  /\ joining \in [Thread -> Chain \cup {"none"}]
  /\ spoiled \in [Chain -> BOOLEAN]
  /\ \A c \in Chain :
       /\ todo[c] # {} => phase[c] \in {"cleaning", "dropping"}
       /\ waiting[c] => todo[c] # {} /\ Owned(c, NextRemoval(c))
       /\ (\E t \in Thread : joining[t] = c) => phase[c] = "dropping"

Init ==
  /\ flavor \in {"current_thread", "multi_thread"}
  /\ backend \in {"mock", "docker"}
  /\ keep \in BOOLEAN
  /\ phase = [c \in Chain |-> "none"]
  /\ left = [c \in Chain |-> {}] /\ held = [c \in Chain |-> {}]
  /\ todo = [c \in Chain |-> {}] /\ waiting = [c \in Chain |-> FALSE]
  /\ cleanedUp = [c \in Chain |-> FALSE]
  /\ joining = [t \in Thread |-> "none"]
  /\ spoiled = [c \in Chain |-> FALSE]

-----------------------------------------------------------------------------
(* Threads.                                                                *)

\* The threads that run tasks, and the ones that poll for I/O.
TaskThread == IF flavor = "current_thread" THEN {"main"} ELSE Thread
Driver     == IF flavor = "current_thread" THEN {"main"} ELSE Worker

Free(t) == joining[t] = "none"

\* A task makes a step on a thread that is not blocked.
CanRun    == \E t \in TaskThread : Free(t)
CanDoIo   == \E t \in Driver : Free(t)

-----------------------------------------------------------------------------
(* setup and cleanup: async functions of the test.                         *)

Setup(c) ==
  /\ phase[c] = "none" /\ CanRun
  /\ phase' = [phase EXCEPT ![c] = "up"]
  /\ left' = [left EXCEPT ![c] = Resource]
  /\ held' = [held EXCEPT ![c] = Handle]
  /\ UNCHANGED <<env, todo, waiting, cleanedUp, joining, spoiled>>

\* initialize or start fails: the chain inside, which has no Drop, is gone
\* before there is a TestChain.
SetupFails(c) ==
  /\ phase[c] = "none" /\ CanRun
  /\ phase' = [phase EXCEPT ![c] = "gone"]
  /\ \E r \in SUBSET Resource : left' = [left EXCEPT ![c] = r]
  /\ spoiled' = [spoiled EXCEPT ![c] = TRUE]
  /\ UNCHANGED <<env, held, todo, waiting, cleanedUp, joining>>

\* (Mutant) The flag is set before the work is done.
CleanupMut(c) ==
  /\ phase[c] = "up" /\ ~cleanedUp[c] /\ CanRun
  /\ cleanedUp' = [cleanedUp EXCEPT ![c] = TRUE]
  /\ IF keep THEN UNCHANGED <<phase, todo>>
     ELSE phase' = [phase EXCEPT ![c] = "cleaning"] /\ todo' = [todo EXCEPT ![c] = Resource]
  /\ UNCHANGED <<env, left, held, waiting, joining, spoiled>>

\* Nothing to do a second time, or when the containers are to be kept.
Cleanup(c) ==
  /\ phase[c] = "up" /\ ~cleanedUp[c] /\ CanRun
  /\ IF keep
     THEN c \notin Eth /\ cleanedUp' = [cleanedUp EXCEPT ![c] = TRUE] /\ UNCHANGED <<phase, todo>>
     ELSE /\ phase' = [phase EXCEPT ![c] = "cleaning"]
          /\ todo' = [todo EXCEPT ![c] = Resource]
          /\ UNCHANGED cleanedUp
  /\ UNCHANGED <<env, left, held, waiting, joining, spoiled>>

\* The answer to a removal: a volume in use and a network with a container
\* on it stay; anything may fail.
Removed(c, r) ==
  /\ r # "container" => "container" \notin left[c]
  /\ left' = [left EXCEPT ![c] = @ \ {r}]
  /\ UNCHANGED spoiled

NotRemoved(c) ==
  /\ spoiled' = [spoiled EXCEPT ![c] = TRUE]
  /\ UNCHANGED left

\* An id is taken before what it names is removed.
TakeId(c, r) == held' = [held EXCEPT ![c] = @ \ {r}]

\* (Mutant) The request in flight is still waited for.
CleanupCancelledMut(c) ==
  /\ phase[c] = "cleaning" /\ CanRun
  /\ phase' = [phase EXCEPT ![c] = "up"]
  /\ todo' = [todo EXCEPT ![c] = {}]
  /\ UNCHANGED <<env, left, held, waiting, cleanedUp, joining, spoiled>>

\* cleanup() is dropped at an await, a timeout around it for one: Docker may
\* carry out the request in flight nevertheless.
CleanupCancelled(c) ==
  /\ phase[c] = "cleaning" /\ CanRun
  /\ phase' = [phase EXCEPT ![c] = "up"]
  /\ todo' = [todo EXCEPT ![c] = {}]
  /\ waiting' = [waiting EXCEPT ![c] = FALSE]
  /\ IF waiting[c]
     THEN /\ Removed(c, NextRemoval(c)) \/ NotRemoved(c)
          /\ TakeId(c, NextRemoval(c))
     ELSE UNCHANGED <<left, held, spoiled>>
  /\ UNCHANGED <<env, cleanedUp, joining>>

-----------------------------------------------------------------------------
(* stop(), in the task that awaits cleanup() or in the thread of a Drop.   *)

Stopping(c) == (phase[c] = "cleaning" /\ CanRun) \/ phase[c] = "dropping"

StopSkips(c) ==
  /\ Stopping(c) /\ todo[c] # {} /\ ~Owned(c, NextRemoval(c))
  /\ todo' = [todo EXCEPT ![c] = @ \ {NextRemoval(c)}]
  /\ UNCHANGED <<env, phase, left, held, waiting, cleanedUp, joining, spoiled>>

StopRequest(c) ==
  /\ Stopping(c) /\ todo[c] # {} /\ backend = "docker" /\ ~waiting[c]
  /\ Owned(c, NextRemoval(c))
  /\ waiting' = [waiting EXCEPT ![c] = TRUE]
  /\ UNCHANGED <<env, phase, left, held, todo, cleanedUp, joining, spoiled>>

\* (Mutant) A removal that failed is tried again.
StopAnswerMut(c) ==
  LET r == NextRemoval(c)
  IN  /\ waiting[c] /\ CanDoIo
      /\ waiting' = [waiting EXCEPT ![c] = FALSE]
      /\ \/ Removed(c, r) /\ TakeId(c, r) /\ todo' = [todo EXCEPT ![c] = @ \ {r}]
         \/ NotRemoved(c) /\ UNCHANGED <<held, todo>>
      /\ UNCHANGED <<env, phase, cleanedUp, joining>>

StopAnswer(c) ==
  LET r == NextRemoval(c)
  IN  /\ waiting[c] /\ CanDoIo
      /\ waiting' = [waiting EXCEPT ![c] = FALSE]
      /\ todo' = [todo EXCEPT ![c] = @ \ {r}]
      /\ Removed(c, r) \/ NotRemoved(c)
      /\ TakeId(c, r)
      /\ UNCHANGED <<env, phase, cleanedUp, joining>>

\* The mock backend removes at once.
StopMocked(c) ==
  LET r == NextRemoval(c)
  IN  /\ Stopping(c) /\ todo[c] # {} /\ backend = "mock" /\ Owned(c, r)
      /\ todo' = [todo EXCEPT ![c] = @ \ {r}]
      /\ Removed(c, r) \/ NotRemoved(c)
      /\ TakeId(c, r)
      /\ UNCHANGED <<env, phase, waiting, cleanedUp, joining>>

\* cleanup() notes that it is done; a Drop's thread ends and is joined.
StopReturns(c) ==
  /\ Stopping(c) /\ todo[c] = {}
  /\ IF phase[c] = "cleaning"
     THEN /\ phase' = [phase EXCEPT ![c] = "up"]
          /\ cleanedUp' = [cleanedUp EXCEPT ![c] = TRUE]
          /\ UNCHANGED joining
     ELSE /\ phase' = [phase EXCEPT ![c] = "gone"]
          /\ joining' = [t \in Thread |-> IF joining[t] = c THEN "none" ELSE joining[t]]
          /\ UNCHANGED cleanedUp
  /\ UNCHANGED <<env, left, held, todo, waiting, spoiled>>

-----------------------------------------------------------------------------
(* Drop, at the end of the test function or while a panic unwinds.         *)

DropNothing(c) ==
  /\ phase[c] = "up" /\ CanRun
  /\ cleanedUp[c] \/ keep
  /\ phase' = [phase EXCEPT ![c] = "gone"]
  /\ UNCHANGED <<env, left, held, todo, waiting, cleanedUp, joining, spoiled>>

DropStops(c) ==
  /\ phase[c] = "up" /\ ~cleanedUp[c] /\ ~keep
  /\ \E t \in TaskThread : Free(t) /\ joining' = [joining EXCEPT ![t] = c]
  /\ phase' = [phase EXCEPT ![c] = "dropping"]
  /\ todo' = [todo EXCEPT ![c] = Resource]
  /\ UNCHANGED <<env, left, held, waiting, cleanedUp, spoiled>>

\* Outside a tokio runtime there is only a warning, and not even that of a
\* TestEthChain.
DropWarns(c) ==
  /\ phase[c] = "up" /\ ~cleanedUp[c] /\ ~keep
  /\ phase' = [phase EXCEPT ![c] = "gone"]
  /\ spoiled' = [spoiled EXCEPT ![c] = TRUE]
  /\ UNCHANGED <<env, left, held, todo, waiting, cleanedUp, joining>>

Stop(c) == StopSkips(c) \/ StopRequest(c) \/ StopAnswer(c) \/ StopMocked(c) \/ StopReturns(c)

Next ==
  \E c \in Chain :
    \/ Setup(c) \/ SetupFails(c) \/ Cleanup(c) \/ CleanupCancelled(c)
    \/ Stop(c) \/ DropNothing(c) \/ DropStops(c) \/ DropWarns(c)

\* Threads are scheduled and Docker answers: a stop that can go on does.
Spec == Init /\ [][Next]_vars /\ \A c \in Chain : WF_vars(Stop(c))

-----------------------------------------------------------------------------
(* Properties.                                                             *)

\* A chain that is gone has left nothing, unless the containers are to be
\* kept, or a removal failed, setup did, or Drop ran outside the runtime: also
\* when cleanup() was cancelled at any await before the drop, which takes an
\* id with it.
GoneIsClean ==
  \A c \in Chain : phase[c] = "gone" /\ ~keep /\ ~spoiled[c] => left[c] = {}

\* There is always a thread left to poll for I/O, or no need of one.
Spare == backend = "mock" \/ (flavor = "multi_thread" /\ Cardinality(Chain) < Cardinality(Worker))

\* Drops return, also several at a time and with failing removals, on a
\* multi_thread runtime that has more workers than chains and with the mock.
SpareDropReturns ==
  \A c \in Chain : (phase[c] = "dropping" /\ Spare) ~> phase[c] = "gone"

\* "Automatic Docker resource cleanup via Drop" (testing/mod.rs:43), "runs
\* even on panic" (198): a chain that is dropped is cleaned up in the end.
DropReturns == \A c \in Chain : phase[c] = "dropping" ~> phase[c] = "gone"
=============================================================================
