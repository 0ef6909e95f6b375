--------------------------- MODULE RuntimesProofs ---------------------------
(* Tests and the container runtime below them (MCRuntimes), for every value*)
(* of the constants.                                                       *)
EXTENDS MCRuntimes, Integers, FiniteSetTheorems, TLAPS

-----------------------------------------------------------------------------
(* The teardown of a test: GoneIsClean and TypeOK of TestTeardown.         *)

Phase == {"none", "up", "cleaning", "dropping", "gone"}

ChainsTyped ==
  /\ phase \in [Chain -> Phase] /\ left \in [Chain -> SUBSET Resource]
  /\ held \in [Chain -> SUBSET Handle] /\ todo \in [Chain -> SUBSET Resource]
  /\ cleanedUp \in [Chain -> BOOLEAN] /\ spoiled \in [Chain -> BOOLEAN]

\* Of a chain no removal of which failed: the struct has the ids of what is
\* left, a stop under way has still to try it, and nothing is left once cleanup
\* has noted its end or the chain is gone.
Reachable(c) ==
  /\ left[c] \cap Handle \subseteq held[c]
  /\ phase[c] \in {"cleaning", "dropping"} => left[c] \subseteq todo[c]
  /\ phase[c] = "gone" \/ cleanedUp[c] => left[c] = {}

Tracked ==
  \A c \in Chain :
    /\ phase[c] = "none" => ~cleanedUp[c]
    /\ ~keep /\ ~spoiled[c] => Reachable(c)

TeardownInv == ChainsTyped /\ Tracked

LEMMA NextIsResource == ASSUME NEW c PROVE NextRemoval(c) \in Resource
  BY DEF NextRemoval, Resource

LEMMA HandlesAreResources == Handle \subseteq Resource
  BY DEF Handle, Resource

\* The end of a request for r, answered or abandoned: the id is taken, and the
\* resource is gone or the chain spoiled.
Answered(c, r) == (Removed(c, r) \/ NotRemoved(c)) /\ TakeId(c, r)

LEMMA AnswerKeeps ==
  ASSUME TeardownInv, NEW c \in Chain, NEW r \in Resource, Answered(c, r),
         UNCHANGED <<phase, cleanedUp, keep>>, todo' = [todo EXCEPT ![c] = @ \ {r}]
  PROVE  TeardownInv'
<1> USE DEF TeardownInv
<1>1. ChainsTyped'
  BY DEF ChainsTyped, Answered, Removed, NotRemoved, TakeId
<1>2. ASSUME NEW d \in Chain, d # c
      PROVE  /\ left'[d] = left[d] /\ held'[d] = held[d] /\ todo'[d] = todo[d]
             /\ spoiled'[d] = spoiled[d]
  BY <1>2 DEF ChainsTyped, Answered, Removed, NotRemoved, TakeId
<1>3. CASE Removed(c, r) /\ TakeId(c, r)
  <2>1. /\ left'[c] = left[c] \ {r} /\ held'[c] = held[c] \ {r} /\ todo'[c] = todo[c] \ {r}
        /\ spoiled'[c] = spoiled[c]
    BY <1>3 DEF ChainsTyped, Removed, TakeId
  <2> QED BY <1>1, <1>2, <2>1 DEF Tracked, Reachable
<1>4. CASE NotRemoved(c)
  <2>1. spoiled'[c] = TRUE
    BY <1>4 DEF ChainsTyped, NotRemoved
  <2> QED BY <1>1, <1>2, <2>1 DEF Tracked, Reachable
<1> QED BY <1>3, <1>4 DEF Answered

LEMMA CancelKeeps ==
  ASSUME TeardownInv, NEW c \in Chain, CleanupCancelled(c)
  PROVE  TeardownInv'
<1> USE DEF TeardownInv
<1> DEFINE r == NextRemoval(c)
<1>1. /\ phase[c] = "cleaning" /\ phase' = [phase EXCEPT ![c] = "up"]
      /\ todo' = [todo EXCEPT ![c] = {}] /\ UNCHANGED <<cleanedUp, keep>>
  BY DEF CleanupCancelled, env
<1>2. \/ (Removed(c, r) \/ NotRemoved(c)) /\ TakeId(c, r)
      \/ UNCHANGED <<left, held, spoiled>>
  BY DEF CleanupCancelled
<1>3. ChainsTyped'
  BY <1>1, <1>2 DEF ChainsTyped, Phase, Removed, NotRemoved, TakeId
<1>4. ASSUME NEW d \in Chain, d # c
      PROVE  /\ left'[d] = left[d] /\ held'[d] = held[d] /\ todo'[d] = todo[d]
             /\ spoiled'[d] = spoiled[d] /\ phase'[d] = phase[d]
  BY <1>1, <1>2, <1>4 DEF ChainsTyped, Removed, NotRemoved, TakeId
<1>5. \/ left'[c] = left[c] \ {r} /\ held'[c] = held[c] \ {r} /\ spoiled'[c] = spoiled[c]
      \/ spoiled'[c] = TRUE
      \/ left'[c] = left[c] /\ held'[c] = held[c] /\ spoiled'[c] = spoiled[c]
  BY <1>2 DEF ChainsTyped, Removed, NotRemoved, TakeId
<1>6. phase'[c] = "up" /\ cleanedUp'[c] = cleanedUp[c]
  BY <1>1 DEF ChainsTyped
<1>7. ~keep /\ ~spoiled'[c] => Reachable(c)'
  BY <1>1, <1>5, <1>6 DEF Tracked, Reachable
<1>8. Tracked'
  BY <1>1, <1>4, <1>6, <1>7 DEF Tracked, Reachable
<1> QED BY <1>3, <1>8

LEMMA StopKeeps ==
  ASSUME TeardownInv, NEW c \in Chain, Stop(c)
  PROVE  TeardownInv'
<1> USE DEF TeardownInv
<1> DEFINE r == NextRemoval(c)
<1>1. CASE StopSkips(c)
  <2>1. /\ todo' = [todo EXCEPT ![c] = @ \ {r}] /\ r \in Handle /\ r \notin held[c]
        /\ UNCHANGED <<phase, left, held, cleanedUp, spoiled, keep>>
    BY <1>1 DEF StopSkips, Owned, env
  <2>2. ChainsTyped'
    BY <2>1 DEF ChainsTyped
  <2>3. ~keep /\ ~spoiled[c] => r \notin left[c]
    BY <2>1 DEF Tracked, Reachable
  <2>4. Tracked'
    BY <2>1, <2>3 DEF ChainsTyped, Tracked, Reachable
  <2> QED BY <2>2, <2>4
<1>2. CASE StopRequest(c)
  BY <1>2 DEF StopRequest, ChainsTyped, Tracked, Reachable, env
<1>3. CASE StopAnswer(c) \/ StopMocked(c)
  <2>1. /\ Answered(c, r) /\ todo' = [todo EXCEPT ![c] = @ \ {r}]
        /\ UNCHANGED <<phase, cleanedUp, keep>>
    BY <1>3 DEF StopAnswer, StopMocked, Answered, env
  <2> QED BY <2>1, AnswerKeeps, NextIsResource
<1>4. CASE StopReturns(c)
  <2>1. /\ todo[c] = {} /\ phase[c] \in {"cleaning", "dropping"}
        /\ UNCHANGED <<left, held, todo, spoiled, keep>>
    BY <1>4 DEF StopReturns, Stopping, env
  <2>2. \/ /\ phase' = [phase EXCEPT ![c] = "up"]
           /\ cleanedUp' = [cleanedUp EXCEPT ![c] = TRUE]
        \/ phase' = [phase EXCEPT ![c] = "gone"] /\ UNCHANGED cleanedUp
    BY <1>4 DEF StopReturns
  <2>3. ChainsTyped'
    BY <2>1, <2>2 DEF ChainsTyped, Phase
  <2>4. ~keep /\ ~spoiled[c] => left[c] = {}
    BY <2>1 DEF ChainsTyped, Tracked, Reachable
  <2>5. Tracked'
    BY <2>1, <2>2, <2>4 DEF ChainsTyped, Tracked, Reachable
  <2> QED BY <2>3, <2>5
<1> QED BY <1>1, <1>2, <1>3, <1>4 DEF Stop

LEMMA TeardownInductive == TeardownInv /\ [Next]_vars => TeardownInv'
<1> SUFFICES ASSUME TeardownInv, [Next]_vars
             PROVE  TeardownInv'
  OBVIOUS
<1> USE DEF TeardownInv
<1>1. ASSUME NEW c \in Chain, Setup(c)
      PROVE  TeardownInv'
  BY <1>1, HandlesAreResources DEF Setup, ChainsTyped, Phase, Tracked, Reachable, env
<1>2. ASSUME NEW c \in Chain, SetupFails(c)
      PROVE  TeardownInv'
  <2>1. PICK x \in SUBSET Resource : left' = [left EXCEPT ![c] = x]
    BY <1>2 DEF SetupFails
  <2>2. /\ phase' = [phase EXCEPT ![c] = "gone"] /\ spoiled' = [spoiled EXCEPT ![c] = TRUE]
        /\ UNCHANGED <<held, todo, cleanedUp, keep>>
    BY <1>2 DEF SetupFails, env
  <2> QED BY <2>1, <2>2 DEF ChainsTyped, Phase, Tracked, Reachable
<1>3. ASSUME NEW c \in Chain, Cleanup(c)
      PROVE  TeardownInv'
  <2>1. phase[c] = "up" /\ UNCHANGED <<left, held, spoiled, keep>>
    BY <1>3 DEF Cleanup, env
  <2>2. CASE keep
    <3>1. cleanedUp' = [cleanedUp EXCEPT ![c] = TRUE] /\ UNCHANGED <<phase, todo>>
      BY <1>3, <2>2 DEF Cleanup
    <3> QED BY <2>1, <2>2, <3>1 DEF ChainsTyped, Tracked
  <2>3. CASE ~keep
    <3>1. /\ phase' = [phase EXCEPT ![c] = "cleaning"] /\ todo' = [todo EXCEPT ![c] = Resource]
          /\ UNCHANGED cleanedUp
      BY <1>3, <2>3 DEF Cleanup
    <3> QED BY <2>1, <3>1 DEF ChainsTyped, Phase, Tracked, Reachable
  <2> QED BY <2>2, <2>3
<1>4. ASSUME NEW c \in Chain, CleanupCancelled(c)
      PROVE  TeardownInv'
  BY <1>4, CancelKeeps
<1>5. ASSUME NEW c \in Chain, Stop(c)
      PROVE  TeardownInv'
  BY <1>5, StopKeeps
<1>6. ASSUME NEW c \in Chain, DropNothing(c)
      PROVE  TeardownInv'
  <2>1. /\ phase[c] = "up" /\ phase' = [phase EXCEPT ![c] = "gone"] /\ (cleanedUp[c] \/ keep)
        /\ UNCHANGED <<left, held, todo, cleanedUp, spoiled, keep>>
    BY <1>6 DEF DropNothing, env
  <2> QED BY <2>1 DEF ChainsTyped, Phase, Tracked, Reachable
<1>7. ASSUME NEW c \in Chain, DropStops(c)
      PROVE  TeardownInv'
  <2>1. /\ phase[c] = "up" /\ phase' = [phase EXCEPT ![c] = "dropping"]
        /\ todo' = [todo EXCEPT ![c] = Resource]
        /\ UNCHANGED <<left, held, cleanedUp, spoiled, keep>>
    BY <1>7 DEF DropStops, env
  <2> QED BY <2>1 DEF ChainsTyped, Phase, Tracked, Reachable
<1>8. ASSUME NEW c \in Chain, DropWarns(c)
      PROVE  TeardownInv'
  <2>1. /\ phase[c] = "up" /\ phase' = [phase EXCEPT ![c] = "gone"]
        /\ spoiled' = [spoiled EXCEPT ![c] = TRUE]
        /\ UNCHANGED <<left, held, todo, cleanedUp, keep>>
    BY <1>8 DEF DropWarns, env
  <2> QED BY <2>1 DEF ChainsTyped, Phase, Tracked, Reachable
<1>9. CASE UNCHANGED vars
  BY <1>9 DEF vars, env, ChainsTyped, Tracked, Reachable
<1> QED BY <1>1, <1>2, <1>3, <1>4, <1>5, <1>6, <1>7, <1>8, <1>9 DEF Next

\* Any number of test chains on any runtime: one that is gone has left nothing,
\* unless the containers are kept, a removal or its setup failed, or its Drop
\* could only warn, wherever cleanup() was cancelled (testing/mod.rs).
THEOREM GoneAlwaysClean == Spec => []GoneIsClean
<1>1. Init => TeardownInv
  BY HandlesAreResources DEF Init, TeardownInv, ChainsTyped, Phase, Tracked, Reachable
<1>2. TeardownInv => GoneIsClean
  BY DEF TeardownInv, Tracked, Reachable, GoneIsClean
<1> QED BY <1>1, <1>2, TeardownInductive, PTL DEF Spec

\* The rest of TypeOK, and why the mock never has a request in flight.
Requests ==
  /\ flavor \in {"current_thread", "multi_thread"} /\ backend \in {"mock", "docker"}
  /\ keep \in BOOLEAN
  /\ waiting \in [Chain -> BOOLEAN]
  /\ joining \in [Thread -> Chain \cup {"none"}]
  /\ backend = "mock" => \A c \in Chain : ~waiting[c]

InFlight ==
  \A c \in Chain :
    /\ todo[c] # {} => phase[c] \in {"cleaning", "dropping"}
    /\ waiting[c] => todo[c] # {} /\ Owned(c, NextRemoval(c))
    /\ \A t \in Thread : joining[t] = c => phase[c] = "dropping"

Flying == Requests /\ InFlight

\* What a step on chain c must keep of the request of c itself.
LEMMA OthersFly ==
  ASSUME TeardownInv, Flying, NEW c \in Chain, Requests',
         \A d \in Chain \ {c} : /\ todo'[d] = todo[d] /\ phase'[d] = phase[d]
                                /\ waiting'[d] = waiting[d] /\ held'[d] = held[d],
         \A t \in Thread : joining'[t] = joining[t] \/ joining'[t] \in {c, "none"},
         todo'[c] # {} => phase'[c] \in {"cleaning", "dropping"},
         waiting'[c] => todo'[c] # {} /\ Owned(c, NextRemoval(c))',
         \A t \in Thread : joining'[t] = c => phase'[c] = "dropping"
  PROVE  Flying'
<1>1. ASSUME NEW d \in Chain \ {c}
      PROVE  /\ todo'[d] # {} => phase'[d] \in {"cleaning", "dropping"}
             /\ waiting'[d] => todo'[d] # {} /\ Owned(d, NextRemoval(d))'
             /\ \A t \in Thread : joining'[t] = d => phase'[d] = "dropping"
  BY TeardownAssumption DEF Flying, InFlight, Owned, NextRemoval
<1> QED BY <1>1 DEF Flying, InFlight

LEMMA StopFlies ==
  ASSUME TeardownInv, Flying, NEW c \in Chain, Stop(c)
  PROVE  Flying'
<1> DEFINE r == NextRemoval(c)
<1> USE DEF TeardownInv
<1>1. CASE StopSkips(c)
  <2>1. /\ todo' = [todo EXCEPT ![c] = @ \ {r}] /\ ~waiting[c]
        /\ UNCHANGED <<env, phase, held, waiting, joining>>
    BY <1>1 DEF StopSkips, Flying, InFlight
  <2>2. Requests' /\ (todo'[c] # {} => todo[c] # {})
    BY <2>1 DEF Flying, Requests, env, ChainsTyped
  <2> QED BY <2>1, <2>2, OthersFly DEF ChainsTyped, Flying, InFlight
<1>2. CASE StopRequest(c)
  <2>1. /\ waiting' = [waiting EXCEPT ![c] = TRUE] /\ backend = "docker"
        /\ todo[c] # {} /\ Owned(c, r)
        /\ UNCHANGED <<env, phase, held, todo, joining>>
    BY <1>2 DEF StopRequest
  <2>2. Requests'
    BY <2>1 DEF Flying, Requests, env
  <2>3. Owned(c, NextRemoval(c))'
    BY <2>1 DEF Owned, NextRemoval
  <2>4. \A d \in Chain \ {c} : waiting'[d] = waiting[d]
    BY <2>1 DEF Flying, Requests
  <2>5. /\ todo'[c] # {} => phase'[c] \in {"cleaning", "dropping"}
        /\ todo'[c] # {}
        /\ \A t \in Thread : joining'[t] = joining[t] /\ (joining'[t] = c => phase'[c] = "dropping")
    BY <2>1 DEF Flying, InFlight
  <2> QED BY <2>1, <2>2, <2>3, <2>4, <2>5, OthersFly
<1>3. CASE StopAnswer(c) \/ StopMocked(c)
  <2>1. /\ todo' = [todo EXCEPT ![c] = @ \ {r}] /\ todo[c] # {} /\ TakeId(c, r)
        /\ ~waiting'[c] /\ \A d \in Chain \ {c} : waiting'[d] = waiting[d]
        /\ waiting' \in [Chain -> BOOLEAN] /\ (backend = "mock" => \A d \in Chain : ~waiting'[d])
        /\ UNCHANGED <<env, phase, joining>>
    <3>1. CASE StopAnswer(c)
      BY <3>1 DEF StopAnswer, Flying, Requests, InFlight
    <3>2. CASE StopMocked(c)
      BY <3>2 DEF StopMocked, Flying, Requests
    <3> QED BY <1>3, <3>1, <3>2
  <2>2. Requests'
    BY <2>1 DEF Flying, Requests, env
  <2>3. /\ todo'[c] # {} => phase'[c] \in {"cleaning", "dropping"}
        /\ \A d \in Chain \ {c} : /\ todo'[d] = todo[d] /\ phase'[d] = phase[d]
                                  /\ waiting'[d] = waiting[d] /\ held'[d] = held[d]
    BY <2>1 DEF ChainsTyped, TakeId, Flying, InFlight
  <2>4. \A t \in Thread : /\ joining'[t] = joining[t]
                          /\ joining'[t] = c => phase'[c] = "dropping"
    BY <2>1 DEF Flying, InFlight
  <2>5. ~waiting'[c]
    BY <2>1
  <2> QED BY <2>2, <2>3, <2>4, <2>5, OthersFly
<1>4. CASE StopReturns(c)
  <2>1. /\ todo[c] = {} /\ ~waiting[c]
        /\ UNCHANGED <<env, left, held, todo, waiting, spoiled>>
    BY <1>4 DEF StopReturns, Flying, InFlight
  <2>2. Requests'
    <3>1. joining' \in [Thread -> Chain \cup {"none"}]
      BY <1>4 DEF StopReturns, Flying, Requests
    <3> QED BY <2>1, <3>1 DEF Flying, Requests, env
  <2>3. \A d \in Chain \ {c} : phase'[d] = phase[d]
    BY <1>4 DEF StopReturns, ChainsTyped
  <2>4. \A t \in Thread : /\ joining'[t] \in {joining[t], "none"}
                          /\ joining'[t] = c => phase'[c] = "dropping"
    BY <1>4, TeardownAssumption DEF StopReturns, Flying, InFlight
  <2> QED BY <2>1, <2>2, <2>3, <2>4, OthersFly
<1> QED BY <1>1, <1>2, <1>3, <1>4 DEF Stop

LEMMA FlyingKept == TeardownInv /\ Flying /\ [Next]_vars => Flying'
<1> SUFFICES ASSUME TeardownInv, Flying, [Next]_vars
             PROVE  Flying'
  OBVIOUS
<1> USE DEF TeardownInv
\* A chain of which no removal is under way has no request in flight.
<1>0. ASSUME NEW c \in Chain, phase[c] \in {"none", "up", "gone"}
      PROVE  /\ todo[c] = {} /\ ~waiting[c] /\ \A t \in Thread : joining[t] # c
  BY <1>0 DEF Flying, InFlight
<1>1. ASSUME NEW c \in Chain, Setup(c) \/ SetupFails(c) \/ DropNothing(c) \/ DropWarns(c)
      PROVE  Flying'
  <2>1. /\ phase[c] \in {"none", "up"}
        /\ \E p \in {"up", "gone"} : phase' = [phase EXCEPT ![c] = p]
        /\ UNCHANGED <<env, todo, waiting, joining>>
        /\ held' = held \/ held' = [held EXCEPT ![c] = Handle]
    BY <1>1 DEF Setup, SetupFails, DropNothing, DropWarns
  <2>2. Requests'
    BY <2>1 DEF Flying, Requests, env
  <2>3. todo[c] = {} /\ ~waiting[c] /\ \A t \in Thread : joining[t] # c
    BY <1>0, <2>1
  <2>4. \A d \in Chain \ {c} : phase'[d] = phase[d] /\ held'[d] = held[d]
    BY <2>1 DEF ChainsTyped
  <2> QED BY <2>1, <2>2, <2>3, <2>4, OthersFly
<1>2. ASSUME NEW c \in Chain, Cleanup(c)
      PROVE  Flying'
  <2>1. /\ phase[c] = "up" /\ UNCHANGED <<env, held, waiting, joining>>
        /\ \/ UNCHANGED <<phase, todo>>
           \/ /\ phase' = [phase EXCEPT ![c] = "cleaning"]
              /\ todo' = [todo EXCEPT ![c] = Resource]
    BY <1>2 DEF Cleanup
  <2>2. Requests' /\ todo[c] = {} /\ ~waiting[c] /\ \A t \in Thread : joining[t] # c
    BY <1>0, <2>1 DEF Flying, Requests, env
  <2>3. /\ todo'[c] # {} => phase'[c] \in {"cleaning", "dropping"}
        /\ \A d \in Chain \ {c} : todo'[d] = todo[d] /\ phase'[d] = phase[d]
    BY <2>1, <2>2 DEF ChainsTyped
  <2> QED BY <2>1, <2>2, <2>3, OthersFly
<1>3. ASSUME NEW c \in Chain, CleanupCancelled(c)
      PROVE  Flying'
  <2>1. /\ phase[c] = "cleaning" /\ phase' = [phase EXCEPT ![c] = "up"]
        /\ todo' = [todo EXCEPT ![c] = {}] /\ waiting' = [waiting EXCEPT ![c] = FALSE]
        /\ UNCHANGED <<env, joining>>
        /\ held' = held \/ held' = [held EXCEPT ![c] = @ \ {NextRemoval(c)}]
    BY <1>3 DEF CleanupCancelled, TakeId
  <2>2. Requests' /\ \A t \in Thread : joining[t] # c
    BY <2>1 DEF Flying, Requests, InFlight, env
  <2>3. /\ todo'[c] = {} /\ ~waiting'[c]
        /\ \A d \in Chain \ {c} : /\ todo'[d] = todo[d] /\ phase'[d] = phase[d]
                                  /\ waiting'[d] = waiting[d] /\ held'[d] = held[d]
    BY <2>1 DEF ChainsTyped, Flying, Requests
  <2> QED BY <2>1, <2>2, <2>3, OthersFly
<1>4. ASSUME NEW c \in Chain, Stop(c)
      PROVE  Flying'
  BY <1>4, StopFlies
<1>5. ASSUME NEW c \in Chain, DropStops(c)
      PROVE  Flying'
  <2>1. /\ phase[c] = "up" /\ phase' = [phase EXCEPT ![c] = "dropping"]
        /\ todo' = [todo EXCEPT ![c] = Resource]
        /\ UNCHANGED <<env, held, waiting>>
    BY <1>5 DEF DropStops
  <2>2. PICK t \in Thread : joining' = [joining EXCEPT ![t] = c]
    BY <1>5 DEF DropStops, TaskThread, Thread
  <2>3. Requests' /\ ~waiting[c]
    BY <1>0, <2>1, <2>2 DEF Flying, Requests, env
  <2>4. /\ phase'[c] = "dropping"
        /\ \A d \in Chain \ {c} : todo'[d] = todo[d] /\ phase'[d] = phase[d]
    BY <2>1 DEF ChainsTyped
  <2>5. \A u \in Thread : joining'[u] = joining[u] \/ joining'[u] = c
    BY <2>2 DEF Flying, Requests
  <2> QED BY <2>1, <2>3, <2>4, <2>5, OthersFly
<1>6. CASE UNCHANGED vars
  BY <1>6 DEF vars, env, Flying, Requests, InFlight, Owned, NextRemoval
<1> QED BY <1>1, <1>2, <1>3, <1>4, <1>5, <1>6 DEF Next

LEMMA TeardownTyped == Init /\ [][Next]_vars => []TypeOK
<1>1. Init => TeardownInv /\ Flying
  <2> SUFFICES ASSUME Init
               PROVE  TeardownInv /\ Flying
    OBVIOUS
  <2>1. TeardownInv
    BY HandlesAreResources DEF Init, TeardownInv, ChainsTyped, Phase, Tracked, Reachable
  <2>2. Requests /\ InFlight
    BY TeardownAssumption DEF Init, Requests, InFlight
  <2> QED BY <2>1, <2>2 DEF Flying
<1>2. TeardownInv /\ Flying => TypeOK
  BY DEF TeardownInv, ChainsTyped, Phase, Flying, Requests, InFlight, TypeOK
<1> QED BY <1>1, <1>2, TeardownInductive, FlyingKept, PTL

-----------------------------------------------------------------------------
(* The Drop of a spawned set: SetGoneIsClean of SpawnedSet.                *)

\* What is no longer to be handled is gone, and until it is handled everything
\* is where it was.
Handled ==
  /\ drop = "stopping" => ctx = "blocking"
  /\ drop = "stopping" /\ ~mishap => \A n \in Node \ remaining : box[n] = "none"
  /\ drop \in {"no", "stopping"} => network
  /\ Set!SetGoneIsClean

LEMMA SetTyped == Set!Spec => []Set!TypeOK
<1>1. Set!Init => Set!TypeOK
  BY DEF Set!Init, Set!TypeOK
<1>2. Set!TypeOK /\ [Set!Next]_(Set!vars) => Set!TypeOK'
  <2> SUFFICES ASSUME Set!TypeOK, [Set!Next]_(Set!vars)
               PROVE  Set!TypeOK'
    OBVIOUS
  <2>1. CASE Set!Drop
    BY <2>1 DEF Set!TypeOK, Set!Drop, Set!Context
  <2>2. CASE Set!DropNetwork
    BY <2>2 DEF Set!TypeOK, Set!DropNetwork
  <2>3. ASSUME NEW n \in Node, Set!DropNode(n)
        PROVE  Set!TypeOK'
    BY <2>3 DEF Set!TypeOK, Set!DropNode
  <2>4. ASSUME NEW n \in Node, Set!NodeEnds(n)
        PROVE  Set!TypeOK'
    BY <2>4 DEF Set!TypeOK, Set!NodeEnds
  <2>5. CASE UNCHANGED Set!vars
    BY <2>5 DEF Set!TypeOK, Set!vars
  <2> QED BY <2>1, <2>2, <2>3, <2>4, <2>5 DEF Set!Next
<1> QED BY <1>1, <1>2, PTL DEF Set!Spec

\* A spawned set of at least one node that is dropped where its thread may block
\* leaves no container and no network it knows by name, unless a request failed;
\* dropped in a task it leaves its network (quickspawn/snapshot.rs).
THEOREM SetAlwaysGoneClean == Set!Spec => []SetGoneIsClean
<1>1. Set!Init => Handled
  BY DEF Set!Init, Handled, Set!SetGoneIsClean
<1>2. Set!TypeOK /\ Handled /\ [Set!Next]_(Set!vars) => Handled'
  <2> SUFFICES ASSUME Set!TypeOK, Handled, [Set!Next]_(Set!vars)
               PROVE  Handled'
    OBVIOUS
  <2> USE DEF Set!TypeOK, Handled, Set!SetGoneIsClean
  <2>1. CASE Set!Drop
    BY <2>1 DEF Set!Drop, Set!Context
  <2>2. CASE Set!DropNetwork
    BY <2>2, RuntimesAssumption DEF Set!DropNetwork
  <2>3. ASSUME NEW n \in Node, Set!DropNode(n)
        PROVE  Handled'
    BY <2>3 DEF Set!DropNode
  <2>4. ASSUME NEW n \in Node, Set!NodeEnds(n)
        PROVE  Handled'
    BY <2>4 DEF Set!NodeEnds
  <2>5. CASE UNCHANGED Set!vars
    BY <2>5 DEF Set!vars
  <2> QED BY <2>1, <2>2, <2>3, <2>4, <2>5 DEF Set!Next
<1>3. Handled => SetGoneIsClean
  BY DEF Handled, SetGoneIsClean
<1> QED BY <1>1, <1>2, <1>3, SetTyped, PTL DEF Set!Spec

-----------------------------------------------------------------------------
(* The two backends: FirstDifference of RuntimeBackends.                   *)

Known == Run!MockState \ {"none"}

-----------------------------------------------------------------------------
(* What a call does to one container, in both worlds.                     *)

\* Moves that all lead to one status.
Into(S, b) == {<<s, b>> : s \in S}

LEMMA IntoMoves ==
  ASSUME NEW S, NEW b, NEW a
  PROVE  /\ Run!Accepts(Into(S, b), a) <=> a \in S
         /\ a \in S => Run!After(Into(S, b), a) = b
<1>1. \A p \in Into(S, b) : p[1] \in S /\ p[2] = b
  BY DEF Into
<1>2. a \in S => <<a, b>> \in Into(S, b) /\ <<a, b>>[1] = a
  BY DEF Into
<1>3. Run!Accepts(Into(S, b), a) <=> a \in S
  BY <1>1, <1>2 DEF Run!Accepts
<1>4. ASSUME a \in S
      PROVE  Run!After(Into(S, b), a) = b
  <2>1. \E p \in Into(S, b) : p[1] = a
    BY <1>2, <1>4
  <2>2. (CHOOSE p \in Into(S, b) : p[1] = a) \in Into(S, b)
    BY <2>1
  <2> QED BY <1>1, <1>3, <1>4, <2>2 DEF Run!After
<1> QED BY <1>3, <1>4

LEMMA SameMoves ==
  ASSUME NEW S, NEW a
  PROVE  /\ Run!Accepts(Run!Same(S), a) <=> a \in S
         /\ a \in S => Run!After(Run!Same(S), a) = a
<1>1. \A p \in Run!Same(S) : p[1] \in S /\ p[2] = p[1]
  BY DEF Run!Same
<1>2. a \in S => <<a, a>> \in Run!Same(S) /\ <<a, a>>[1] = a
  BY DEF Run!Same
<1>3. Run!Accepts(Run!Same(S), a) <=> a \in S
  BY <1>1, <1>2 DEF Run!Accepts
<1>4. ASSUME a \in S
      PROVE  Run!After(Run!Same(S), a) = a
  <2>1. \E p \in Run!Same(S) : p[1] = a
    BY <1>2, <1>4
  <2>2. /\ (CHOOSE p \in Run!Same(S) : p[1] = a) \in Run!Same(S)
        /\ (CHOOSE p \in Run!Same(S) : p[1] = a)[1] = a
    BY <2>1
  <2> QED BY <1>1, <1>3, <1>4, <2>2 DEF Run!After
<1> QED BY <1>3, <1>4

\* A stop leaves a created container as it is.
Stops == {<<"created", "created">>, <<"running", "exited">>,
          <<"paused", "exited">>, <<"exited", "exited">>}

LEMMA StopMoves ==
  ASSUME NEW a
  PROVE  /\ Run!Accepts(Stops, a) <=> a \in Run!Present
         /\ a \in Run!Present => Run!After(Stops, a) = IF a = "created" THEN a ELSE "exited"
<1>1. \A p \in Stops : p[1] \in Run!Present /\ p[2] = IF p[1] = "created" THEN p[1] ELSE "exited"
  BY DEF Stops, Run!Present
<1>2. a \in Run!Present => \E p \in Stops : p[1] = a
  <2>1. a \in Run!Present => <<a, IF a = "created" THEN a ELSE "exited">> \in Stops
    BY DEF Stops, Run!Present
  <2>2. <<a, IF a = "created" THEN a ELSE "exited">>[1] = a
    OBVIOUS
  <2> QED BY <2>1, <2>2
<1>3. Run!Accepts(Stops, a) <=> a \in Run!Present
  BY <1>1, <1>2 DEF Run!Accepts
<1>4. ASSUME a \in Run!Present
      PROVE  Run!After(Stops, a) = IF a = "created" THEN a ELSE "exited"
  <2>1. /\ (CHOOSE p \in Stops : p[1] = a) \in Stops
        /\ (CHOOSE p \in Stops : p[1] = a)[1] = a
    BY <1>2, <1>4
  <2> QED BY <1>1, <1>3, <1>4, <2>1 DEF Run!After
<1> QED BY <1>3, <1>4

\* What the comparison needs of an operation: where both accept, the statuses
\* go on matching, and one refuses alone only if it is meant to.
Fits(op) ==
  \A s, m : Run!Matches(s, m) =>
    /\ Run!Accepts(Run!DockerAllows(op), s) /\ Run!Accepts(Run!MockMoves(op), m)
         => Run!Matches(Run!After(Run!DockerAllows(op), s), Run!After(Run!MockMoves(op), m))
    /\ Run!Accepts(Run!MockMoves(op), m) /\ ~Run!Accepts(Run!DockerAllows(op), s) => op \in Run!Lenient
    /\ Run!Accepts(Run!DockerAllows(op), s) /\ ~Run!Accepts(Run!MockMoves(op), m) => op = "copy"

LEMMA StartFits == Fits("start")
<1>1. Run!DockerAllows("start") = {<<"created", "running">>, <<"running", "running">>,
                               <<"exited", "running">>}
  BY Zenon DEF Run!DockerAllows, Run!DockerMoves
<1>2. Run!DockerAllows("start") = Into({"created", "running", "exited"}, "running")
  BY <1>1 DEF Into
<1>3. Run!MockMoves("start") = Into(Known, "Running")
  BY Zenon DEF Run!MockMoves, Known, Into
<1> QED BY <1>2, <1>3, IntoMoves DEF Fits, Run!Matches, Known, Run!MockState, Run!Lenient

LEMMA StopFits == Fits("stop")
<1>1. Run!DockerAllows("stop") = Stops
  BY Zenon DEF Run!DockerAllows, Run!DockerMoves, Stops
<1>2. Run!MockMoves("stop") = Into(Known, "Stopped")
  BY Zenon DEF Run!MockMoves, Known, Into
<1> QED BY <1>1, <1>2, IntoMoves, StopMoves DEF Fits, Run!Matches, Known, Run!MockState, Run!Present

LEMMA PauseFits == Fits("pause")
<1>1. Run!DockerAllows("pause") = {<<"running", "paused">>}
  BY Zenon DEF Run!DockerAllows, Run!DockerMoves
<1>2. Run!DockerAllows("pause") = Into({"running"}, "paused")
  BY <1>1 DEF Into
<1>3. Run!MockMoves("pause") = Into(Known, "Paused")
  BY Zenon DEF Run!MockMoves, Known, Into
<1> QED BY <1>2, <1>3, IntoMoves DEF Fits, Run!Matches, Known, Run!MockState, Run!Lenient

LEMMA UnpauseFits == Fits("unpause")
<1>1. Run!DockerAllows("unpause") = {<<"paused", "running">>}
  BY Zenon DEF Run!DockerAllows, Run!DockerMoves
<1>2. Run!DockerAllows("unpause") = Into({"paused"}, "running")
  BY <1>1 DEF Into
<1>3. Run!MockMoves("unpause") = Into(Known, "Running")
  BY Zenon DEF Run!MockMoves, Known, Into
<1> QED BY <1>2, <1>3, IntoMoves DEF Fits, Run!Matches, Known, Run!MockState, Run!Lenient

LEMMA RemoveFits == Fits("remove")
<1>1. Run!DockerAllows("remove") = Into(Run!Present, "none")
  BY Zenon DEF Run!DockerAllows, Run!DockerMoves, Into
<1>2. Run!MockMoves("remove") = Into(Known, "none")
  BY Zenon DEF Run!MockMoves, Known, Into
<1> QED BY <1>1, <1>2, IntoMoves DEF Fits, Run!Matches, Known, Run!MockState, Run!Present

LEMMA ExecFits == ASSUME NEW op \in {"exec", "background"} PROVE Fits(op)
<1>1. Run!DockerAllows(op) = {<<"running", "running">>}
  <2>1. CASE op = "exec"
    BY <2>1, Zenon DEF Run!DockerAllows, Run!DockerMoves
  <2>2. CASE op = "background"
    BY <2>2, Zenon DEF Run!DockerAllows, Run!DockerMoves
  <2> QED BY <2>1, <2>2
<1>2. Run!DockerAllows(op) = Run!Same({"running"})
  BY <1>1 DEF Run!Same
<1>3. Run!MockMoves(op) = Run!Same(Known)
  <2>1. CASE op = "exec"
    BY <2>1, Zenon DEF Run!MockMoves, Known
  <2>2. CASE op = "background"
    BY <2>2, Zenon DEF Run!MockMoves, Known
  <2> QED BY <2>1, <2>2
<1>4. op \in Run!Lenient
  BY DEF Run!Lenient
<1>5. ASSUME NEW s, NEW m, Run!Matches(s, m)
      PROVE  /\ Run!Accepts(Run!Same({"running"}), s) => s = "running" /\ Run!After(Run!Same({"running"}), s) = s
             /\ Run!Accepts(Run!Same(Known), m) <=> m \in Known
             /\ Run!Accepts(Run!Same(Known), m) => Run!After(Run!Same(Known), m) = m
  BY SameMoves
<1>6. ASSUME NEW s, NEW m, Run!Matches(s, m), s = "running"
      PROVE  m \in Known
  BY <1>6 DEF Run!Matches, Known, Run!MockState
<1> QED BY <1>2, <1>3, <1>4, <1>5, <1>6 DEF Fits

LEMMA LogsFits == Fits("logs")
<1>1. Run!DockerAllows("logs") = Run!Same(Run!Present)
  BY Zenon DEF Run!DockerAllows, Run!DockerReads
<1>2. Run!MockMoves("logs") = Run!Same(Known)
  BY Zenon DEF Run!MockMoves, Known
<1> QED BY <1>1, <1>2, SameMoves DEF Fits, Run!Matches, Known, Run!MockState, Run!Present

LEMMA PortFits == Fits("port")
<1>1. Run!DockerAllows("port") = Run!Same(Run!Present)
  BY Zenon DEF Run!DockerAllows, Run!DockerReads
<1>2. Run!MockMoves("port") = Run!Same(Run!MockState)
  BY Zenon DEF Run!MockMoves
<1> QED BY <1>1, <1>2, SameMoves DEF Fits, Run!Matches, Run!MockState, Run!Present, Run!Lenient

LEMMA WaitFits == Fits("wait")
<1>1. Run!DockerAllows("wait") = Run!Same({"created", "exited"})
  BY Zenon DEF Run!DockerAllows, Run!DockerReads
<1>2. Run!MockMoves("wait") = Run!Same(Run!MockState)
  BY Zenon DEF Run!MockMoves
<1> QED BY <1>1, <1>2, SameMoves DEF Fits, Run!Matches, Run!MockState, Run!Lenient

LEMMA CopyFits == Fits("copy")
<1>1. Run!MockMoves("copy") = {}
  BY Zenon DEF Run!MockMoves
<1> QED BY <1>1 DEF Fits, Run!Accepts

LEMMA AllFit == \A op \in Run!Moving : Fits(op)
  BY StartFits, StopFits, PauseFits, UnpauseFits, RemoveFits, ExecFits, LogsFits, PortFits,
     WaitFits, CopyFits DEF Run!Moving

-----------------------------------------------------------------------------
(* The invariant.                                                         *)

\* A little more than Box, which an update of one field stays in.
Shape == [name : Name \cup {"none"}, st : Run!Present \cup {"none"}, net : {0} \cup Run!Net]

WorldsTyped ==
  /\ made \in 0 .. MaxHandles /\ nets \in 0 .. MaxNets
  /\ dock \in [Run!Handle -> Shape] /\ mock \in [Run!Handle -> Run!MockState]
  /\ dnet \in [Run!Net -> BOOLEAN] /\ mnet \in [Run!Net -> BOOLEAN]

\* The two halves of SameWorld.
Boxes    == \A h \in Run!Handle : Run!Matches(dock[h].st, mock[h])
NetworksMatch == \A k \in Run!Net : dnet[k] => mnet[k]

World == WorldsTyped /\ Boxes /\ NetworksMatch

RunInv == (agree => World) /\ Run!FirstDifference

LEMMA TruthOf ==
  ASSUME NEW b \in BOOLEAN
  PROVE  /\ Run!Truth(b) = "ok" <=> b
         /\ Run!Truth(b) = "err" <=> ~b
         /\ Run!Truth(b) \in {"ok", "err"}
  BY DEF Run!Truth

LEMMA Initially == MaxHandles \in Nat /\ MaxNets \in Nat /\ Run!Init => RunInv
<1> SUFFICES ASSUME MaxHandles \in Nat, MaxNets \in Nat, Run!Init
             PROVE  RunInv
  OBVIOUS
<1>1. WorldsTyped
  <2>1. Run!NoBox \in Shape /\ "none" \in Run!MockState
    BY DEF Run!NoBox, Shape, Run!MockState
  <2>2. dnet \in [Run!Net -> BOOLEAN] /\ mnet \in [Run!Net -> BOOLEAN]
    BY Zenon DEF Run!Init
  <2>3. made \in 0 .. MaxHandles /\ nets \in 0 .. MaxNets
    BY DEF Run!Init
  <2> QED BY <2>1, <2>2, <2>3 DEF Run!Init, WorldsTyped
<1>2. Boxes
  BY DEF Run!Init, Boxes, Run!Matches, Run!NoBox
<1>3. NetworksMatch
  BY DEF Run!Init, NetworksMatch
<1>4. Run!FirstDifference
  BY DEF Run!Init, Run!FirstDifference
<1> QED BY <1>1, <1>2, <1>3, <1>4 DEF RunInv, World

\* A call happens while the worlds agree, and its answers decide what follows.
LEMMA CallStep ==
  ASSUME RunInv, NEW op, NEW d, NEW m, Run!Answers(op, d, m),
         d = m => World',
         d # m => \/ m = "ok" /\ op \in Run!Lenient
                  \/ m = "err" /\ d = "ok" /\ op \in Run!Stricter
  PROVE  RunInv'
<1>1. last'.op = op /\ last'.d = d /\ last'.m = m /\ agree' = (d = m)
  BY DEF Run!Answers
<1>2. Run!FirstDifference'
  BY <1>1 DEF Run!FirstDifference
<1> QED BY <1>1, <1>2 DEF RunInv

LEMMA CreateStep ==
  ASSUME RunInv, MaxHandles \in Nat, MaxNets \in Nat,
         NEW n \in Name, NEW k \in 0 .. nets, Run!CreateContainer(n, k)
  PROVE  RunInv'
<1> DEFINE free == \A h \in Run!Handle : dock[h].name # n
           fresh  == [name |-> n, st |-> "created", net |-> k]
<1>1. /\ Run!Answers("create", Run!Truth(free), "ok") /\ World
      /\ Run!Truth(free) = "ok" <=> free
  BY TruthOf DEF Run!CreateContainer, Run!Answers, RunInv
<1>2. made + 1 \in Run!Handle /\ made' \in 0 .. MaxHandles
  BY <1>1 DEF World, WorldsTyped, Run!CreateContainer, Run!Handle
<1>3. /\ free => dock' = [dock EXCEPT ![made + 1] = fresh]
      /\ mock' = [mock EXCEPT ![made + 1] = "Created"]
      /\ UNCHANGED <<nets, dnet, mnet>>
  BY DEF Run!CreateContainer
<1>4. k \in {0} \cup Run!Net
  BY <1>1 DEF World, WorldsTyped, Run!Net
<1>5. fresh \in Shape /\ fresh.st = "created"
  BY <1>4 DEF Shape, Run!Present
<1> HIDE DEF free, fresh
<1>6. ASSUME free
      PROVE  World'
  <2>1. dock' \in [Run!Handle -> Shape] /\ mock' \in [Run!Handle -> Run!MockState]
    BY <1>1, <1>2, <1>3, <1>5, <1>6 DEF World, WorldsTyped, Run!MockState
  <2>2. Boxes'
    <3> SUFFICES ASSUME NEW h \in Run!Handle
                 PROVE  Run!Matches(dock'[h].st, mock'[h])
      BY DEF Boxes
    <3>1. CASE h = made + 1
      BY <1>1, <1>2, <1>3, <1>5, <1>6, <3>1 DEF World, WorldsTyped, Run!Matches
    <3>2. CASE h # made + 1
      BY <1>1, <1>2, <1>3, <1>6, <3>2 DEF World, WorldsTyped, Boxes
    <3> QED BY <3>1, <3>2
  <2>3. NetworksMatch' /\ WorldsTyped'
    BY <1>1, <1>2, <1>3, <2>1 DEF World, WorldsTyped, NetworksMatch
  <2> QED BY <2>2, <2>3 DEF World
<1> QED BY <1>1, <1>6, CallStep DEF Run!Lenient

LEMMA ContainerStep ==
  ASSUME RunInv, MaxHandles \in Nat,
         NEW op \in Run!Moving, NEW h \in 1 .. made, Run!ContainerCall(op, h)
  PROVE  RunInv'
<1> DEFINE st  == dock[h].st
           ok  == Run!Accepts(Run!DockerAllows(op), st) /\ Run!Reachable(op, h)
           got == Run!Accepts(Run!MockMoves(op), mock[h])
           d   == IF op = "wait" /\ st \in {"running", "paused"} THEN "blocks" ELSE Run!Truth(ok)
           to  == Run!After(Run!DockerAllows(op), st)
           on  == Run!After(Run!MockMoves(op), mock[h])
<1>1. Run!Answers(op, d, Run!Truth(got)) /\ World
  BY DEF Run!ContainerCall, Run!Answers, RunInv
<1>2. h \in Run!Handle /\ Run!Matches(st, mock[h]) /\ mock[h] \in Run!MockState /\ dock[h] \in Shape
  BY <1>1 DEF World, WorldsTyped, Boxes, Run!Handle
<1>3. /\ dock' = IF ~ok THEN dock
                  ELSE [dock EXCEPT ![h] = IF to = "none" THEN Run!NoBox ELSE [@ EXCEPT !.st = to]]
      /\ mock' = [mock EXCEPT ![h] = on]
      /\ UNCHANGED <<made, nets, dnet, mnet>>
  BY DEF Run!ContainerCall
<1>4. /\ Run!Truth(ok) = "ok" <=> ok
      /\ Run!Truth(got) = "ok" <=> got
      /\ Run!Truth(ok) \in {"ok", "err"} /\ Run!Truth(got) \in {"ok", "err"}
  BY TruthOf DEF Run!Accepts, Run!Truth
<1>5. /\ Run!Accepts(Run!DockerAllows(op), st) /\ got => Run!Matches(to, on)
      /\ got /\ ~Run!Accepts(Run!DockerAllows(op), st) => op \in Run!Lenient
      /\ Run!Accepts(Run!DockerAllows(op), st) /\ ~got => op = "copy"
  BY <1>2, AllFit DEF Fits
<1>6. ~got => on = mock[h]
  BY DEF Run!After
<1>7. Run!Accepts(Run!DockerAllows(op), st) /\ ~ok => op = "start"
  BY DEF Run!Reachable
<1>8. ASSUME d = Run!Truth(got)
      PROVE  World'
  <2>1. ok <=> got
    BY <1>4, <1>8
  <2>2. got => Run!Matches(to, on) /\ to \in Run!Present \cup {"none"} /\ on \in Run!MockState
    BY <1>5, <2>1 DEF Run!Matches, Run!Present, Run!MockState
  <2> HIDE DEF st, ok, got, d, to, on
  <2>3. CASE got
    <3>1. [dock[h] EXCEPT !.st = to] \in Shape /\ Run!NoBox \in Shape
      BY <1>2, <2>2, <2>3 DEF Shape, Run!NoBox
    <3>2. dock' \in [Run!Handle -> Shape] /\ mock' \in [Run!Handle -> Run!MockState]
      BY <1>1, <1>2, <1>3, <2>1, <2>2, <2>3, <3>1 DEF World, WorldsTyped, Shape
    <3>3. dock'[h].st = to /\ mock'[h] = on
      BY <1>1, <1>2, <1>3, <2>1, <2>3 DEF World, WorldsTyped, Run!NoBox, Shape
    <3>4. \A x \in Run!Handle \ {h} : dock'[x] = dock[x] /\ mock'[x] = mock[x]
      BY <1>1, <1>2, <1>3, <2>1, <2>3 DEF World, WorldsTyped
    <3>5. Boxes'
      BY <1>1, <2>2, <2>3, <3>3, <3>4 DEF World, Boxes
    <3> QED BY <1>1, <1>3, <3>2, <3>5 DEF World, WorldsTyped, NetworksMatch
  <2>4. CASE ~got
    <3>1. dock' = dock /\ mock' = mock
      BY <1>1, <1>2, <1>3, <1>6, <2>1, <2>4 DEF World, WorldsTyped
    <3> QED BY <1>1, <1>3, <3>1 DEF World, WorldsTyped, Boxes, NetworksMatch
  <2> QED BY <2>3, <2>4
<1>9. ASSUME d # Run!Truth(got)
      PROVE  \/ Run!Truth(got) = "ok" /\ op \in Run!Lenient
             \/ Run!Truth(got) = "err" /\ d = "ok" /\ op \in Run!Stricter
  <2>1. CASE op = "wait"
    <3>1. got
      BY <1>2, <2>1, SameMoves, Zenon DEF Run!MockMoves
    <3> QED BY <1>4, <2>1, <3>1 DEF Run!Lenient
  <2>2. CASE op # "wait" /\ got
    BY <1>4, <1>5, <1>7, <1>9, <2>2 DEF Run!Lenient
  <2>3. CASE op # "wait" /\ ~got
    BY <1>4, <1>5, <1>9, <2>3 DEF Run!Stricter
  <2> QED BY <2>1, <2>2, <2>3
<1> HIDE DEF d, got
<1> QED BY <1>1, <1>8, <1>9, CallStep

LEMMA RemoveByNameStep ==
  ASSUME RunInv, NEW n \in Name, Run!RemoveByName(n)
  PROVE  RunInv'
<1> DEFINE found == \E h \in Run!Handle : dock[h].name = n
<1>1. Run!Answers("remove by name", Run!Truth(found), "err") /\ World
  BY DEF Run!RemoveByName, Run!Answers, RunInv
<1>2. (Run!Truth(found) = "err" <=> ~found) /\ Run!Truth(found) \in {"ok", "err"}
  BY TruthOf
<1>3. /\ dock' = [h \in Run!Handle |-> IF dock[h].name = n THEN Run!NoBox ELSE dock[h]]
      /\ UNCHANGED <<made, mock, nets, dnet, mnet>>
  BY DEF Run!RemoveByName
<1>4. ~found => dock' = dock
  BY <1>1, <1>3 DEF World, WorldsTyped
<1> HIDE DEF found
<1>5. ~found => World'
  BY <1>1, <1>3, <1>4 DEF World, WorldsTyped, Boxes, NetworksMatch
<1>6. "remove by name" \in Run!Stricter
  BY DEF Run!Stricter
<1> QED BY <1>1, <1>2, <1>5, <1>6, CallStep

LEMMA RemoveVolumeStep ==
  ASSUME RunInv, NEW n \in Name, Run!RemoveVolume(n)
  PROVE  RunInv'
<1> DEFINE ok == n \in volumes /\ \A h \in Run!Handle : dock[h].name # n
<1>1. Run!Answers("volume", Run!Truth(ok), "ok") /\ World
  BY DEF Run!RemoveVolume, Run!Answers, RunInv
<1>2. World'
  BY <1>1 DEF Run!RemoveVolume, World, WorldsTyped, Boxes, NetworksMatch
<1>3. "volume" \in Run!Lenient
  BY DEF Run!Lenient
<1> QED BY <1>1, <1>2, <1>3, CallStep

LEMMA CreateNetworkStep ==
  ASSUME RunInv, MaxNets \in Nat, NEW ok \in BOOLEAN, Run!CreateNetwork(ok)
  PROVE  RunInv'
<1>1. Run!Answers("network", Run!Truth(ok), "ok") /\ World
  BY DEF Run!CreateNetwork, Run!Answers, RunInv
<1>2. nets + 1 \in Run!Net /\ nets' \in 0 .. MaxNets
  BY <1>1 DEF Run!CreateNetwork, World, WorldsTyped, Run!Net
<1>3. dnet' = [dnet EXCEPT ![nets + 1] = ok] /\ mnet' = [mnet EXCEPT ![nets + 1] = TRUE]
  BY DEF Run!CreateNetwork
<1>4. dnet' \in [Run!Net -> BOOLEAN] /\ mnet' \in [Run!Net -> BOOLEAN]
  BY <1>1, <1>2, <1>3 DEF World, WorldsTyped
<1>5. NetworksMatch'
  BY <1>1, <1>2, <1>3 DEF World, WorldsTyped, NetworksMatch
<1>6. World'
  BY <1>1, <1>2, <1>4, <1>5 DEF Run!CreateNetwork, World, WorldsTyped, Boxes
<1>7. "network" \in Run!Lenient
  BY DEF Run!Lenient
<1> QED BY <1>1, <1>6, <1>7, CallStep

LEMMA RemoveNetworkStep ==
  ASSUME RunInv, MaxNets \in Nat, NEW k \in 1 .. nets, Run!RemoveNetwork(k)
  PROVE  RunInv'
<1> DEFINE ok == dnet[k] /\ \A h \in Run!Handle :
                   dock[h].net = k => dock[h].st \notin {"running", "paused"}
<1>1. Run!Answers("remove network", Run!Truth(ok), Run!Truth(mnet[k])) /\ World
  BY DEF Run!RemoveNetwork, Run!Answers, RunInv
<1>2. k \in Run!Net
  <2>1. nets \in 0 .. MaxNets
    BY <1>1 DEF World, WorldsTyped
  <2> QED BY <2>1 DEF Run!Net
<1>3. dnet' = [dnet EXCEPT ![k] = @ /\ ~ok] /\ mnet' = [mnet EXCEPT ![k] = FALSE]
  BY DEF Run!RemoveNetwork
<1>4. /\ Run!Truth(ok) = "ok" <=> ok
      /\ Run!Truth(mnet[k]) = "ok" <=> mnet[k]
      /\ Run!Truth(ok) \in {"ok", "err"} /\ Run!Truth(mnet[k]) \in {"ok", "err"}
  BY DEF Run!Truth
<1>5. ok => dnet[k]
  OBVIOUS
<1>6. dnet[k] => mnet[k]
  BY <1>1, <1>2 DEF World, NetworksMatch
<1>7. ok \in BOOLEAN
  BY <1>1, <1>2 DEF World, WorldsTyped
<1> HIDE DEF ok
<1>8. dnet' \in [Run!Net -> BOOLEAN]
  BY <1>1, <1>2, <1>3, <1>7, Zenon DEF World, WorldsTyped
<1>9. mnet' \in [Run!Net -> BOOLEAN]
  BY <1>1, <1>2, <1>3, Zenon DEF World, WorldsTyped
<1>10. ASSUME ok <=> mnet[k]
       PROVE  World'
  <2>1. ~dnet'[k]
    BY <1>1, <1>2, <1>3, <1>6, <1>10, Zenon DEF World, WorldsTyped
  <2>2. \A j \in Run!Net \ {k} : dnet'[j] = dnet[j] /\ mnet'[j] = mnet[j]
    BY <1>1, <1>3 DEF World, WorldsTyped
  <2>3. NetworksMatch'
    BY <1>1, <2>1, <2>2 DEF World, NetworksMatch
  <2> QED BY <1>1, <1>8, <1>9, <2>3 DEF Run!RemoveNetwork, World, WorldsTyped, Boxes
<1>11. "remove network" \in Run!Lenient
  BY DEF Run!Lenient
<1> QED BY <1>1, <1>4, <1>5, <1>6, <1>10, <1>11, CallStep

LEMMA RemoveByPrefixStep ==
  ASSUME RunInv, NEW gone \in SUBSET (1 .. nets), Run!RemoveByPrefix(gone)
  PROVE  RunInv'
<1>1. Run!Answers("remove prefix", "ok", "ok") /\ World
  BY DEF Run!RemoveByPrefix, Run!Answers, RunInv
<1>2. dnet' = [k \in Run!Net |-> dnet[k] /\ k \notin gone] /\ UNCHANGED <<made, mock, nets, mnet>>
  BY DEF Run!RemoveByPrefix
<1>3. dnet' \in [Run!Net -> BOOLEAN]
  BY <1>2, Zenon
<1>4. NetworksMatch'
  BY <1>1, <1>2 DEF World, NetworksMatch
<1>5. dock' \in [Run!Handle -> Shape] /\ \A h \in Run!Handle : dock'[h].st = dock[h].st
  <2>1. \A h \in Run!Handle : /\ [dock[h] EXCEPT !.net = 0] \in Shape
                              /\ [dock[h] EXCEPT !.net = 0].st = dock[h].st
    BY <1>1 DEF World, WorldsTyped, Shape
  <2> QED BY <1>1, <2>1 DEF Run!RemoveByPrefix, World, WorldsTyped
<1>6. World'
  BY <1>1, <1>2, <1>3, <1>4, <1>5 DEF World, WorldsTyped, Boxes
<1> QED BY <1>1, <1>6, CallStep

LEMMA ExitStep ==
  ASSUME RunInv, MaxHandles \in Nat, NEW h \in 1 .. made, Run!ContainerExits(h)
  PROVE  RunInv'
<1>1. /\ agree /\ World /\ dock[h].st = "running"
      /\ dock' = [dock EXCEPT ![h].st = "exited"]
      /\ UNCHANGED <<made, mock, nets, dnet, mnet, last, agree>>
  BY DEF Run!ContainerExits, RunInv
<1>2. h \in Run!Handle
  <2>1. made \in 0 .. MaxHandles
    BY <1>1 DEF World, WorldsTyped
  <2> QED BY <2>1 DEF Run!Handle
<1>3. [dock[h] EXCEPT !.st = "exited"] \in Shape
  BY <1>1, <1>2 DEF World, WorldsTyped, Shape, Run!Present
<1>4. dock' \in [Run!Handle -> Shape] /\ dock'[h].st = "exited"
  BY <1>1, <1>2, <1>3 DEF World, WorldsTyped, Shape
<1>5. \A x \in Run!Handle \ {h} : dock'[x] = dock[x]
  BY <1>1, <1>2 DEF World, WorldsTyped
<1>6. mock[h] = "Running"
  BY <1>1, <1>2 DEF World, Boxes, Run!Matches
<1>7. Boxes'
  BY <1>1, <1>4, <1>5, <1>6 DEF World, Boxes, Run!Matches
<1> QED BY <1>1, <1>4, <1>7 DEF RunInv, World, WorldsTyped, NetworksMatch, Run!FirstDifference

-----------------------------------------------------------------------------

LEMMA RunInductive == MaxHandles \in Nat /\ MaxNets \in Nat /\ RunInv /\ [Run!Next]_(Run!vars) => RunInv'
<1> SUFFICES ASSUME MaxHandles \in Nat, MaxNets \in Nat, RunInv, [Run!Next]_(Run!vars)
             PROVE  RunInv'
  OBVIOUS
<1>1. CASE \E n \in Name, k \in 0 .. nets : Run!CreateContainer(n, k)
  BY <1>1, CreateStep
<1>2. CASE \E op \in Run!Moving, h \in 1 .. made : Run!ContainerCall(op, h)
  BY <1>2, ContainerStep
<1>3. CASE \E n \in Name : Run!RemoveByName(n)
  BY <1>3, RemoveByNameStep
<1>4. CASE \E n \in Name : Run!RemoveVolume(n)
  BY <1>4, RemoveVolumeStep
<1>5. CASE \E ok \in BOOLEAN : Run!CreateNetwork(ok)
  BY <1>5, CreateNetworkStep
<1>6. CASE \E k \in 1 .. nets : Run!RemoveNetwork(k)
  BY <1>6, RemoveNetworkStep
<1>7. CASE \E gone \in SUBSET (1 .. nets) : Run!RemoveByPrefix(gone)
  BY <1>7, RemoveByPrefixStep
<1>8. CASE \E h \in 1 .. made : Run!ContainerExits(h)
  BY <1>8, ExitStep
<1>9. CASE UNCHANGED Run!vars
  BY <1>9 DEF Run!vars, RunInv, World, WorldsTyped, Boxes, NetworksMatch, Run!FirstDifference
<1> QED BY <1>1, <1>2, <1>3, <1>4, <1>5, <1>6, <1>7, <1>8, <1>9 DEF Run!Next

\* A test that runs against the mock and one that runs against Docker part, if
\* they do, at a call where runtime/mock.rs is known to be more lenient than
\* runtime/docker.rs, or to lack it; for any number of containers and networks.
THEOREM PartAtKnownCalls == Run!Spec => []FirstDifference
<1>1. Run!Init => RunInv
  BY Initially, RuntimesAssumption
<1>2. RunInv /\ [Run!Next]_(Run!vars) => RunInv'
  BY RunInductive, RuntimesAssumption
<1>3. RunInv => FirstDifference
  BY DEF RunInv, FirstDifference
<1> QED BY <1>1, <1>2, <1>3, PTL DEF Run!Spec

-----------------------------------------------------------------------------
(* TypeOK of RuntimeBackends.                                              *)

\* Where the moves of an operation lead.
LEMMA MovesInRange ==
  ASSUME NEW op \in Run!Moving
  PROVE  /\ \A p \in Run!DockerAllows(op) : p[1] \in Run!Present /\ p[2] \in Run!Present \cup {"none"}
         /\ \A p \in Run!MockMoves(op) : p[2] \in Run!MockState
<1>1. \A S : \A p \in Run!Same(S) : p[1] \in S /\ p[2] = p[1]
  BY DEF Run!Same
<1>2. CASE op = "start"
  BY <1>2 DEF Run!DockerAllows, Run!DockerMoves, Run!MockMoves, Run!Present, Run!MockState
<1>3. CASE op = "stop"
  BY <1>3 DEF Run!DockerAllows, Run!DockerMoves, Run!MockMoves, Run!Present, Run!MockState
<1>4. CASE op = "pause"
  BY <1>4 DEF Run!DockerAllows, Run!DockerMoves, Run!MockMoves, Run!Present, Run!MockState
<1>5. CASE op = "unpause"
  BY <1>5 DEF Run!DockerAllows, Run!DockerMoves, Run!MockMoves, Run!Present, Run!MockState
<1>6. CASE op = "remove"
  BY <1>6 DEF Run!DockerAllows, Run!DockerMoves, Run!MockMoves, Run!Present, Run!MockState
<1>7. CASE op \in {"exec", "background"}
  <2>1. Run!DockerAllows(op) = {<<"running", "running">>}
    <3>1. op = "exec" \/ op = "background"
      BY <1>7
    <3> QED BY <3>1, Zenon DEF Run!DockerAllows, Run!DockerMoves
  <2>2. Run!MockMoves(op) = Run!Same(Run!MockState \ {"none"})
    <3>1. op = "exec" \/ op = "background"
      BY <1>7
    <3> QED BY <3>1, Zenon DEF Run!MockMoves
  <2> QED BY <1>1, <2>1, <2>2 DEF Run!Present
<1>8. CASE op = "logs"
  <2>1. Run!DockerAllows(op) = Run!Same(Run!Present)
    BY <1>8, Zenon DEF Run!DockerAllows, Run!DockerReads
  <2>2. Run!MockMoves(op) = Run!Same(Run!MockState \ {"none"})
    BY <1>8, Zenon DEF Run!MockMoves
  <2> QED BY <1>1, <2>1, <2>2
<1>9. CASE op = "port"
  <2>1. Run!DockerAllows(op) = Run!Same(Run!Present)
    BY <1>9, Zenon DEF Run!DockerAllows, Run!DockerReads
  <2>2. Run!MockMoves(op) = Run!Same(Run!MockState)
    BY <1>9, Zenon DEF Run!MockMoves
  <2> QED BY <1>1, <2>1, <2>2
<1>10. CASE op = "wait"
  <2>1. Run!DockerAllows(op) = Run!Same({"created", "exited"})
    BY <1>10, Zenon DEF Run!DockerAllows, Run!DockerReads
  <2>2. Run!MockMoves(op) = Run!Same(Run!MockState)
    BY <1>10, Zenon DEF Run!MockMoves
  <2> QED BY <1>1, <2>1, <2>2 DEF Run!Present
<1>11. CASE op = "copy"
  <2>1. Run!DockerAllows(op) = Run!Same(Run!Present)
    BY <1>11, Zenon DEF Run!DockerAllows, Run!DockerReads
  <2>2. Run!MockMoves(op) = {}
    BY <1>11, Zenon DEF Run!MockMoves
  <2> QED BY <1>1, <2>1, <2>2
<1> QED BY <1>2, <1>3, <1>4, <1>5, <1>6, <1>7, <1>8, <1>9, <1>10, <1>11 DEF Run!Moving

LEMMA AfterIsAMove ==
  ASSUME NEW moves, NEW st, Run!Accepts(moves, st)
  PROVE  \E p \in moves : p[1] = st /\ Run!After(moves, st) = p[2]
<1>1. PICK p \in moves : p[1] = st
  BY DEF Run!Accepts
<1>2. /\ (CHOOSE q \in moves : q[1] = st) \in moves
      /\ (CHOOSE q \in moves : q[1] = st)[1] = st
  BY <1>1
<1> QED BY <1>2 DEF Run!After

LEMMA AnswersTyped ==
  ASSUME NEW op \in Run!Op, NEW d \in Run!Answer, NEW m \in Run!Answer, Run!Answers(op, d, m)
  PROVE  last' \in [op : Run!Op, d : Run!Answer, m : Run!Answer] /\ agree' \in BOOLEAN
  BY DEF Run!Answers

LEMMA TruthIsAnswer == ASSUME NEW b PROVE Run!Truth(b) \in Run!Answer
  BY DEF Run!Truth, Run!Answer

LEMMA BackendsTyped == Run!Spec => []Run!TypeOK
<1> USE RuntimesAssumption
<1>1. Run!Init => Run!TypeOK
  <2> SUFFICES ASSUME Run!Init
               PROVE  Run!TypeOK
    OBVIOUS
  <2>1. dnet \in [Run!Net -> BOOLEAN] /\ mnet \in [Run!Net -> BOOLEAN]
    BY Zenon DEF Run!Init
  <2>2. last \in [op : Run!Op, d : Run!Answer, m : Run!Answer]
    BY DEF Run!Init, Run!Op, Run!Answer
  <2>3. dock \in [Run!Handle -> Run!Box] /\ mock \in [Run!Handle -> Run!MockState]
    BY DEF Run!Init, Run!Box, Run!MockState
  <2>4. made \in 0 .. MaxHandles /\ nets \in 0 .. MaxNets /\ volumes \in SUBSET Name /\ agree \in BOOLEAN
    BY DEF Run!Init
  <2> QED BY <2>1, <2>2, <2>3, <2>4 DEF Run!TypeOK
<1>2. Run!TypeOK /\ [Run!Next]_(Run!vars) => Run!TypeOK'
  <2> SUFFICES ASSUME Run!TypeOK, [Run!Next]_(Run!vars)
               PROVE  Run!TypeOK'
    OBVIOUS
  <2> USE DEF Run!TypeOK
  <2>1. ASSUME NEW n \in Name, NEW k \in 0 .. nets, Run!CreateContainer(n, k)
        PROVE  Run!TypeOK'
    <3> DEFINE free == \A h \in Run!Handle : dock[h].name # n
    <3>1. Run!Answers("create", Run!Truth(free), "ok")
      BY <2>1 DEF Run!CreateContainer
    <3>2. last' \in [op : Run!Op, d : Run!Answer, m : Run!Answer] /\ agree' \in BOOLEAN
      <4>1. "create" \in Run!Op /\ "ok" \in Run!Answer /\ Run!Truth(free) \in Run!Answer
        BY TruthIsAnswer DEF Run!Op, Run!Answer
      <4> HIDE DEF free
      <4> QED BY <3>1, <4>1, AnswersTyped
    <3>3. made + 1 \in Run!Handle /\ made' \in 0 .. MaxHandles
      BY <2>1 DEF Run!CreateContainer, Run!Handle
    <3>4. k \in {0} \cup Run!Net
      BY DEF Run!Net
    <3>5. [name |-> n, st |-> "created", net |-> k] \in Run!Box
      BY <3>4 DEF Run!Box, Run!Present
    <3>6. dock' \in [Run!Handle -> Run!Box] /\ mock' \in [Run!Handle -> Run!MockState]
      BY <2>1, <3>3, <3>5 DEF Run!CreateContainer, Run!MockState
    <3>7. volumes' \in SUBSET Name
      BY <2>1 DEF Run!CreateContainer
    <3> QED BY <2>1, <3>2, <3>3, <3>6, <3>7 DEF Run!CreateContainer
  <2>2. ASSUME NEW op \in Run!Moving, NEW h \in 1 .. made, Run!ContainerCall(op, h)
        PROVE  Run!TypeOK'
    <3> DEFINE st == dock[h].st
               ok == Run!Accepts(Run!DockerAllows(op), st) /\ Run!Reachable(op, h)
               d  == IF op = "wait" /\ st \in {"running", "paused"} THEN "blocks" ELSE Run!Truth(ok)
               m  == Run!Truth(Run!Accepts(Run!MockMoves(op), mock[h]))
               to == Run!After(Run!DockerAllows(op), st)
               on == Run!After(Run!MockMoves(op), mock[h])
    <3>1. h \in Run!Handle
      BY DEF Run!Handle
    <3>2. Run!Answers(op, d, m) /\ d \in Run!Answer /\ m \in Run!Answer /\ op \in Run!Op
      BY <2>2, TruthIsAnswer DEF Run!ContainerCall, Run!Answer, Run!Op
    <3>3. last' \in [op : Run!Op, d : Run!Answer, m : Run!Answer] /\ agree' \in BOOLEAN
      BY <3>2, AnswersTyped
    <3>4. on \in Run!MockState
      BY <3>1, MovesInRange, AfterIsAMove DEF Run!After
    <3>5. ok => st \in Run!Present /\ to \in Run!Present \cup {"none"}
      BY MovesInRange, AfterIsAMove
    <3>6. ok => dock[h] \in [name : Name, st : Run!Present, net : {0} \cup Run!Net]
      BY <3>1, <3>5 DEF Run!Box, Run!NoBox, Run!Present
    <3>7. /\ dock' = IF ~ok THEN dock
                     ELSE [dock EXCEPT ![h] = IF to = "none" THEN Run!NoBox ELSE [@ EXCEPT !.st = to]]
          /\ mock' = [mock EXCEPT ![h] = on]
          /\ UNCHANGED <<made, volumes, nets, dnet, mnet>>
      BY <2>2 DEF Run!ContainerCall
    <3> HIDE DEF st, ok, to, on
    <3>8. ok => (IF to = "none" THEN Run!NoBox ELSE [dock[h] EXCEPT !.st = to]) \in Run!Box
      BY <3>5, <3>6 DEF Run!Box
    <3>9. dock' \in [Run!Handle -> Run!Box] /\ mock' \in [Run!Handle -> Run!MockState]
      BY <3>1, <3>4, <3>7, <3>8
    <3> QED BY <3>3, <3>7, <3>9
  <2>3. ASSUME NEW n \in Name, Run!RemoveByName(n)
        PROVE  Run!TypeOK'
    <3>1. last' \in [op : Run!Op, d : Run!Answer, m : Run!Answer] /\ agree' \in BOOLEAN
      <4>1. PICK d : Run!Answers("remove by name", Run!Truth(d), "err")
        BY <2>3 DEF Run!RemoveByName
      <4>2. "remove by name" \in Run!Op /\ "err" \in Run!Answer
        BY DEF Run!Op, Run!Answer
      <4> QED BY <4>1, <4>2, TruthIsAnswer, AnswersTyped
    <3>2. dock' \in [Run!Handle -> Run!Box]
      BY <2>3 DEF Run!RemoveByName, Run!Box
    <3> QED BY <2>3, <3>1, <3>2 DEF Run!RemoveByName
  <2>4. ASSUME NEW n \in Name, Run!RemoveVolume(n)
        PROVE  Run!TypeOK'
    <3>1. last' \in [op : Run!Op, d : Run!Answer, m : Run!Answer] /\ agree' \in BOOLEAN
      <4>1. PICK d : Run!Answers("volume", Run!Truth(d), "ok")
        BY <2>4 DEF Run!RemoveVolume
      <4>2. "volume" \in Run!Op /\ "ok" \in Run!Answer
        BY DEF Run!Op, Run!Answer
      <4> QED BY <4>1, <4>2, TruthIsAnswer, AnswersTyped
    <3> QED BY <2>4, <3>1 DEF Run!RemoveVolume
  <2>5. ASSUME NEW ok \in BOOLEAN, Run!CreateNetwork(ok)
        PROVE  Run!TypeOK'
    <3>1. last' \in [op : Run!Op, d : Run!Answer, m : Run!Answer] /\ agree' \in BOOLEAN
      <4>1. PICK d : Run!Answers("network", Run!Truth(d), "ok")
        BY <2>5 DEF Run!CreateNetwork
      <4>2. "network" \in Run!Op /\ "ok" \in Run!Answer
        BY DEF Run!Op, Run!Answer
      <4> QED BY <4>1, <4>2, TruthIsAnswer, AnswersTyped
    <3>2. nets' \in 0 .. MaxNets
      BY <2>5 DEF Run!CreateNetwork
    <3>3. dnet' \in [Run!Net -> BOOLEAN] /\ mnet' \in [Run!Net -> BOOLEAN]
      BY <2>5 DEF Run!CreateNetwork
    <3> QED BY <2>5, <3>1, <3>2, <3>3 DEF Run!CreateNetwork
  <2>6. ASSUME NEW k \in 1 .. nets, Run!RemoveNetwork(k)
        PROVE  Run!TypeOK'
    <3>1. last' \in [op : Run!Op, d : Run!Answer, m : Run!Answer] /\ agree' \in BOOLEAN
      <4>1. PICK d, m : Run!Answers("remove network", Run!Truth(d), Run!Truth(m))
        BY <2>6 DEF Run!RemoveNetwork
      <4> QED BY <4>1, TruthIsAnswer, AnswersTyped DEF Run!Op
    <3>2. dnet' \in [Run!Net -> BOOLEAN] /\ mnet' \in [Run!Net -> BOOLEAN]
      <4>1. k \in Run!Net
        BY DEF Run!Net
      <4> QED BY <2>6, <4>1, Zenon DEF Run!RemoveNetwork
    <3> QED BY <2>6, <3>1, <3>2 DEF Run!RemoveNetwork
  <2>7. ASSUME NEW gone \in SUBSET (1 .. nets), Run!RemoveByPrefix(gone)
        PROVE  Run!TypeOK'
    <3>1. last' \in [op : Run!Op, d : Run!Answer, m : Run!Answer] /\ agree' \in BOOLEAN
      BY <2>7, AnswersTyped DEF Run!RemoveByPrefix, Run!Op, Run!Answer
    <3>2. dnet' \in [Run!Net -> BOOLEAN]
      BY <2>7, Zenon DEF Run!RemoveByPrefix
    <3>3. \A h \in Run!Handle : dock[h].st \in {"running", "paused"} => [dock[h] EXCEPT !.net = 0] \in Run!Box
      BY DEF Run!Box, Run!NoBox
    <3>4. dock' \in [Run!Handle -> Run!Box]
      BY <2>7, <3>3 DEF Run!RemoveByPrefix
    <3> QED BY <2>7, <3>1, <3>2, <3>4 DEF Run!RemoveByPrefix
  <2>8. ASSUME NEW h \in 1 .. made, Run!ContainerExits(h)
        PROVE  Run!TypeOK'
    <3>1. h \in Run!Handle
      BY DEF Run!Handle
    <3>2. [dock[h] EXCEPT !.st = "exited"] \in Run!Box
      BY <2>8, <3>1 DEF Run!ContainerExits, Run!Box, Run!NoBox, Run!Present
    <3> QED BY <2>8, <3>1, <3>2 DEF Run!ContainerExits
  <2>9. CASE UNCHANGED Run!vars
    BY <2>9 DEF Run!vars
  <2> QED BY <2>1, <2>2, <2>3, <2>4, <2>5, <2>6, <2>7, <2>8, <2>9 DEF Run!Next
<1> QED BY <1>1, <1>2, PTL DEF Run!Spec

-----------------------------------------------------------------------------
(* The creation of networks: GivesUpAfterFour of NetworkCreation.          *)

LEMMA Remainder ==
  ASSUME NEW w \in Nat, w > 0, NEW q \in Nat, NEW r \in 0 .. w - 1, NEW x \in Nat,
         x = (w * q) + r
  PROVE  x % w = r
  OBVIOUS

\* The sum of k attempts wraps around once more or not than the sum of none.
LEMMA SumWraps ==
  ASSUME NEW x \in Nat, NEW d \in 0 .. 111
  PROVE  (x + d) % Width \in {(x % Width) + d, ((x % Width) + d) - Width}
<1> USE RuntimesAssumption
<1>1. x = (Width * (x \div Width)) + (x % Width) /\ x \div Width \in Nat
  BY Z3
<1>2. PICK q \in Nat : x = (Width * q) + (x % Width)
  BY <1>1
<1>3. x % Width \in 0 .. Width - 1
  OBVIOUS
<1>4. CASE (x % Width) + d < Width
  <2>1. x + d = (Width * q) + ((x % Width) + d)
    BY <1>2, <1>3
  <2> QED BY <1>3, <1>4, <2>1, Remainder
<1>5. CASE (x % Width) + d >= Width
  <2>1. x + d = (Width * (q + 1)) + (((x % Width) + d) - Width)
    BY <1>2, <1>3
  <2>2. q + 1 \in Nat /\ ((x % Width) + d) - Width \in 0 .. Width - 1
    BY <1>3, <1>5
  <2>3. x + d \in Nat /\ Width > 0
    OBVIOUS
  <2>4. (x + d) % Width = ((x % Width) + d) - Width
    <3> DEFINE r == ((x % Width) + d) - Width
               y == x + d
    <3>1. y = (Width * (q + 1)) + r /\ r \in 0 .. Width - 1 /\ y \in Nat
      BY <2>1, <2>2, <2>3
    <3> HIDE DEF r, y
    <3>2. y % Width = r
      BY <2>2, <2>3, <3>1, Remainder
    <3> QED BY <3>2 DEF r, y
  <2> QED BY <2>4
<1> QED BY <1>3, <1>4, <1>5

LEMMA OctetInRange ==
  ASSUME NEW h \in Nat, NEW p \in Nat, NEW k \in Nat
  PROVE  Net!FirstOctet(h) \in Net!Octet /\ Net!NextOctet(h, p, k) \in Net!Octet
  BY RuntimesAssumption DEF Net!FirstOctet, Net!NextOctet, Net!Octet

\* Whether the sum wraps or not, the four next octets differ: 37, 74 and 111
\* are no multiples of 240, and neither are they with the 16 of a wrap less.
LEMMA FourDiffer ==
  ASSUME NEW h \in Nat, NEW p \in Nat, NEW i \in 0 .. 3, NEW j \in 0 .. 3, i < j
  PROVE  Net!NextOctet(h, p, i) # Net!NextOctet(h, p, j)
<1> DEFINE x == p + (i * 37) + h
           d == (j - i) * 37
<1>1. x \in Nat /\ d \in {37, 74, 111} /\ d \in 0 .. 111 /\ p + (j * 37) + h = x + d
  OBVIOUS
<1>2. (x + d) % Width \in {(x % Width) + d, ((x % Width) + d) - Width}
  BY <1>1, SumWraps
<1>3. x % Width \in Nat /\ (x + d) % Width \in Nat
  BY <1>1, RuntimesAssumption
<1> HIDE DEF x, d
<1>4. ASSUME NEW a \in Nat, NEW b \in Nat, NEW m \in Nat,
             \E e \in {37, 74, 111} : b = a + e \/ b = (a + e) - ((240 * m) + 16)
      PROVE  a % 240 # b % 240
  BY <1>4
<1>5. PICK m \in Nat : Width = (240 * m) + 16
  BY RuntimesAssumption
<1>6. (x % Width) % 240 # ((x + d) % Width) % 240
  BY <1>1, <1>2, <1>3, <1>4, <1>5
<1>7. ((x % Width) % 240) \in Nat /\ (((x + d) % Width) % 240) \in Nat
  BY <1>3
<1> QED BY <1>1, <1>6, <1>7 DEF Net!NextOctet, x
-----------------------------------------------------------------------------
(* The k-th octet of a call, and which of them the daemon has refused.     *)

KthOctet(c, k) ==
  IF k = 0 THEN Net!FirstOctet(hash[name[c]]) ELSE Net!NextOctet(hash[name[c]], pid, k - 1)

\* TypeOK but for the ids, which go up to the number of callers.
NetTyped ==
  /\ hash \in [Name -> Hash] /\ pid \in Pid /\ name \in [Caller -> Name]
  /\ wraps \in BOOLEAN
  /\ pc \in [Caller -> {"inspect", "create", "done"}]
  /\ attempt \in [Caller -> 0 .. 4] /\ octet \in [Caller -> Net!Octet \cup {Net!Free}]
  /\ ret \in [Caller -> {"none", "ok", "overlaps", "failed", "panic"}]
  /\ refused \in [Caller -> SUBSET Net!Octet]

\* What was refused to a call are the octets of its attempts so far.
InTurn ==
  \A c \in Caller :
    /\ pc[c] = "inspect" => attempt[c] = 0
    /\ pc[c] = "create" => octet[c] = KthOctet(c, attempt[c])
    /\ \A k \in 0 .. 3 : k < attempt[c] => KthOctet(c, k) \in refused[c]
    /\ ret[c] = "overlaps" => \A k \in 0 .. 4 : KthOctet(c, k) \in refused[c]

NetInv == NetTyped /\ InTurn

LEMMA KthInRange == ASSUME NetTyped, NEW c \in Caller, NEW k \in 0 .. 4
                    PROVE  KthOctet(c, k) \in Net!Octet
<1>1. hash[name[c]] \in Nat /\ pid \in Nat
  BY RuntimesAssumption DEF NetTyped
<1>2. k # 0 => k - 1 \in Nat
  OBVIOUS
<1> QED BY <1>1, <1>2, OctetInRange DEF KthOctet

\* Cardinality as the instance knows it.
LEMMA SameCount == ASSUME NEW S PROVE Net!Cardinality(S) = Cardinality(S)
  BY DEF Net!Cardinality, Cardinality

LEMMA NetInductive == NetInv /\ [Net!Next]_(Net!vars) => NetInv'
<1> SUFFICES ASSUME NetInv, [Net!Next]_(Net!vars)
             PROVE  NetInv'
  OBVIOUS
<1>1. ASSUME NEW c \in Caller, Net!Inspect(c)
      PROVE  NetInv'
  <2>1. KthOctet(c, 0) \in Net!Octet
    BY KthInRange DEF NetInv
  <2>2. NetTyped'
    BY <1>1, <2>1 DEF NetInv, NetTyped, Net!Inspect, Net!Got, Net!Done, Net!env, KthOctet
  <2>3. InTurn'
    BY <1>1 DEF NetInv, NetTyped, InTurn, Net!Inspect, Net!Got, Net!Done, Net!env, KthOctet
  <2> QED BY <2>2, <2>3 DEF NetInv
<1>2. ASSUME NEW c \in Caller, Net!Created(c) \/ Net!CreateFails(c)
      PROVE  NetInv'
  <2>1. /\ \E r \in {"ok", "failed"} : Net!Done(c, r)
        /\ UNCHANGED <<Net!env, name, attempt, octet, refused>>
    BY <1>2 DEF Net!Created, Net!CreateFails, Net!Got
  <2> QED BY <2>1 DEF NetInv, NetTyped, InTurn, Net!Done, Net!env, KthOctet
<1>3. ASSUME NEW c \in Caller, Net!Overlaps(c)
      PROVE  NetInv'
  <2>1. /\ pc[c] = "create" /\ octet[c] = KthOctet(c, attempt[c]) /\ attempt[c] \in 0 .. 4
        /\ refused' = [refused EXCEPT ![c] = @ \cup {octet[c]}]
        /\ UNCHANGED <<Net!env, name>>
    BY <1>3 DEF Net!Overlaps, NetInv, InTurn, NetTyped
  <2>2. octet[c] \in Net!Octet /\ refused' \in [Caller -> SUBSET Net!Octet]
    BY <2>1, KthInRange DEF NetInv, NetTyped
  <2>3. CASE \E r \in {"overlaps", "panic"} :
               Net!Done(c, r) /\ UNCHANGED <<attempt, octet>> /\ (r = "overlaps" => attempt[c] = 4)
    <3>1. NetTyped'
      BY <2>1, <2>2, <2>3 DEF NetInv, NetTyped, Net!Done, Net!env
    <3>2. InTurn'
      BY <2>1, <2>3 DEF NetInv, NetTyped, InTurn, Net!Done, Net!env, KthOctet
    <3> QED BY <3>1, <3>2 DEF NetInv
  <2>4. CASE /\ attempt[c] # 4 /\ attempt' = [attempt EXCEPT ![c] = @ + 1]
             /\ octet' = [octet EXCEPT ![c] = KthOctet(c, attempt[c] + 1)]
             /\ UNCHANGED <<pc, ret>>
    <3>1. attempt[c] + 1 \in 0 .. 4 /\ KthOctet(c, attempt[c] + 1) \in Net!Octet
      BY <2>1, <2>4, KthInRange DEF NetInv
    <3>2. NetTyped'
      BY <2>1, <2>2, <2>4, <3>1 DEF NetInv, NetTyped, Net!env
    <3>3. \A b \in Caller, k \in 0 .. 4 : KthOctet(b, k)' = KthOctet(b, k)
      BY <2>1 DEF KthOctet, Net!env
    <3>4. InTurn'
      BY <2>1, <2>4, <3>1, <3>3 DEF NetInv, NetTyped, InTurn, Net!env
    <3> QED BY <3>2, <3>4 DEF NetInv
  <2>5. attempt[c] + 1 # 0 /\ (attempt[c] + 1) - 1 = attempt[c]
    BY <2>1
  <2> QED BY <1>3, <2>3, <2>4, <2>5 DEF Net!Overlaps, KthOctet
<1>4. CASE UNCHANGED Net!vars
  BY <1>4 DEF Net!vars, Net!env, NetInv, NetTyped, InTurn, KthOctet
<1> QED BY <1>1, <1>2, <1>3, <1>4 DEF Net!Next

LEMMA NetInvariant == Net!Spec => []NetInv
<1>1. Net!Init => NetInv
  BY DEF Net!Init, NetInv, NetTyped, InTurn
<1> QED BY <1>1, NetInductive, PTL DEF Net!Spec

LEMMA FourOfThem ==
  ASSUME NEW S, IsFiniteSet(S), NEW a \in S, NEW b \in S, NEW c \in S, NEW d \in S,
         a # b, a # c, a # d, b # c, b # d, c # d
  PROVE  Cardinality(S) >= 4
<1>1. IsFiniteSet({a}) /\ Cardinality({a}) = 1
  BY FS_Singleton
<1>2. IsFiniteSet({a, b}) /\ Cardinality({a, b}) = 2
  <2> DEFINE T == {a}
  <2>1. {a, b} = T \cup {b} /\ b \notin T /\ IsFiniteSet(T) /\ Cardinality(T) = 1
    BY <1>1
  <2> HIDE DEF T
  <2>2. IsFiniteSet(T \cup {b}) /\ Cardinality(T \cup {b}) = 1 + 1
    BY <2>1, FS_AddElement
  <2> QED BY <2>1, <2>2
<1>3. IsFiniteSet({a, b, c}) /\ Cardinality({a, b, c}) = 3
  <2> DEFINE T == {a, b}
  <2>1. {a, b, c} = T \cup {c} /\ c \notin T /\ IsFiniteSet(T) /\ Cardinality(T) = 2
    BY <1>2
  <2> HIDE DEF T
  <2>2. IsFiniteSet(T \cup {c}) /\ Cardinality(T \cup {c}) = 2 + 1
    BY <2>1, FS_AddElement
  <2> QED BY <2>1, <2>2
<1>4. IsFiniteSet({a, b, c, d}) /\ Cardinality({a, b, c, d}) = 4
  <2> DEFINE T == {a, b, c}
  <2>1. {a, b, c, d} = T \cup {d} /\ d \notin T /\ IsFiniteSet(T) /\ Cardinality(T) = 3
    BY <1>3
  <2> HIDE DEF T
  <2>2. IsFiniteSet(T \cup {d}) /\ Cardinality(T \cup {d}) = 3 + 1
    BY <2>1, FS_AddElement
  <2> QED BY <2>1, <2>2
<1>5. {a, b, c, d} \in SUBSET S
  OBVIOUS
<1>6. Cardinality({a, b, c, d}) <= Cardinality(S) /\ Cardinality(S) \in Nat
  BY <1>5, FS_Subset, FS_CardinalityType
<1> QED BY <1>4, <1>6

\* create_network reports that its subnets overlap only after the daemon has
\* refused four different ones, for every hash and process id and with any width
\* that leaves 16 by 240, as 2^64 does, whether the sum wraps or not
\* (runtime/docker.rs).
THEOREM AlwaysTriesFour == Net!Spec => []GivesUpAfterFour
<1>1. NetInv => GivesUpAfterFour
  <2> SUFFICES ASSUME NetInv, NEW c \in Caller, ret[c] = "overlaps"
               PROVE  Cardinality(refused[c]) >= 4
    BY SameCount DEF GivesUpAfterFour, Net!GivesUpAfterFour
  <2> DEFINE o(k) == Net!NextOctet(hash[name[c]], pid, k)
  <2>1. hash[name[c]] \in Nat /\ pid \in Nat
    BY RuntimesAssumption DEF NetInv, NetTyped
  <2>2. \A k \in 0 .. 3 : o(k) \in refused[c]
    <3> SUFFICES ASSUME NEW k \in 0 .. 3
                 PROVE  o(k) \in refused[c]
      OBVIOUS
    <3>1. k + 1 \in 0 .. 4 /\ k + 1 # 0 /\ (k + 1) - 1 = k
      OBVIOUS
    <3>2. KthOctet(c, k + 1) \in refused[c]
      BY <3>1 DEF NetInv, InTurn
    <3> QED BY <3>1, <3>2 DEF KthOctet
  <2>3. \A i, j \in 0 .. 3 : i < j => o(i) # o(j)
    BY <2>1, FourDiffer
  <2>4. IsFiniteSet(refused[c])
    <3>1. refused[c] \in SUBSET Net!Octet
      BY DEF NetInv, NetTyped
    <3>2. IsFiniteSet(Net!Octet)
      <4>1. 10 \in Int /\ 249 \in Int
        OBVIOUS
      <4>2. IsFiniteSet(10 .. 249)
        BY <4>1, FS_Interval
      <4> QED BY <4>2 DEF Net!Octet
    <3> QED BY <3>1, <3>2, FS_Subset
  <2> HIDE DEF o
  <2>5. /\ o(0) # o(1) /\ o(0) # o(2) /\ o(0) # o(3)
        /\ o(1) # o(2) /\ o(1) # o(3) /\ o(2) # o(3)
    BY <2>3
  <2>6. /\ o(0) \in refused[c] /\ o(1) \in refused[c]
        /\ o(2) \in refused[c] /\ o(3) \in refused[c]
    BY <2>2
  <2> QED BY <2>4, <2>5, <2>6, FourOfThem
<1> QED BY <1>1, NetInvariant, PTL

LEMMA NetTypes == Net!Spec => []Net!TypeOK
<1> DEFINE finished == {c \in Caller : pc[c] = "done"}
           Counted  == /\ IsFiniteSet(networks) /\ Cardinality(networks) <= Cardinality(finished)
                       /\ networks \subseteq [id : 1 .. Cardinality(Caller), name : Name, octet : Net!Octet]
                       /\ id \in [Caller -> 0 .. Cardinality(Caller)]
<1>1. /\ Cardinality(Caller) \in Nat
      /\ \A S \in SUBSET Caller : /\ IsFiniteSet(S) /\ Cardinality(S) \in Nat
                                  /\ Cardinality(S) <= Cardinality(Caller)
  BY RuntimesAssumption, FS_CardinalityType, FS_Subset
<1>2. Net!Init => Counted
  <2> SUFFICES ASSUME Net!Init
               PROVE  Counted
    OBVIOUS
  <2>1. Cardinality(finished) >= 0
    BY <1>1
  <2> QED BY <1>1, <2>1, FS_EmptySet DEF Net!Init
<1>3. NetInv /\ Counted /\ [Net!Next]_(Net!vars) => Counted'
  <2> SUFFICES ASSUME NetInv, Counted, [Net!Next]_(Net!vars)
               PROVE  Counted'
    OBVIOUS
  <2>1. ASSUME NEW c \in Caller, Net!Done(c, "ok") \/ Net!Done(c, "failed"), pc[c] # "done"
        PROVE  Cardinality(finished') = Cardinality(finished) + 1
    <3>1. finished' = finished \cup {c} /\ c \notin finished
      BY <2>1 DEF Net!Done, NetInv, NetTyped
    <3> HIDE DEF finished
    <3> QED BY <3>1, <1>1, FS_AddElement DEF finished
  <2>2. ASSUME NEW c \in Caller, Net!Created(c)
        PROVE  Counted'
    <3> DEFINE new == Cardinality(networks) + 1
               n   == [id |-> new, name |-> name[c], octet |-> octet[c]]
    <3>1. Cardinality(finished') = Cardinality(finished) + 1
      BY <2>1, <2>2 DEF Net!Created, Net!Got
    <3>2. /\ Cardinality(networks) \in Nat /\ Cardinality(finished) \in Nat
          /\ Cardinality(finished') \in Nat /\ Cardinality(finished') <= Cardinality(Caller)
      BY <1>1, FS_CardinalityType
    <3>3. new \in 1 .. Cardinality(Caller)
      BY <3>1, <3>2, <1>1
    <3>4. octet[c] \in Net!Octet
      <4>1. attempt[c] \in 0 .. 4 /\ octet[c] = KthOctet(c, attempt[c])
        BY <2>2 DEF Net!Created, NetInv, NetTyped, InTurn
      <4> QED BY <4>1, KthInRange DEF NetInv
    <3>5. n \in [id : 1 .. Cardinality(Caller), name : Name, octet : Net!Octet]
      BY <3>3, <3>4 DEF NetInv, NetTyped
    <3>6. networks' = networks \cup {n} /\ id' = [id EXCEPT ![c] = new]
      BY <2>2, SameCount DEF Net!Created, Net!Got
    <3>7. IsFiniteSet(networks') /\ Cardinality(networks') <= new
      <4> HIDE DEF n
      <4>1. IsFiniteSet(networks)
        OBVIOUS
      <4>2. /\ IsFiniteSet(networks \cup {n})
            /\ \/ Cardinality(networks \cup {n}) = Cardinality(networks)
               \/ Cardinality(networks \cup {n}) = Cardinality(networks) + 1
        <5>1. CASE n \in networks
          <6>1. networks \cup {n} = networks
            BY <5>1
          <6> QED BY <4>1, <6>1
        <5>2. CASE n \notin networks
          BY <4>1, <5>2, FS_AddElement
        <5> QED BY <5>1, <5>2
      <4> QED BY <3>2, <3>6, <4>2
    <3>8. id' \in [Caller -> 0 .. Cardinality(Caller)]
      BY <3>3, <3>6, <1>1
    <3>9. Cardinality(networks') \in Nat
      BY <3>7, FS_CardinalityType
    <3> QED BY <3>1, <3>2, <3>5, <3>6, <3>7, <3>8, <3>9
  <2>3. ASSUME NEW c \in Caller, Net!Inspect(c) \/ Net!Overlaps(c) \/ Net!CreateFails(c)
        PROVE  Counted'
    <3>1. UNCHANGED networks
      BY <2>3 DEF Net!Inspect, Net!Overlaps, Net!CreateFails
    <3>2. finished \subseteq finished'
      BY <2>3 DEF Net!Inspect, Net!Overlaps, Net!CreateFails, Net!Got, Net!Done, NetInv, NetTyped
    <3>3. Cardinality(finished) <= Cardinality(finished')
      BY <1>1, <3>2, FS_Subset
    <3>4. id' \in [Caller -> 0 .. Cardinality(Caller)]
      BY <2>3, <1>1 DEF Net!Inspect, Net!Overlaps, Net!CreateFails, Net!Got
    <3>5. Cardinality(networks) \in Nat /\ Cardinality(finished) \in Nat /\ Cardinality(finished') \in Nat
      BY <1>1, FS_CardinalityType
    <3> QED BY <3>1, <3>3, <3>4, <3>5
  <2>4. CASE UNCHANGED Net!vars
    BY <2>4 DEF Net!vars
  <2> QED BY <2>2, <2>3, <2>4 DEF Net!Next
<1>4. NetInv /\ Counted => Net!TypeOK
  BY SameCount DEF NetInv, NetTyped, Net!TypeOK
<1> QED BY <1>2, <1>3, <1>4, NetInvariant, PTL DEF Net!Spec

-----------------------------------------------------------------------------
(* The four together.                                                      *)

LEMMA RunStarts == MCInit => Init /\ Set!Init /\ Run!Init /\ Net!Init
  BY DEF MCInit

LEMMA RunSteps ==
  [MCNext]_mcvars => /\ [Next]_vars /\ [Set!Next]_(Set!vars)
                     /\ [Run!Next]_(Run!vars) /\ [Net!Next]_(Net!vars)
<1> SUFFICES ASSUME [MCNext]_mcvars
             PROVE  /\ [Next]_vars /\ [Set!Next]_(Set!vars)
                    /\ [Run!Next]_(Run!vars) /\ [Net!Next]_(Net!vars)
  OBVIOUS
<1> USE DEF setVars, runVars, netVars, Set!vars, Run!vars, Net!vars, Net!env
<1>1. CASE Next /\ UNCHANGED <<setVars, runVars, netVars>>
  BY <1>1
<1>2. CASE Set!Next /\ UNCHANGED <<vars, runVars, netVars>>
  BY <1>2
<1>3. CASE Run!Next /\ UNCHANGED <<vars, setVars, netVars>>
  BY <1>3
<1>4. CASE Net!Next /\ UNCHANGED <<vars, setVars, runVars>>
  BY <1>4
<1>5. CASE UNCHANGED mcvars
  BY <1>5 DEF mcvars
<1> QED BY <1>1, <1>2, <1>3, <1>4, <1>5 DEF MCNext

\* What is checked of the four together is true of each alone: all that is in
\* the state of the run is well typed, for every value of the constants
\* (testing/mod.rs, quickspawn/snapshot.rs, runtime/mod.rs).
THEOREM RunTyped == MCSpec => []TypesOK
<1>1. MCSpec => Init /\ [][Next]_vars
  BY RunStarts, RunSteps, PTL DEF MCSpec
<1>2. MCSpec => Set!Spec /\ Run!Spec /\ Net!Spec
  BY RunStarts, RunSteps, PTL DEF MCSpec, Set!Spec, Run!Spec, Net!Spec
<1>3. Init /\ [][Next]_vars => []TypeOK
  BY TeardownTyped
<1>4. Set!Spec /\ Run!Spec /\ Net!Spec => []Set!TypeOK /\ []Run!TypeOK /\ []Net!TypeOK
  BY SetTyped, BackendsTyped, NetTypes
<1> QED BY <1>1, <1>2, <1>3, <1>4, PTL DEF TypesOK
=============================================================================
