--------------------------- MODULE ProgramsProofs ---------------------------
(* The builder that brings chains and relayers up and down, and programs   *)
(* that use the library (MCPrograms), for every value of the constants and *)
(* every catalogue of programs of the shapes that are assumed.             *)
EXTENDS MCPrograms, SequenceTheorems, TLAPS

-----------------------------------------------------------------------------
(* Plans.                                                                  *)

\* What a call may still have to do: an end of its plan.
Rests(o) == {SubSeq(Plan(o), k, Len(Plan(o))) : k \in 1 .. Len(Plan(o))}

Follows == {<<"init", "start">>, <<"start", "config">>, <<"config", "link">>,
            <<"link", "run">>, <<"stop.relayer", "stop.chain">>}

LEMMA PlansAre ==
  ASSUME NEW o \in Op
  PROVE  /\ Plan(o) \in Seq(Phase) /\ Len(Plan(o)) \in 1 .. 5
         /\ Plan(o)[1] = (CASE o = "close" -> "stop.relayer"
                            [] o = "start_relayers" -> "run"
                            [] o \in {"configure", "configure_only"} -> "config"
                            [] OTHER -> "init")
         /\ \A k \in 1 .. Len(Plan(o)) :
              (Plan(o)[k] \in {"stop.relayer", "stop.chain"}) <=> (o = "close")
         /\ \A k \in 1 .. Len(Plan(o)) : k < Len(Plan(o)) => <<Plan(o)[k], Plan(o)[k + 1]>> \in Follows
         /\ o = "build" => Plan(o)[Len(Plan(o))] = "run"
         /\ o = "close" => Plan(o)[Len(Plan(o))] = "stop.chain"
<1>1. CASE o = "build"
  <2>1. Plan(o) = <<"init", "start", "config", "link", "run">>
    BY <1>1 DEF Plan
  <2>2. Plan(o) \in Seq(Phase) /\ Len(Plan(o)) = 5
    BY <2>1 DEF Phase
  <2>3. Plan(o)[1] = "init" /\ Plan(o)[2] = "start" /\ Plan(o)[3] = "config" /\ Plan(o)[4] = "link" /\ Plan(o)[5] = "run"
    BY <2>1
  <2>4. \A k \in 1 .. Len(Plan(o)) : k = 1 \/ k = 2 \/ k = 3 \/ k = 4 \/ k = 5
    BY <2>2
  <2> QED
    BY <1>1, <2>2, <2>3, <2>4 DEF Follows
<1>2. CASE o \in {"build_skip", "start_chains"}
  <2>1. Plan(o) = <<"init", "start">>
    BY <1>2 DEF Plan
  <2>2. Plan(o) \in Seq(Phase) /\ Len(Plan(o)) = 2
    BY <2>1 DEF Phase
  <2>3. Plan(o)[1] = "init" /\ Plan(o)[2] = "start"
    BY <2>1
  <2>4. \A k \in 1 .. Len(Plan(o)) : k = 1 \/ k = 2
    BY <2>2
  <2> QED
    BY <1>2, <2>2, <2>3, <2>4 DEF Follows
<1>3. CASE o = "configure"
  <2>1. Plan(o) = <<"config", "link", "run">>
    BY <1>3 DEF Plan
  <2>2. Plan(o) \in Seq(Phase) /\ Len(Plan(o)) = 3
    BY <2>1 DEF Phase
  <2>3. Plan(o)[1] = "config" /\ Plan(o)[2] = "link" /\ Plan(o)[3] = "run"
    BY <2>1
  <2>4. \A k \in 1 .. Len(Plan(o)) : k = 1 \/ k = 2 \/ k = 3
    BY <2>2
  <2> QED
    BY <1>3, <2>2, <2>3, <2>4 DEF Follows
<1>4. CASE o = "configure_only"
  <2>1. Plan(o) = <<"config", "link">>
    BY <1>4 DEF Plan
  <2>2. Plan(o) \in Seq(Phase) /\ Len(Plan(o)) = 2
    BY <2>1 DEF Phase
  <2>3. Plan(o)[1] = "config" /\ Plan(o)[2] = "link"
    BY <2>1
  <2>4. \A k \in 1 .. Len(Plan(o)) : k = 1 \/ k = 2
    BY <2>2
  <2> QED
    BY <1>4, <2>2, <2>3, <2>4 DEF Follows
<1>5. CASE o = "start_relayers"
  <2>1. Plan(o) = <<"run">>
    BY <1>5 DEF Plan
  <2>2. Plan(o) \in Seq(Phase) /\ Len(Plan(o)) = 1
    BY <2>1 DEF Phase
  <2>3. Plan(o)[1] = "run"
    BY <2>1
  <2>4. \A k \in 1 .. Len(Plan(o)) : k = 1
    BY <2>2
  <2> QED
    BY <1>5, <2>2, <2>3, <2>4 DEF Follows
<1>6. CASE o = "close"
  <2>1. Plan(o) = <<"stop.relayer", "stop.chain">>
    BY <1>6 DEF Plan
  <2>2. Plan(o) \in Seq(Phase) /\ Len(Plan(o)) = 2
    BY <2>1 DEF Phase
  <2>3. Plan(o)[1] = "stop.relayer" /\ Plan(o)[2] = "stop.chain"
    BY <2>1
  <2>4. \A k \in 1 .. Len(Plan(o)) : k = 1 \/ k = 2
    BY <2>2
  <2> QED
    BY <1>6, <2>2, <2>3, <2>4 DEF Follows
<1> QED
  BY <1>1, <1>2, <1>3, <1>4, <1>5, <1>6 DEF Op

\* A call begins with its plan.
LEMMA PlanBegins ==
  ASSUME NEW o \in Op
  PROVE  /\ Plan(o) \in Rests(o) /\ Plan(o) # <<>>
         /\ Head(Plan(o)) = (CASE o = "close" -> "stop.relayer"
                               [] o = "start_relayers" -> "run"
                               [] o \in {"configure", "configure_only"} -> "config"
                               [] OTHER -> "init")
<1>1. Plan(o) = SubSeq(Plan(o), 1, Len(Plan(o))) /\ 1 \in 1 .. Len(Plan(o))
  BY PlansAre, SubSeqFull
<1>2. Plan(o) # <<>> /\ Head(Plan(o)) = Plan(o)[1]
  BY PlansAre
<1> QED
  BY <1>1, <1>2, PlansAre DEF Rests

\* What remains of a plan, and what remains a phase later.
LEMMA RestsGoOn ==
  ASSUME NEW o \in Op, NEW s \in Rests(o)
  PROVE  /\ s # <<>> /\ Len(s) \in Nat \ {0} /\ Head(s) \in Phase
         /\ Head(s) \in {"stop.relayer", "stop.chain"} <=> o = "close"
         /\ Len(s) = 1 => /\ o = "build" => Head(s) = "run"
                          /\ o = "close" => Head(s) = "stop.chain"
         /\ Len(s) > 1 => /\ Tail(s) \in Rests(o) /\ Head(Tail(s)) = s[2]
                          /\ <<Head(s), s[2]>> \in Follows
<1> DEFINE P == Plan(o)
           n == Len(Plan(o))
<1>1. P \in Seq(Phase) /\ n \in 1 .. 5
  BY PlansAre
<1>2. PICK k \in 1 .. n : s = SubSeq(P, k, n)
  BY DEF Rests
<1>3. /\ s \in Seq(Phase) /\ Len(s) = n - k + 1
      /\ \A i \in 1 .. n - k + 1 : s[i] = P[k + i - 1]
  <2>1. \A i \in k .. n : P[i] \in Phase
    BY <1>1
  <2> QED
    BY <1>1, <1>2, <2>1, SubSeqProperties
<1>4. Head(s) = P[k] /\ Tail(s) = SubSeq(P, k + 1, n)
  BY <1>1, <1>2, HeadTailOfSubSeq
<1>5. Len(s) > 1 => /\ k + 1 \in 1 .. n /\ s[2] = P[k + 1]
                    /\ Tail(s) = SubSeq(P, k + 1, n)
  BY <1>1, <1>3, <1>4
<1>6. Len(s) > 1 => Head(Tail(s)) = P[k + 1]
  BY <1>1, <1>5, HeadTailOfSubSeq
<1> HIDE DEF P, n
<1>7. Len(s) = 1 => k = n
  BY <1>1, <1>2, <1>3
<1>8. /\ s # <<>> /\ Len(s) \in Nat \ {0} /\ Head(s) \in Phase
  BY <1>1, <1>3, <1>4
<1>9. /\ Head(s) \in {"stop.relayer", "stop.chain"} <=> o = "close"
      /\ Len(s) = 1 => /\ o = "build" => Head(s) = "run"
                       /\ o = "close" => Head(s) = "stop.chain"
  BY <1>4, <1>7, PlansAre DEF P, n
<1>10. Len(s) > 1 => Tail(s) \in Rests(o)
  BY <1>5 DEF Rests, P, n
<1>11. Len(s) > 1 => <<Head(s), s[2]>> \in Follows
  <2>1. Len(s) > 1 => k < n
    BY <1>1, <1>3
  <2> QED
    BY <1>4, <1>5, <2>1, PlansAre DEF P, n
<1> QED
  BY <1>5, <1>6, <1>8, <1>9, <1>10, <1>11

LEMMA RestsTyped ==
  /\ \E o \in Op : \E k \in 0 .. Len(Plan(o)) : <<>> = SubSeq(Plan(o), k + 1, Len(Plan(o)))
  /\ \A p \in Op : \A s \in Rests(p) :
       \E o \in Op : \E k \in 0 .. Len(Plan(o)) : s = SubSeq(Plan(o), k + 1, Len(Plan(o)))
<1>1. /\ "close" \in Op /\ Len(Plan("close")) \in 0 .. Len(Plan("close"))
      /\ <<>> = SubSeq(Plan("close"), Len(Plan("close")) + 1, Len(Plan("close")))
  <2>1. "close" \in Op
    BY DEF Op
  <2>2. Len(Plan("close")) \in 1 .. 5
    BY <2>1, PlansAre
  <2> QED
    BY <2>1, <2>2, SubSeqEmpty
<1>2. ASSUME NEW p \in Op, NEW s \in Rests(p)
      PROVE  \E k \in 0 .. Len(Plan(p)) : s = SubSeq(Plan(p), k + 1, Len(Plan(p)))
  <2>1. PICK k \in 1 .. Len(Plan(p)) : s = SubSeq(Plan(p), k, Len(Plan(p)))
    BY DEF Rests
  <2>2. k - 1 \in 0 .. Len(Plan(p)) /\ (k - 1) + 1 = k
    BY PlansAre
  <2> QED
    BY <2>1, <2>2
<1> QED
  BY <1>1, <1>2
-----------------------------------------------------------------------------
(* The invariant.                                                          *)

RelayerKind == [made : BOOLEAN, home : BOOLEAN, held : BOOLEAN,
                bg : {"none", "created", "running", "exited"},
                oneoff : {"none", "created", "running"},
                stray : SUBSET {"created", "running"}, listed : [Chain -> Nat]]

Kinds ==
  /\ network \in BOOLEAN /\ built \in BOOLEAN /\ spoiled \in BOOLEAN
  /\ chain \in [Chain -> ChainKind] /\ relayer \in [Relayer -> RelayerKind]
  /\ op \in Op \cup {"none", "new"} /\ calls \in 0 .. MaxCalls
  /\ step \in {"none", "new", "config", "check", "key", "link"} /\ by \in Relayer
  /\ ret \in {"none", "ok", "err", "cancelled"}

\* The phase that the call is in.
Now(p) == plan # <<>> /\ Head(plan) = p

\* A call in progress has an end of its plan to do, and has not returned.
PlanFits ==
  /\ plan = <<>> => todo = {}
  /\ plan # <<>> => /\ op \in Op /\ plan \in Rests(op) /\ ret = "none"
                    /\ todo \subseteq Items(Head(plan))

\* A one-off command runs where a call asks for one, and one at a time.
StepFits ==
  /\ step = "new" => plan = <<>> /\ op = "new" /\ ret = "none"
  /\ step \in {"config", "check", "key"} => Now("config")
  /\ step = "link" => Now("link")
  /\ \A r \in Relayer : relayer[r].oneoff # "none" => step # "none" /\ by = r

\* What a call has still to count is one less than the calls.
CountsFit ==
  /\ \A c \in Chain : /\ chain[c].nodes <= calls
                      /\ Now("init") /\ c \in todo => chain[c].nodes < calls
  /\ \A r \in Relayer, c \in Chain :
       /\ relayer[r].listed[c] <= calls
       /\ Now("init") \/ Now("start") => relayer[r].listed[c] < calls
       /\ Now("config") /\ <<r, c>> \in todo => relayer[r].listed[c] < calls

\* What is not spoiled is in reach of somebody: a relaying container of its
\* handle, the network of a chain that holds its id.
InReach ==
  ~spoiled =>
    /\ \A r \in Relayer : relayer[r].stray = {} /\ (relayer[r].bg # "none" => relayer[r].held)
    /\ \A c \in Chain : chain[c].box => chain[c].net
    /\ network /\ (\E c \in Chain : chain[c].nodes > 0) => \E d \in Chain : chain[d].net

RelayerGone(r) == relayer[r].bg = "none" /\ relayer[r].stray = {} /\ ~relayer[r].home
ChainGone(c)   == ~chain[c].box /\ ~chain[c].volume /\ ~chain[c].net

\* close, so far.
Closing ==
  ~spoiled =>
    /\ Now("stop.relayer") => \A r \in Relayer : r \notin todo => RelayerGone(r)
    /\ Now("stop.chain")   => /\ \A r \in Relayer : RelayerGone(r)
                              /\ \A c \in Chain : c \notin todo => ChainGone(c)

ChainUp(c)   == chain[c].inited /\ chain[c].box /\ chain[c].up
RelayerUp(r) == relayer[r].held /\ relayer[r].bg # "none"

\* build, so far.
Building ==
  op = "build" =>
    /\ Now("init")  => \A c \in Chain : c \notin todo => chain[c].inited
    /\ Now("start") => \A c \in Chain : chain[c].inited /\ (c \notin todo => ChainUp(c))
    /\ Now("config") \/ Now("link") \/ Now("run") => \A c \in Chain : ChainUp(c)
    /\ Now("run")   => \A r \in Relayer : r \notin todo => RelayerUp(r) /\ network

BuilderInv ==
  /\ Kinds /\ PlanFits /\ StepFits /\ CountsFit /\ InReach
  /\ Closing /\ Building /\ CloseIsClean /\ BuildIsUp

LEMMA BoundIs == MaxCalls \in Nat
  BY InterchainAssumption

LEMMA LinksAre ==
  /\ \A i \in DOMAIN Links : Links[i].relayer \in Relayer
  /\ Pairs \subseteq Relayer \X Chain
<1>1. DOMAIN Links = 1 .. Len(Links) /\ Len(Links) \in Nat
  BY InterchainAssumption
<1>2. ASSUME NEW i \in DOMAIN Links
      PROVE  Links[i].relayer \in Relayer
  <2> DEFINE Kind == [ends : SUBSET Chain, relayer : Relayer]
  <2>1. Links \in Seq(Kind)
    BY InterchainAssumption
  <2>2. \A x \in Kind : x.relayer \in Relayer
    OBVIOUS
  <2> HIDE DEF Kind
  <2>3. Links[i] \in Kind
    BY <1>1, <2>1
  <2> QED
    BY <2>2, <2>3
<1>3. Pairs \subseteq Relayer \X Chain
  BY DEF Pairs
<1> QED
  BY <1>2, <1>3

LEMMA BuilderTyped == BuilderInv => TypeOK
<1> SUFFICES ASSUME BuilderInv PROVE TypeOK
  OBVIOUS
<1>1. chain \in [Chain -> [inited : BOOLEAN, net : BOOLEAN, nodes : 0 .. MaxCalls,
                           box : BOOLEAN, volume : BOOLEAN, up : BOOLEAN]]
  <2>1. ASSUME NEW c \in Chain
        PROVE  chain[c] \in [inited : BOOLEAN, net : BOOLEAN, nodes : 0 .. MaxCalls,
                             box : BOOLEAN, volume : BOOLEAN, up : BOOLEAN]
    <3>1. chain[c] \in ChainKind
      BY DEF BuilderInv, Kinds
    <3>2. chain[c].nodes \in 0 .. MaxCalls
      BY <3>1, BoundIs DEF BuilderInv, Kinds, CountsFit, ChainKind
    <3> QED
      BY <3>1, <3>2 DEF ChainKind
  <2> QED
    BY <2>1 DEF BuilderInv, Kinds
<1>2. relayer \in [Relayer -> [made : BOOLEAN, home : BOOLEAN, held : BOOLEAN,
                               bg : {"none", "created", "running", "exited"},
                               oneoff : {"none", "created", "running"},
                               stray : SUBSET {"created", "running"},
                               listed : [Chain -> 0 .. MaxCalls]]]
  <2>1. ASSUME NEW r \in Relayer
        PROVE  relayer[r] \in [made : BOOLEAN, home : BOOLEAN, held : BOOLEAN,
                               bg : {"none", "created", "running", "exited"},
                               oneoff : {"none", "created", "running"},
                               stray : SUBSET {"created", "running"},
                               listed : [Chain -> 0 .. MaxCalls]]
    <3>1. relayer[r] \in RelayerKind
      BY DEF BuilderInv, Kinds
    <3>2. ASSUME NEW c \in Chain PROVE relayer[r].listed[c] \in 0 .. MaxCalls
      <4>1. relayer[r].listed[c] \in Nat
        BY <3>1 DEF RelayerKind
      <4>2. relayer[r].listed[c] <= calls
        BY DEF BuilderInv, CountsFit
      <4>3. calls \in 0 .. MaxCalls
        BY DEF BuilderInv, Kinds
      <4> QED
        BY <4>1, <4>2, <4>3, BoundIs
    <3>3. relayer[r].listed \in [Chain -> 0 .. MaxCalls]
      BY <3>1, <3>2 DEF RelayerKind
    <3> QED
      BY <3>1, <3>3 DEF RelayerKind
  <2> QED
    BY <2>1 DEF BuilderInv, Kinds
<1>3. \E o \in Op : \E k \in 0 .. Len(Plan(o)) : plan = SubSeq(Plan(o), k + 1, Len(Plan(o)))
  BY RestsTyped DEF BuilderInv, PlanFits
<1>4. plan = <<>> => todo = {} /\ (step = "none" \/ step = "new")
  BY DEF BuilderInv, Kinds, PlanFits, StepFits, Now
<1> QED
  BY <1>1, <1>2, <1>3, <1>4 DEF BuilderInv, Kinds, PlanFits, StepFits, TypeOK

LEMMA BuilderInit == Init => BuilderInv
<1> SUFFICES ASSUME Init PROVE BuilderInv
  OBVIOUS
<1>1. Kinds
  <2>1. [c \in Chain |-> 0] \in [Chain -> Nat]
    OBVIOUS
  <2>2. relayer \in [Relayer -> RelayerKind] /\ chain \in [Chain -> ChainKind]
    BY <2>1 DEF Init, RelayerKind, ChainKind
  <2>3. calls \in 0 .. MaxCalls
    BY BoundIs DEF Init
  <2> QED
    BY <2>2, <2>3 DEF Init, Kinds
<1>2. PlanFits /\ StepFits /\ Closing /\ Building
  BY DEF Init, PlanFits, StepFits, Closing, Building, Now
<1>3. CountsFit
  BY DEF Init, CountsFit, Now
<1>4. InReach /\ CloseIsClean /\ BuildIsUp
  BY DEF Init, InReach, CloseIsClean, BuildIsUp
<1> QED
  BY <1>1, <1>2, <1>3, <1>4 DEF BuilderInv

-----------------------------------------------------------------------------
(* What the actions have in common.                                        *)

LEMMA NowIsOne ==
  ASSUME NEW p, NEW q, Now(p), Now(q)
  PROVE  p = q
  BY DEF Now

LEMMA InPhase ==
  ASSUME BuilderInv, NEW p, Now(p)
  PROVE  /\ plan # <<>> /\ op \in Op /\ ret = "none" /\ todo \subseteq Items(p)
         /\ p \in {"stop.relayer", "stop.chain"} <=> op = "close"
  BY RestsGoOn DEF BuilderInv, PlanFits, Now

\* While a command is in progress, nothing is closed, and nothing has returned.
LEMMA InCommand ==
  ASSUME BuilderInv, step # "none"
  PROVE  /\ ret = "none"
         /\ \A p : Now(p) => p \in {"config", "link"}
         /\ Now("config") \/ Now("link") \/ (step = "new" /\ plan = <<>> /\ op = "new")
<1>1. Now("config") \/ Now("link") \/ (step = "new" /\ plan = <<>> /\ op = "new" /\ ret = "none")
  <2>1. step \in {"new", "config", "check", "key", "link"}
    BY DEF BuilderInv, Kinds
  <2> QED
    BY <2>1 DEF BuilderInv, StepFits
<1>2. ret = "none"
  BY <1>1, InPhase
<1>3. \A p : Now(p) => p \in {"config", "link"}
  BY <1>1, NowIsOne DEF Now
<1> QED
  BY <1>1, <1>2, <1>3

LEMMA SamePhase ==
  ASSUME plan' = plan
  PROVE  \A p : Now(p)' <=> Now(p)
  BY DEF Now

\* A call that ends without success leaves nothing to hold of a phase.
LEMMA EndFits ==
  ASSUME BuilderInv, NEW r \in {"err", "cancelled"}, End(r)
  PROVE  /\ PlanFits' /\ Closing' /\ Building' /\ CloseIsClean' /\ BuildIsUp'
         /\ step' = "none" /\ op' = op /\ calls' = calls /\ by' = by /\ ret' = r
         /\ \A p : ~Now(p)'
  BY DEF End, PlanFits, Closing, Building, CloseIsClean, BuildIsUp, Now

\* The same of what is counted, when nothing more is.
LEMMA CountsKept ==
  ASSUME BuilderInv, calls' = calls, \A p : ~Now(p)',
         \A c \in Chain : chain'[c].nodes = chain[c].nodes,
         \A r \in Relayer, c \in Chain : relayer'[r].listed[c] = relayer[r].listed[c]
  PROVE  CountsFit'
  BY DEF BuilderInv, CountsFit

\* An item of a phase is done with.
LEMMA DoneFits ==
  ASSUME BuilderInv, NEW p, Now(p), NEW x, Done(x)
  PROVE  /\ PlanFits' /\ CloseIsClean' /\ BuildIsUp'
         /\ step' = step /\ by' = by /\ op' = op /\ calls' = calls /\ ret' = ret
         /\ todo' = todo \ {x} /\ \A q : Now(q)' <=> Now(q)
<1>1. /\ plan' = plan /\ step' = step /\ by' = by /\ op' = op /\ calls' = calls /\ ret' = ret
      /\ todo' = todo \ {x}
  BY DEF Done, Begun
<1>2. PlanFits'
  BY <1>1 DEF BuilderInv, PlanFits
<1>3. CloseIsClean' /\ BuildIsUp'
  BY <1>1, InPhase DEF CloseIsClean, BuildIsUp
<1> QED
  BY <1>1, <1>2, <1>3, SamePhase

-----------------------------------------------------------------------------
(* The actions.                                                            *)

LEMMA NextPhaseKeeps == BuilderInv /\ NextPhase => BuilderInv'
<1> SUFFICES ASSUME BuilderInv, NextPhase PROVE BuilderInv'
  OBVIOUS
<1>1. /\ plan # <<>> /\ op \in Op /\ plan \in Rests(op) /\ Len(plan) > 1 /\ ret = "none"
  BY DEF BuilderInv, PlanFits, NextPhase
<1>2. /\ Tail(plan) \in Rests(op) /\ Head(Tail(plan)) = plan[2] /\ Tail(plan) # <<>>
      /\ <<Head(plan), plan[2]>> \in Follows
  BY <1>1, RestsGoOn
<1>3. /\ plan' = Tail(plan) /\ todo = {} /\ todo' = Items(plan[2]) /\ step = "none"
      /\ UNCHANGED <<network, chain, relayer, built, op, calls, step, by, ret, spoiled>>
  BY DEF NextPhase
<1>4. /\ \A p : Now(p) <=> p = Head(plan)
      /\ \A p : Now(p)' <=> p = plan[2]
  BY <1>1, <1>2, <1>3 DEF Now
<1>5. Kinds' /\ InReach'
  BY <1>3 DEF BuilderInv, Kinds, InReach
<1>6. PlanFits'
  BY <1>1, <1>2, <1>3 DEF PlanFits
<1>7. StepFits'
  BY <1>3 DEF BuilderInv, StepFits
<1>8. CountsFit'
  <2>1. /\ Now("config")' => Now("start")
        /\ Now("start")' => Now("init")
        /\ ~Now("init")'
    BY <1>2, <1>4 DEF Follows
  <2> QED
    BY <1>3, <2>1 DEF BuilderInv, CountsFit
<1>9. Closing'
  <2>1. ~Now("stop.relayer")' /\ (Now("stop.chain")' => Now("stop.relayer") /\ todo' = Chain)
    BY <1>2, <1>3, <1>4 DEF Follows, Items
  <2> QED
    BY <1>3, <2>1 DEF BuilderInv, Closing, RelayerGone
<1>10. Building'
  <2>1. /\ ~Now("init")' /\ (Now("start")' => Now("init") /\ todo' = Chain)
        /\ (Now("config")' => Now("start")) /\ (Now("link")' => Now("config"))
        /\ (Now("run")' => Now("link") /\ todo' = Relayer)
    BY <1>2, <1>3, <1>4 DEF Follows, Items
  <2> QED
    BY <1>3, <2>1 DEF BuilderInv, Building, ChainUp
<1>11. CloseIsClean' /\ BuildIsUp'
  BY <1>1, <1>3 DEF CloseIsClean, BuildIsUp
<1> QED
  BY <1>5, <1>6, <1>7, <1>8, <1>9, <1>10, <1>11 DEF BuilderInv

LEMMA CallEndsKeeps == BuilderInv /\ CallEnds => BuilderInv'
<1> SUFFICES ASSUME BuilderInv, CallEnds PROVE BuilderInv'
  OBVIOUS
<1>1. /\ plan # <<>> /\ op \in Op /\ plan \in Rests(op) /\ Len(plan) = 1 /\ todo = {}
  BY DEF BuilderInv, PlanFits, CallEnds
<1>2. /\ op = "build" => Now("run")
      /\ op = "close" => Now("stop.chain")
  BY <1>1, RestsGoOn DEF Now
<1>3. /\ plan' = <<>> /\ todo' = {} /\ step' = "none" /\ ret' = "ok" /\ step = "none"
      /\ built' \in BOOLEAN /\ UNCHANGED <<network, chain, relayer, op, calls, by, spoiled>>
  BY DEF CallEnds, End, BuilderInv, Kinds
<1>4. \A p : ~Now(p)'
  BY <1>3 DEF Now
<1>5. Kinds' /\ InReach' /\ PlanFits' /\ StepFits'
  BY <1>3, <1>4 DEF BuilderInv, Kinds, InReach, PlanFits, StepFits
<1>6. CountsFit' /\ Closing' /\ Building'
  BY <1>3, <1>4 DEF BuilderInv, CountsFit, Closing, Building
<1>7. CloseIsClean'
  BY <1>1, <1>2, <1>3 DEF BuilderInv, Closing, InReach, RelayerGone, ChainGone, CloseIsClean
<1>8. BuildIsUp'
  <2>1. by \in Relayer
    BY DEF BuilderInv, Kinds
  <2> QED
    BY <1>1, <1>2, <1>3, <2>1 DEF BuilderInv, Building, ChainUp, RelayerUp, BuildIsUp
<1> QED
  BY <1>5, <1>6, <1>7, <1>8 DEF BuilderInv

LEMMA MarkBuiltKeeps == BuilderInv /\ MarkBuilt => BuilderInv'
<1> SUFFICES ASSUME BuilderInv, MarkBuilt PROVE BuilderInv'
  OBVIOUS
<1>1. built' \in BOOLEAN /\ UNCHANGED <<network, chain, relayer, callVars, spoiled>>
  BY DEF MarkBuilt
<1> USE <1>1
<1>2. \A p : Now(p)' <=> Now(p)
  BY DEF callVars, Now
<1>3. Kinds' /\ InReach' /\ PlanFits'
  BY DEF BuilderInv, Kinds, InReach, PlanFits, callVars
<1>4. StepFits' /\ CountsFit' /\ Closing' /\ Building'
  BY <1>2 DEF BuilderInv, StepFits, CountsFit, Closing, Building, RelayerGone, ChainGone,
              ChainUp, RelayerUp, callVars
<1>5. CloseIsClean' /\ BuildIsUp'
  BY DEF BuilderInv, CloseIsClean, BuildIsUp, callVars
<1> QED
  BY <1>3, <1>4, <1>5 DEF BuilderInv

LEMMA CallKeeps == ASSUME NEW o \in Op PROVE BuilderInv /\ Call(o) => BuilderInv'
<1> SUFFICES ASSUME BuilderInv, Call(o) PROVE BuilderInv'
  OBVIOUS
<1>1. /\ plan = <<>> /\ step = "none" /\ todo = {} /\ op' = o /\ calls' = calls + 1
      /\ calls < MaxCalls /\ UNCHANGED <<network, chain, relayer, built, step, by, spoiled>>
  BY DEF Call, Idle, BuilderInv, PlanFits
<1>2. Kinds'
  <2>1. calls' \in 0 .. MaxCalls
    BY <1>1, BoundIs DEF BuilderInv, Kinds
  <2>2. ret' \in {"none", "err"}
    BY DEF Call
  <2> QED
    BY <1>1, <2>1, <2>2 DEF BuilderInv, Kinds
<1>3. InReach' /\ StepFits'
  BY <1>1 DEF BuilderInv, InReach, StepFits
<1>4. \/ plan' = <<>> /\ todo' = {} /\ ret' = "err"
      \/ plan' = Plan(o) /\ todo' = Items(Head(Plan(o))) /\ ret' = "none"
  BY <1>1 DEF Call
<1>5. /\ \A c \in Chain : chain[c].nodes < calls'
      /\ \A r \in Relayer, c \in Chain : relayer[r].listed[c] < calls'
  <2>1. ASSUME NEW c \in Chain PROVE chain[c].nodes < calls'
    <3>1. chain[c] \in ChainKind /\ calls \in Nat
      BY BoundIs DEF BuilderInv, Kinds
    <3>2. chain[c].nodes \in Nat
      BY <3>1 DEF ChainKind
    <3> QED
      BY <1>1, <3>1, <3>2 DEF BuilderInv, CountsFit
  <2>2. ASSUME NEW r \in Relayer, NEW c \in Chain PROVE relayer[r].listed[c] < calls'
    <3>1. relayer[r] \in RelayerKind /\ calls \in Nat
      BY BoundIs DEF BuilderInv, Kinds
    <3>2. relayer[r].listed[c] \in Nat
      BY <3>1 DEF RelayerKind
    <3>3. relayer[r].listed[c] <= calls
      BY DEF BuilderInv, CountsFit
    <3> QED
      BY <1>1, <3>1, <3>2, <3>3
  <2> QED
    BY <2>1, <2>2
<1>6. CountsFit'
  <2>1. /\ \A c \in Chain : chain[c].nodes \in Nat
        /\ \A r \in Relayer, c \in Chain : relayer[r].listed[c] \in Nat
        /\ calls' \in Nat
    BY <1>1, BoundIs DEF BuilderInv, Kinds, ChainKind, RelayerKind
  <2> QED
    BY <1>1, <1>5, <2>1 DEF CountsFit
<1>7. CASE plan' = <<>> /\ todo' = {} /\ ret' = "err"
  <2>1. PlanFits' /\ Closing' /\ Building' /\ CloseIsClean' /\ BuildIsUp'
    BY <1>7 DEF PlanFits, Closing, Building, CloseIsClean, BuildIsUp, Now
  <2> QED
    BY <1>2, <1>3, <1>6, <2>1 DEF BuilderInv
<1>8. CASE plan' = Plan(o) /\ todo' = Items(Head(Plan(o))) /\ ret' = "none"
  <2>1. PlanFits'
    BY <1>1, <1>8, PlanBegins DEF PlanFits
  <2>2. /\ Now("stop.relayer")' => todo' = Relayer
        /\ ~Now("stop.chain")' /\ ~Now("start")' /\ ~Now("link")'
        /\ Now("init")' => todo' = Chain
        /\ o = "build" => Now("init")'
    BY <1>8, PlanBegins DEF Now, Items
  <2>3. Closing'
    BY <2>2 DEF Closing
  <2>4. Building'
    BY <1>1, <2>2, NowIsOne DEF Building, Now
  <2>5. CloseIsClean' /\ BuildIsUp'
    BY <1>8 DEF CloseIsClean, BuildIsUp
  <2> QED
    BY <1>2, <1>3, <1>6, <2>1, <2>3, <2>4, <2>5 DEF BuilderInv
<1> QED
  BY <1>4, <1>7, <1>8

\* The fields that a step changes, and those it does not.
LEMMA WithIs ==
  ASSUME NEW k \in ChainKind, NEW w \in Remains
  PROVE  /\ w.box \in BOOLEAN /\ w.volume \in BOOLEAN /\ (w.box => w.volume)
         /\ With(k, w) \in ChainKind
         /\ With(k, w).box = w.box /\ With(k, w).volume = w.volume
         /\ With(k, w).inited = k.inited /\ With(k, w).net = k.net
         /\ With(k, w).nodes = k.nodes /\ With(k, w).up = k.up
<1>1. w.box \in BOOLEAN /\ w.volume \in BOOLEAN /\ (w.box => w.volume)
  BY DEF Remains
<1>2. With(k, w) \in ChainKind
  BY <1>1 DEF With, ChainKind
<1>3. /\ With(k, w).box = w.box /\ With(k, w).volume = w.volume
         /\ With(k, w).inited = k.inited /\ With(k, w).net = k.net
         /\ With(k, w).nodes = k.nodes /\ With(k, w).up = k.up
  BY DEF With, ChainKind
<1> QED
  BY <1>1, <1>2, <1>3

\* What initialize comes to: nothing, the end before it has a network, or structs
\* of its own and the network's id.
LEMMA InitComes ==
  ASSUME NEW k \in ChainKind, NEW n \in BOOLEAN, NEW o \in InitOutcomes(k, n)
  PROVE  /\ o.chain \in ChainKind /\ o.network \in BOOLEAN
         /\ o.ok => o.chain.inited
         /\ \/ o.chain = k /\ o.network = n
            \/ /\ o.chain.nodes = k.nodes /\ o.chain.net = k.net /\ o.network = n
               /\ o.chain.box => k.box
            \/ /\ o.chain.nodes = k.nodes + 1 /\ o.chain.net /\ o.network
<1> DEFINE begun == [k EXCEPT !.net = TRUE, !.nodes = @ + 1]
           whole == [box |-> TRUE, volume |-> TRUE]
           last  == [With(begun, whole) EXCEPT !.inited = TRUE]
<1>1. CASE k.inited
  <2>1. o = Outcome(k, n, TRUE)
    BY <1>1 DEF InitOutcomes
  <2> QED
    BY <1>1, <2>1 DEF Outcome
<1>2. CASE \E b \in {k.box, FALSE} : o = Outcome([k EXCEPT !.box = b], n, FALSE)
  <2>1. PICK b \in {k.box, FALSE} : o = Outcome([k EXCEPT !.box = b], n, FALSE)
    BY <1>2
  <2>2. b \in BOOLEAN /\ (b => k.box)
    BY <2>1 DEF ChainKind
  <2>3. [k EXCEPT !.box = b] \in ChainKind
    BY <2>2 DEF ChainKind
  <2>4. /\ [k EXCEPT !.box = b].nodes = k.nodes /\ [k EXCEPT !.box = b].net = k.net
        /\ [k EXCEPT !.box = b].box = b
    BY <2>2 DEF ChainKind
  <2>5. o.chain = [k EXCEPT !.box = b] /\ o.network = n /\ o.ok = FALSE
    BY <2>1 DEF Outcome
  <2> QED
    BY <2>2, <2>3, <2>4, <2>5
<1>3. begun \in ChainKind /\ begun.nodes = k.nodes + 1 /\ begun.net
  <2>1. k.nodes + 1 \in Nat
    BY DEF ChainKind
  <2>2. \A m \in Nat : [k EXCEPT !.net = TRUE, !.nodes = m] \in ChainKind
    BY DEF ChainKind
  <2>3. \A m \in Nat : /\ [k EXCEPT !.net = TRUE, !.nodes = m].nodes = m
                       /\ [k EXCEPT !.net = TRUE, !.nodes = m].net
    BY DEF ChainKind
  <2> QED
    BY <2>1, <2>2, <2>3, Zenon
<1> HIDE DEF begun
<1>4. CASE \E w \in Remains : o = Outcome(With(begun, w), TRUE, FALSE)
  <2>1. PICK w \in Remains : o = Outcome(With(begun, w), TRUE, FALSE)
    BY <1>4
  <2>2. o.chain = With(begun, w) /\ o.network = TRUE /\ o.ok = FALSE
    BY <2>1 DEF Outcome
  <2>3. /\ With(begun, w) \in ChainKind
        /\ With(begun, w).nodes = begun.nodes /\ With(begun, w).net = begun.net
    BY <1>3, WithIs
  <2> QED
    BY <1>3, <2>2, <2>3
<1>5. CASE o = Outcome(last, TRUE, TRUE)
  <2>1. whole \in Remains
    BY DEF Remains
  <2> HIDE DEF whole
  <2>2. /\ With(begun, whole) \in ChainKind
        /\ With(begun, whole).nodes = k.nodes + 1 /\ With(begun, whole).net
    BY <1>3, <2>1, WithIs
  <2>3. last \in ChainKind /\ last.nodes = k.nodes + 1 /\ last.net /\ last.inited
    BY <2>2 DEF ChainKind
  <2>4. o.chain = last /\ o.network = TRUE
    BY <1>5 DEF Outcome
  <2> QED
    BY <2>3, <2>4
<1> USE DEF begun
<1> QED
  BY <1>1, <1>2, <1>4, <1>5, Zenon DEF InitOutcomes

LEMMA StartComes ==
  ASSUME NEW k \in ChainKind, NEW n \in BOOLEAN, NEW o \in StartOutcomes(k, n)
  PROVE  /\ o.network = n
         /\ \/ ~o.ok /\ o.chain = k
            \/ /\ k.inited /\ k.box
               /\ o.chain \in ChainKind
               /\ o.chain.nodes = k.nodes /\ o.chain.net = k.net /\ o.chain.up
               /\ o.chain.box /\ o.chain.inited
<1>1. CASE o = Outcome(k, n, FALSE)
  BY <1>1 DEF Outcome
<1>2. CASE k.inited /\ k.box /\ o = Outcome([k EXCEPT !.up = TRUE], n, TRUE)
  <2>1. o.chain = [k EXCEPT !.up = TRUE] /\ o.network = n
    BY <1>2 DEF Outcome
  <2>2. [k EXCEPT !.up = TRUE] \in ChainKind
    BY DEF ChainKind
  <2>3. /\ [k EXCEPT !.up = TRUE].nodes = k.nodes /\ [k EXCEPT !.up = TRUE].net = k.net
        /\ [k EXCEPT !.up = TRUE].up /\ [k EXCEPT !.up = TRUE].box = k.box
        /\ [k EXCEPT !.up = TRUE].inited = k.inited
    BY DEF ChainKind
  <2> QED
    BY <1>2, <2>1, <2>2, <2>3
<1> QED
  BY <1>1, <1>2, Zenon DEF StartOutcomes

LEMMA LeftIs ==
  ASSUME NEW k \in ChainKind, NEW w \in Left(k)
  PROVE  /\ w \in Remains /\ w.box \in BOOLEAN
         /\ w.box => k.box
         /\ w.volume => k.volume
         /\ With(k, w) \in ChainKind
         /\ With(k, w).nodes = k.nodes /\ With(k, w).net = k.net
         /\ With(k, w).box = w.box
<1>1. w \in Remains /\ (w.box => k.box) /\ (w.volume => k.volume)
  BY DEF Left
<1> QED
  BY <1>1, WithIs

LEMMA StopComes ==
  ASSUME NEW k \in ChainKind, NEW n \in BOOLEAN, NEW o \in StopOutcomes(k, n)
  PROVE  /\ o.chain \in ChainKind /\ o.network \in BOOLEAN
         /\ o.chain.nodes = k.nodes /\ ~o.chain.net
         /\ o.network # n => k.net /\ ~o.network
<1>1. PICK w \in Left(k), m \in BOOLEAN :
        /\ o = Outcome([With(k, w) EXCEPT !.net = FALSE, !.up = FALSE], m, TRUE)
        /\ m # n => k.net /\ ~m
  BY Zenon DEF StopOutcomes
<1>2. With(k, w) \in ChainKind /\ With(k, w).nodes = k.nodes
  BY LeftIs
<1> DEFINE l == With(k, w)
           e == [l EXCEPT !.net = FALSE, !.up = FALSE]
<1> HIDE DEF l
<1>3. e \in ChainKind
  BY <1>2 DEF ChainKind, l
<1>4. e.nodes = l.nodes /\ ~e.net
  BY <1>2 DEF ChainKind, l
<1>5. o.chain = e /\ o.network = m
  BY <1>1 DEF Outcome, l
<1>6. l.nodes = k.nodes
  BY <1>2 DEF l
<1> HIDE DEF e
<1> QED
  BY <1>1, <1>3, <1>4, <1>5, <1>6

\* What a call of chain c comes to is c's alone.
LEMMA BecomesIs ==
  ASSUME BuilderInv, NEW c \in Chain, NEW o, Becomes(c, o), o.chain \in ChainKind
  PROVE  /\ chain' \in [Chain -> ChainKind] /\ chain[c] \in ChainKind
         /\ chain'[c] = o.chain /\ network' = o.network
         /\ \A d \in Chain : d # c => chain'[d] = chain[d]
  BY DEF BuilderInv, Kinds, Becomes

LEMMA InitChainKeeps == ASSUME NEW c \in Chain PROVE BuilderInv /\ InitChain(c) => BuilderInv'
<1> SUFFICES ASSUME BuilderInv, InitChain(c) PROVE BuilderInv'
  OBVIOUS
<1>1. Now("init") /\ c \in todo /\ step = "none" /\ UNCHANGED <<relayer, built, spoiled>>
  BY DEF InitChain, At, Now
<1>2. /\ plan # <<>> /\ op \in Op /\ ret = "none" /\ op # "close"
      /\ \A p : Now(p) => p = "init"
  BY <1>1, InPhase, NowIsOne
<1>3. chain[c] \in ChainKind /\ chain[c].nodes < calls /\ network \in BOOLEAN
      /\ calls \in 0 .. MaxCalls
  BY <1>1 DEF BuilderInv, Kinds, CountsFit
<1>4. PICK o \in InitOutcomes(chain[c], network) :
        Becomes(c, o) /\ IF o.ok THEN Done(c) ELSE End("err")
  BY DEF InitChain
<1>5. /\ o.chain \in ChainKind /\ o.network \in BOOLEAN
      /\ o.ok => o.chain.inited
      /\ \/ o.chain = chain[c] /\ o.network = network
         \/ /\ o.chain.nodes = chain[c].nodes /\ o.chain.net = chain[c].net
            /\ o.network = network /\ (o.chain.box => chain[c].box)
         \/ o.chain.nodes = chain[c].nodes + 1 /\ o.chain.net /\ o.network
  BY <1>3, <1>4, InitComes
<1>6. /\ chain' \in [Chain -> ChainKind] /\ chain'[c] = o.chain /\ network' = o.network
      /\ \A d \in Chain : d # c => chain'[d] = chain[d]
  BY <1>4, <1>5, BecomesIs
<1>7. InReach'
  BY <1>1, <1>5, <1>6 DEF BuilderInv, InReach
<1>8. chain'[c].nodes <= calls /\ \A d \in Chain : d # c => chain'[d].nodes = chain[d].nodes
  BY <1>3, <1>5, <1>6, BoundIs DEF ChainKind
<1>9. CASE Done(c)
  <2>1. CountsFit' /\ Kinds' /\ StepFits'
    BY <1>1, <1>5, <1>6, <1>8, <1>9, DoneFits DEF BuilderInv, CountsFit, Kinds, StepFits
  <2>2. CASE o.ok
    <3>1. Closing' /\ Building'
      BY <1>1, <1>2, <1>5, <1>6, <1>9, <2>2, DoneFits DEF BuilderInv, Closing, Building
    <3> QED
      BY <1>1, <1>7, <1>9, <2>1, <3>1, DoneFits DEF BuilderInv
  <2>3. CASE ~o.ok
    <3>1. End("err")
      BY <1>4, <2>3
    <3> QED
      BY <1>2, <1>9, <3>1 DEF End, Done, Begun
  <2> QED
    BY <2>2, <2>3
<1>10. CASE End("err")
  <2>1. CountsFit' /\ Kinds' /\ StepFits'
    BY <1>1, <1>5, <1>6, <1>8, <1>10, EndFits DEF BuilderInv, CountsFit, Kinds, StepFits
  <2> QED
    BY <1>7, <1>10, <2>1, EndFits DEF BuilderInv
<1> QED
  BY <1>4, <1>9, <1>10

LEMMA StartChainKeeps == ASSUME NEW c \in Chain PROVE BuilderInv /\ StartChain(c) => BuilderInv'
<1> SUFFICES ASSUME BuilderInv, StartChain(c) PROVE BuilderInv'
  OBVIOUS
<1>1. /\ Now("start") /\ c \in todo /\ step = "none"
      /\ UNCHANGED <<relayer, built, spoiled>>
  BY DEF StartChain, At, Now
<1>2. /\ op # "close" /\ \A p : Now(p) => p = "start"
  BY <1>1, InPhase, NowIsOne
<1>3. chain[c] \in ChainKind /\ network \in BOOLEAN
  BY DEF BuilderInv, Kinds
<1>4. PICK o \in StartOutcomes(chain[c], network) :
        Becomes(c, o) /\ IF o.ok THEN Done(c) ELSE End("err")
  BY DEF StartChain
<1>5. CASE /\ chain[c].inited /\ chain[c].box /\ o.chain \in ChainKind /\ o.network = network
           /\ o.chain.nodes = chain[c].nodes /\ o.chain.net = chain[c].net
           /\ o.chain.up /\ o.chain.box /\ o.chain.inited
  <2>1. /\ o.chain.box = chain[c].box /\ o.chain.inited = chain[c].inited
    BY <1>3, <1>5 DEF ChainKind
  <2>2. /\ chain' \in [Chain -> ChainKind] /\ network' = network
        /\ \A d \in Chain : /\ chain'[d].nodes = chain[d].nodes
                            /\ chain'[d].box = chain[d].box /\ chain'[d].net = chain[d].net
                            /\ chain'[d].inited = chain[d].inited
                            /\ d # c => chain'[d].up = chain[d].up
        /\ chain'[c].up
    BY <1>4, <1>5, <2>1, BecomesIs
  <2>3. CASE Done(c)
    <3>1. Kinds' /\ InReach' /\ StepFits'
      BY <1>1, <2>2, <2>3, DoneFits DEF BuilderInv, Kinds, InReach, StepFits
    <3>2. CountsFit' /\ Closing' /\ Building'
      BY <1>1, <1>2, <1>5, <2>2, <2>3, DoneFits DEF BuilderInv, CountsFit, Closing, Building, ChainUp
    <3> QED
      BY <1>1, <2>3, <3>1, <3>2, DoneFits DEF BuilderInv
  <2>4. CASE End("err")
    <3>1. Kinds' /\ InReach' /\ StepFits' /\ CountsFit'
      BY <1>1, <2>2, <2>4, EndFits, CountsKept DEF BuilderInv, Kinds, InReach, StepFits
    <3> QED
      BY <2>4, <3>1, EndFits DEF BuilderInv
  <2> QED
    BY <1>4, <2>3, <2>4
<1>6. CASE ~o.ok /\ o.chain = chain[c] /\ o.network = network
  <2>1. End("err") /\ network' = network /\ \A d \in Chain : chain'[d] = chain[d]
        /\ chain' \in [Chain -> ChainKind]
    BY <1>3, <1>4, <1>6, BecomesIs
  <2>2. Kinds' /\ InReach' /\ StepFits' /\ CountsFit'
    BY <1>1, <2>1, EndFits, CountsKept DEF BuilderInv, Kinds, InReach, StepFits
  <2> QED
    BY <2>1, <2>2, EndFits DEF BuilderInv
<1> QED
  BY <1>3, <1>4, <1>5, <1>6, StartComes

LEMMA StopChainKeeps == ASSUME NEW c \in Chain PROVE BuilderInv /\ StopChain(c) => BuilderInv'
<1> SUFFICES ASSUME BuilderInv, StopChain(c) PROVE BuilderInv'
  OBVIOUS
<1> DEFINE relaying == \E r \in Relayer : relayer[r].bg = "running" \/ "running" \in relayer[r].stray
           others   == relaying \/ \E d \in Chain \ {c} : chain[d].box
<1>1. /\ Now("stop.chain") /\ c \in todo /\ step = "none"
      /\ Done(c) /\ UNCHANGED <<relayer, built>>
  BY DEF StopChain, At, Now
<1>2. /\ op = "close" /\ \A p : Now(p) => p = "stop.chain"
  BY <1>1, InPhase, NowIsOne
<1>3. PICK o \in StopOutcomes(chain[c], network) :
        /\ Becomes(c, o)
        /\ spoiled' = (spoiled \/ o.chain.box \/ o.chain.volume
                               \/ (o.network /\ chain[c].net /\ ~others))
  BY Zenon DEF StopChain
<1>4. /\ chain[c] \in ChainKind /\ network \in BOOLEAN /\ spoiled \in BOOLEAN
  BY DEF BuilderInv, Kinds
<1>5. /\ o.chain \in ChainKind /\ o.network \in BOOLEAN
      /\ o.chain.nodes = chain[c].nodes /\ ~o.chain.net
      /\ o.network # network => chain[c].net /\ ~o.network
  BY <1>3, <1>4, StopComes
<1>6. /\ chain' \in [Chain -> ChainKind]
      /\ chain'[c] = o.chain /\ network' = o.network
      /\ \A d \in Chain : /\ chain'[d].nodes = chain[d].nodes
                          /\ d # c => chain'[d] = chain[d]
  BY <1>3, <1>5, BecomesIs
<1>7. spoiled' \in BOOLEAN /\ (~spoiled' => ~spoiled /\ ~o.chain.box /\ ~o.chain.volume)
  BY <1>3, <1>4, <1>5 DEF ChainKind
<1>8. Kinds' /\ StepFits' /\ CountsFit' /\ Building'
  <2>1. Kinds'
    BY <1>1, <1>5, <1>6, <1>7, DoneFits DEF BuilderInv, Kinds
  <2> QED
    BY <1>1, <1>2, <1>6, <2>1, DoneFits DEF BuilderInv, StepFits, CountsFit, Building
<1>9. Closing'
  BY <1>1, <1>2, <1>5, <1>6, <1>7, DoneFits DEF BuilderInv, Closing, RelayerGone, ChainGone
<1>10. InReach'
  <2>1. ASSUME ~spoiled', network', NEW d \in Chain, chain[d].nodes > 0
        PROVE  \E e \in Chain : e # c /\ chain[e].net
    <3>1. network /\ ~spoiled /\ (\A e \in Chain : chain[e].box => chain[e].net)
          /\ \E e \in Chain : chain[e].net
      BY <1>4, <1>5, <1>6, <1>7, <2>1 DEF BuilderInv, InReach
    <3>2. ~relaying
      BY <1>1, <3>1 DEF BuilderInv, Closing, RelayerGone
    <3>3. CASE chain[c].net
      <4>1. others
        BY <1>3, <1>6, <2>1, <3>3
      <4> QED
        BY <3>1, <3>2, <4>1
    <3>4. CASE ~chain[c].net
      BY <3>1, <3>4
    <3> QED
      BY <3>3, <3>4
  <2>2. ~spoiled' => /\ \A r \in Relayer : relayer'[r].stray = {} /\ (relayer'[r].bg # "none" => relayer'[r].held)
                     /\ \A d \in Chain : chain'[d].box => chain'[d].net
    BY <1>1, <1>6, <1>7 DEF BuilderInv, InReach
  <2> QED
    BY <1>6, <2>1, <2>2 DEF InReach
<1> QED
  BY <1>1, <1>8, <1>9, <1>10, DoneFits DEF BuilderInv

LEMMA StopCutKeeps == ASSUME NEW c \in Chain PROVE BuilderInv /\ StopCut(c) => BuilderInv'
<1> SUFFICES ASSUME BuilderInv, StopCut(c) PROVE BuilderInv'
  OBVIOUS
<1>1. /\ step = "none" /\ End("cancelled") /\ UNCHANGED <<network, relayer, built>>
  BY DEF StopCut, At
<1>2. PICK w \in Left(chain[c]) :
        /\ chain' = [chain EXCEPT ![c] = With(@, w)]
        /\ spoiled' = (spoiled \/ w.box)
  BY DEF StopCut
<1>3. /\ chain \in [Chain -> ChainKind] /\ spoiled \in BOOLEAN
  BY DEF BuilderInv, Kinds
<1>4. /\ w.box \in BOOLEAN /\ With(chain[c], w) \in ChainKind
      /\ With(chain[c], w).nodes = chain[c].nodes /\ With(chain[c], w).net = chain[c].net
      /\ With(chain[c], w).box = w.box
  BY <1>3, LeftIs
<1>5. /\ chain' \in [Chain -> ChainKind] /\ spoiled' \in BOOLEAN
      /\ \A d \in Chain : /\ chain'[d].nodes = chain[d].nodes /\ chain'[d].net = chain[d].net
                          /\ ~spoiled' => ~spoiled /\ (chain'[d].box => chain[d].box)
  BY <1>2, <1>3, <1>4
<1>6. Kinds' /\ InReach' /\ StepFits' /\ CountsFit'
  BY <1>1, <1>5, EndFits, CountsKept DEF BuilderInv, Kinds, InReach, StepFits
<1> QED
  BY <1>1, <1>6, EndFits DEF BuilderInv

-----------------------------------------------------------------------------
(* One-off commands.                                                       *)

\* How a command goes on: with the next one, or with the end of what ran it.
LEMMA ResultFits ==
  ASSUME BuilderInv, step # "none", NEW ok \in BOOLEAN, Result(ok)
  PROVE  /\ PlanFits' /\ CloseIsClean' /\ BuildIsUp'
         /\ op' = op /\ calls' = calls /\ by' = by
         /\ ret' \in {"none", "ok", "err"} /\ step' \in {"none", "check", "key"}
         /\ step' # "none" => Now("config")'
         /\ (\A p : ~Now(p)') \/ (todo' = todo /\ \A p : Now(p)' <=> Now(p))
<1>1. CASE step = "new"
  <2>1. plan = <<>> /\ op = "new"
    BY <1>1 DEF BuilderInv, StepFits
  <2>2. /\ step' = "none" /\ ret' \in {"ok", "err"} /\ UNCHANGED <<op, calls, plan, todo, by>>
    BY <1>1 DEF Result
  <2> QED
    BY <2>1, <2>2 DEF BuilderInv, PlanFits, CloseIsClean, BuildIsUp, Now
<1>2. CASE /\ step' = After[step] /\ UNCHANGED <<op, calls, plan, todo, by, ret>> /\ step # "new"
  <2>1. step \in {"config", "check", "key", "link"}
    BY <1>2 DEF BuilderInv, Kinds
  <2>2. step' = (CASE step = "config" -> "check" [] step = "check" -> "key" [] OTHER -> "none")
    BY <1>2, <2>1 DEF After
  <2>3. step' # "none" => Now("config")
    BY <2>1, <2>2 DEF BuilderInv, StepFits
  <2>4. ret = "none" /\ ret' = "none"
    BY <1>2, InCommand
  <2>5. \A p : Now(p)' <=> Now(p)
    BY <1>2, SamePhase
  <2>6. PlanFits' /\ CloseIsClean' /\ BuildIsUp'
    BY <1>2, <2>4 DEF BuilderInv, PlanFits, CloseIsClean, BuildIsUp
  <2> QED
    BY <1>2, <2>1, <2>2, <2>3, <2>4, <2>5, <2>6
<1>3. CASE End("err")
  BY <1>3, EndFits
<1> QED
  BY <1>1, <1>2, <1>3 DEF Result

\* What a one-off does to the relayer is not what the phases count on.
LEMMA CommandKeeps ==
  ASSUME BuilderInv, step # "none", UNCHANGED <<network, chain, built>>,
         relayer' \in [Relayer -> RelayerKind], spoiled' \in BOOLEAN,
         \A r \in Relayer : /\ relayer'[r].bg = relayer[r].bg
                            /\ relayer'[r].held = relayer[r].held
                            /\ relayer'[r].listed = relayer[r].listed
                            /\ relayer'[r].oneoff # "none" => step' # "none" /\ by' = r,
         ~spoiled' => ~spoiled /\ \A r \in Relayer : relayer'[r].stray = relayer[r].stray,
         UNCHANGED callVars \/ \E ok \in BOOLEAN : Result(ok)
  PROVE  BuilderInv'
<1>1. /\ PlanFits' /\ CloseIsClean' /\ BuildIsUp'
      /\ op' = op /\ calls' = calls /\ by' = by
      /\ ret' \in {"none", "ok", "err"}
      /\ step' \in {"none", "new", "config", "check", "key", "link"}
      /\ step' = "new" => plan' = <<>> /\ op' = "new" /\ ret' = "none"
      /\ step' \in {"config", "check", "key"} => Now("config")'
      /\ step' = "link" => Now("link")'
      /\ (\A p : ~Now(p)') \/ (todo' = todo /\ \A p : Now(p)' <=> Now(p))
  <2>1. CASE UNCHANGED callVars
    <3>1. UNCHANGED <<op, calls, plan, todo, step, by, ret>>
      BY <2>1 DEF callVars
    <3>2. \A p : Now(p)' <=> Now(p)
      BY <3>1, SamePhase
    <3>3. PlanFits' /\ CloseIsClean' /\ BuildIsUp'
      BY <3>1, InCommand DEF BuilderInv, PlanFits, CloseIsClean, BuildIsUp
    <3>4. ret = "none" /\ step \in {"none", "new", "config", "check", "key", "link"}
      BY InCommand DEF BuilderInv, Kinds
    <3>5. /\ step = "new" => plan = <<>> /\ op = "new" /\ ret = "none"
          /\ step \in {"config", "check", "key"} => Now("config")
          /\ step = "link" => Now("link")
      BY DEF BuilderInv, StepFits
    <3> QED
      BY <3>1, <3>2, <3>3, <3>4, <3>5
  <2>2. ASSUME NEW ok \in BOOLEAN, Result(ok)
        PROVE  /\ PlanFits' /\ CloseIsClean' /\ BuildIsUp'
               /\ op' = op /\ calls' = calls /\ by' = by
               /\ ret' \in {"none", "ok", "err"} /\ step' \in {"none", "check", "key"}
               /\ step' # "none" => Now("config")'
               /\ (\A p : ~Now(p)') \/ (todo' = todo /\ \A p : Now(p)' <=> Now(p))
    BY <2>2, ResultFits
  <2> QED
    BY <2>1, <2>2
<1>2. Kinds'
  BY <1>1 DEF BuilderInv, Kinds
<1>3. StepFits'
  BY <1>1 DEF StepFits
<1>4. CountsFit'
  BY <1>1 DEF BuilderInv, CountsFit
<1>5. InReach'
  BY DEF BuilderInv, InReach
<1>6. Closing'
  <2>1. ~Now("stop.relayer")' /\ ~Now("stop.chain")'
    BY <1>1, InCommand
  <2> QED
    BY <2>1 DEF Closing
<1>7. Building'
  <2>1. CASE \A p : ~Now(p)'
    BY <2>1 DEF Building
  <2>2. CASE todo' = todo /\ \A p : Now(p)' <=> Now(p)
    BY <1>1, <2>2, InCommand DEF BuilderInv, Building, ChainUp
  <2> QED
    BY <1>1, <2>1, <2>2
<1> QED
  BY <1>1, <1>2, <1>3, <1>4, <1>5, <1>6, <1>7 DEF BuilderInv

\* The relayer of the command in progress is as it should be.
LEMMA Commander ==
  ASSUME BuilderInv
  PROVE  /\ by \in Relayer /\ relayer \in [Relayer -> RelayerKind] /\ relayer[by] \in RelayerKind
         /\ \A r \in Relayer : r # by => relayer[r].oneoff = "none"
         /\ spoiled \in BOOLEAN
  BY DEF BuilderInv, Kinds, StepFits

LEMMA OneoffCreateKeeps == BuilderInv /\ OneoffCreate => BuilderInv'
<1> SUFFICES ASSUME BuilderInv, OneoffCreate PROVE BuilderInv'
  OBVIOUS
<1>1. step # "none" /\ relayer[by].oneoff = "none" /\ UNCHANGED <<network, chain, built, spoiled>>
  BY DEF OneoffCreate
<1>2. CASE /\ relayer' = [relayer EXCEPT ![by].oneoff = "created", ![by].home = TRUE]
           /\ UNCHANGED <<callVars>>
  <2>1. relayer' \in [Relayer -> RelayerKind]
    BY <1>2, Commander DEF RelayerKind
  <2>2. step' = step /\ by' = by
    BY <1>2 DEF callVars
  <2>3. \A r \in Relayer : /\ relayer'[r].bg = relayer[r].bg
                           /\ relayer'[r].held = relayer[r].held
                           /\ relayer'[r].listed = relayer[r].listed
                           /\ relayer'[r].stray = relayer[r].stray
                           /\ r # by => relayer'[r].oneoff = "none"
    BY <1>2, Commander DEF RelayerKind
  <2> QED
    BY <1>1, <1>2, <2>1, <2>2, <2>3, Commander, CommandKeeps
<1>3. CASE Result(FALSE) /\ UNCHANGED relayer
  BY <1>1, <1>3, Commander, CommandKeeps
<1> QED
  BY <1>2, <1>3 DEF OneoffCreate

LEMMA OneoffStartKeeps == BuilderInv /\ OneoffStart => BuilderInv'
<1> SUFFICES ASSUME BuilderInv, OneoffStart PROVE BuilderInv'
  OBVIOUS
<1>1. step # "none" /\ UNCHANGED <<network, chain, built>>
  BY DEF OneoffStart
<1>2. CASE /\ relayer' = [relayer EXCEPT ![by].oneoff = "running"]
           /\ UNCHANGED <<callVars, spoiled>>
  <2>1. relayer' \in [Relayer -> RelayerKind]
    BY <1>2, Commander DEF RelayerKind
  <2>2. step' = step /\ by' = by /\ spoiled' = spoiled
    BY <1>2 DEF callVars
  <2>3. \A r \in Relayer : /\ relayer'[r].bg = relayer[r].bg
                           /\ relayer'[r].held = relayer[r].held
                           /\ relayer'[r].listed = relayer[r].listed
                           /\ relayer'[r].stray = relayer[r].stray
                           /\ r # by => relayer'[r].oneoff = "none"
    BY <1>2, Commander DEF RelayerKind
  <2>4. UNCHANGED callVars
    BY <1>2
  <2> QED
    BY <1>1, <2>1, <2>2, <2>3, <2>4, Commander, CommandKeeps
<1>3. CASE /\ relayer' = [relayer EXCEPT ![by].oneoff = "none", ![by].stray = @ \cup {"created"}]
           /\ spoiled' = TRUE /\ Result(FALSE)
  <2>1. relayer' \in [Relayer -> RelayerKind]
    BY <1>3, Commander DEF RelayerKind
  <2>2. \A r \in Relayer : /\ relayer'[r].bg = relayer[r].bg
                           /\ relayer'[r].held = relayer[r].held
                           /\ relayer'[r].listed = relayer[r].listed
                           /\ relayer'[r].oneoff = "none"
    BY <1>3, Commander DEF RelayerKind
  <2> QED
    BY <1>1, <1>3, <2>1, <2>2, CommandKeeps
<1> QED
  BY <1>2, <1>3 DEF OneoffStart

LEMMA OneoffEndKeeps == BuilderInv /\ OneoffEnd => BuilderInv'
<1> SUFFICES ASSUME BuilderInv, OneoffEnd PROVE BuilderInv'
  OBVIOUS
<1>1. step # "none" /\ UNCHANGED <<network, chain, built>>
  BY DEF OneoffEnd
<1>2. PICK ok \in BOOLEAN, removed \in BOOLEAN :
        /\ relayer' = [relayer EXCEPT
             ![by].oneoff = "none",
             ![by].stray = IF removed THEN @ ELSE @ \cup {"running"},
             ![by].made = @ \/ (step = "new" /\ ok)]
        /\ spoiled' = (spoiled \/ ~removed)
        /\ Result(ok)
  BY DEF OneoffEnd
<1> DEFINE s == IF removed THEN relayer[by].stray ELSE relayer[by].stray \cup {"running"}
           m == relayer[by].made \/ (step = "new" /\ ok)
           k == [relayer[by] EXCEPT !.oneoff = "none", !.stray = s, !.made = m]
<1>3. relayer' = [relayer EXCEPT ![by] = k]
  BY <1>2, Zenon
<1>4. s \in SUBSET {"created", "running"} /\ m \in BOOLEAN /\ (removed => s = relayer[by].stray)
  BY Commander DEF RelayerKind
<1> HIDE DEF s, m
<1>5. /\ k \in RelayerKind /\ k.oneoff = "none" /\ k.stray = s
      /\ k.bg = relayer[by].bg /\ k.held = relayer[by].held /\ k.listed = relayer[by].listed
  BY <1>4, Commander DEF RelayerKind
<1> HIDE DEF k
<1>6. /\ relayer' \in [Relayer -> RelayerKind]
      /\ \A r \in Relayer : /\ relayer'[r].bg = relayer[r].bg
                            /\ relayer'[r].held = relayer[r].held
                            /\ relayer'[r].listed = relayer[r].listed
                            /\ relayer'[r].oneoff = "none"
                            /\ removed => relayer'[r].stray = relayer[r].stray
  BY <1>3, <1>4, <1>5, Commander
<1>7. spoiled' \in BOOLEAN /\ (~spoiled' => ~spoiled /\ removed)
  BY <1>2, Commander
<1> QED
  BY <1>1, <1>2, <1>6, <1>7, CommandKeeps

LEMMA MakeRelayerKeeps == ASSUME NEW r \in Relayer PROVE BuilderInv /\ MakeRelayer(r) => BuilderInv'
<1> SUFFICES ASSUME BuilderInv, MakeRelayer(r) PROVE BuilderInv'
  OBVIOUS
<1>1. /\ plan = <<>> /\ step = "none" /\ step' = "new" /\ by' = r /\ op' = "new" /\ ret' = "none"
      /\ UNCHANGED <<network, chain, relayer, built, calls, plan, todo, spoiled>>
  BY DEF MakeRelayer, Idle, Command
<1>2. \A p : ~Now(p)'
  BY <1>1 DEF Now
<1>3. Kinds' /\ InReach' /\ PlanFits'
  BY <1>1 DEF BuilderInv, Kinds, InReach, PlanFits
<1>4. StepFits' /\ CountsFit'
  BY <1>1, <1>2 DEF BuilderInv, StepFits, CountsFit
<1>5. Closing' /\ Building' /\ CloseIsClean' /\ BuildIsUp'
  BY <1>1, <1>2 DEF Closing, Building, CloseIsClean, BuildIsUp
<1> QED
  BY <1>3, <1>4, <1>5 DEF BuilderInv

LEMMA ConfigureChainKeeps ==
  ASSUME NEW r \in Relayer, NEW c \in Chain
  PROVE  BuilderInv /\ ConfigureChain(r, c) => BuilderInv'
<1> SUFFICES ASSUME BuilderInv, ConfigureChain(r, c) PROVE BuilderInv'
  OBVIOUS
<1>1. /\ Now("config") /\ <<r, c>> \in todo /\ step = "none" /\ step' = "config" /\ by' = r
      /\ todo' = todo \ {<<r, c>>}
      /\ UNCHANGED <<network, chain, built, spoiled, op, calls, plan, ret>>
      /\ relayer' = [relayer EXCEPT ![r].listed[c] = @ + 1]
  BY DEF ConfigureChain, At, Now, Command, Begun
<1>2. /\ op # "close" /\ ret = "none" /\ \A p : Now(p) => p = "config"
  BY <1>1, InPhase, NowIsOne
<1>3. \A p : Now(p)' <=> Now(p)
  BY <1>1, SamePhase
<1>4. /\ relayer \in [Relayer -> RelayerKind] /\ relayer[r] \in RelayerKind
      /\ relayer[r].listed \in [Chain -> Nat] /\ relayer[r].listed[c] \in Nat
  BY DEF BuilderInv, Kinds, RelayerKind
<1> DEFINE l == [relayer[r].listed EXCEPT ![c] = @ + 1]
           k == [relayer[r] EXCEPT !.listed = l]
<1>5. relayer' = [relayer EXCEPT ![r] = k]
  BY <1>1, Zenon
<1>6. /\ l \in [Chain -> Nat] /\ l[c] = relayer[r].listed[c] + 1
      /\ \A d \in Chain : d # c => l[d] = relayer[r].listed[d]
  BY <1>4
<1> HIDE DEF l
<1>7. /\ k \in RelayerKind /\ k.listed = l /\ k.bg = relayer[r].bg /\ k.held = relayer[r].held
      /\ k.stray = relayer[r].stray /\ k.oneoff = relayer[r].oneoff
  BY <1>4, <1>6 DEF RelayerKind
<1> HIDE DEF k
<1>8. /\ relayer' \in [Relayer -> RelayerKind]
      /\ \A q \in Relayer : /\ q # r => relayer'[q] = relayer[q]
                            /\ relayer'[q].bg = relayer[q].bg
                            /\ relayer'[q].held = relayer[q].held
                            /\ relayer'[q].stray = relayer[q].stray
                            /\ relayer'[q].oneoff = relayer[q].oneoff
      /\ relayer'[r].listed = l
  BY <1>4, <1>5, <1>7
<1>9. Kinds' /\ InReach'
  BY <1>1, <1>8 DEF BuilderInv, Kinds, InReach
<1>10. PlanFits' /\ CloseIsClean' /\ BuildIsUp'
  BY <1>1, <1>2 DEF BuilderInv, PlanFits, CloseIsClean, BuildIsUp
<1>11. StepFits'
  BY <1>1, <1>3, <1>8 DEF BuilderInv, StepFits
<1>12. CountsFit'
  <2>1. ASSUME NEW q \in Relayer, NEW d \in Chain
        PROVE  /\ relayer'[q].listed[d] <= calls
               /\ <<q, d>> \in todo' => relayer'[q].listed[d] < calls
    <3>1. calls \in Nat
      BY BoundIs DEF BuilderInv, Kinds
    <3>2. CASE q = r /\ d = c
      <4>1. relayer[r].listed[c] < calls
        BY <1>1 DEF BuilderInv, CountsFit
      <4>2. relayer'[q].listed[d] <= calls
        BY <1>4, <1>6, <1>8, <3>1, <3>2, <4>1
      <4> QED
        BY <1>1, <3>2, <4>2
    <3>3. CASE q = r /\ d # c
      <4>1. relayer'[q].listed[d] = relayer[q].listed[d]
        BY <1>6, <1>8, <3>3
      <4> QED
        BY <1>1, <4>1 DEF BuilderInv, CountsFit
    <3>4. CASE q # r
      <4>1. relayer'[q] = relayer[q]
        BY <1>8, <3>4
      <4> QED
        BY <1>1, <4>1 DEF BuilderInv, CountsFit
    <3> QED
      BY <3>2, <3>3, <3>4
  <2>2. ~Now("init")' /\ ~Now("start")'
    BY <1>2, <1>3
  <2> QED
    BY <1>1, <2>1, <2>2 DEF BuilderInv, CountsFit
<1>13. Closing' /\ Building'
  BY <1>1, <1>2, <1>3 DEF BuilderInv, Closing, Building, ChainUp
<1> QED
  BY <1>9, <1>10, <1>11, <1>12, <1>13 DEF BuilderInv

LEMMA LinkPathKeeps == ASSUME NEW i \in DOMAIN Links PROVE BuilderInv /\ LinkPath(i) => BuilderInv'
<1> SUFFICES ASSUME BuilderInv, LinkPath(i) PROVE BuilderInv'
  OBVIOUS
<1>1. /\ Now("link") /\ step = "none" /\ step' = "link" /\ by' \in Relayer
      /\ todo' = todo \ {i}
      /\ UNCHANGED <<network, chain, relayer, built, spoiled, op, calls, plan, ret>>
  BY LinksAre DEF LinkPath, At, Now, Command, Begun
<1>2. /\ ret = "none" /\ \A p : Now(p) => p = "link"
  BY <1>1, InPhase, NowIsOne
<1>3. \A p : Now(p)' <=> Now(p)
  BY <1>1, SamePhase
<1>4. Kinds' /\ InReach'
  BY <1>1 DEF BuilderInv, Kinds, InReach
<1>5. PlanFits' /\ CloseIsClean' /\ BuildIsUp'
  BY <1>1, <1>2 DEF BuilderInv, PlanFits, CloseIsClean, BuildIsUp
<1>6. StepFits' /\ CountsFit'
  BY <1>1, <1>2, <1>3 DEF BuilderInv, StepFits, CountsFit
<1>7. Closing' /\ Building'
  BY <1>1, <1>2, <1>3 DEF BuilderInv, Closing, Building, ChainUp
<1> QED
  BY <1>4, <1>5, <1>6, <1>7 DEF BuilderInv

-----------------------------------------------------------------------------
(* The relaying containers, and a call that is given up.                   *)

LEMMA RunRelayerKeeps == ASSUME NEW r \in Relayer PROVE BuilderInv /\ RunRelayer(r) => BuilderInv'
<1> SUFFICES ASSUME BuilderInv, RunRelayer(r) PROVE BuilderInv'
  OBVIOUS
<1>1. Now("run") /\ r \in todo /\ step = "none" /\ UNCHANGED <<network, chain, built>>
  BY DEF RunRelayer, At, Now
<1>2. /\ op # "close" /\ \A p : Now(p) => p = "run"
  BY <1>1, InPhase, NowIsOne
<1>3. CASE /\ network /\ Done(r) /\ UNCHANGED spoiled
           /\ relayer' = [relayer EXCEPT ![r].bg = "running", ![r].held = TRUE, ![r].home = TRUE]
  <2>1. /\ relayer' \in [Relayer -> RelayerKind]
        /\ \A q \in Relayer : /\ q # r => relayer'[q] = relayer[q]
                              /\ relayer'[q].listed = relayer[q].listed
                              /\ relayer'[q].stray = relayer[q].stray
                              /\ relayer'[q].oneoff = relayer[q].oneoff
        /\ relayer'[r].bg = "running" /\ relayer'[r].held
    BY <1>3, Commander DEF RelayerKind
  <2>2. Kinds' /\ StepFits' /\ CountsFit'
    BY <1>1, <1>3, <2>1, DoneFits DEF BuilderInv, Kinds, StepFits, CountsFit
  <2>3. InReach'
    BY <1>1, <1>3, <2>1 DEF BuilderInv, InReach
  <2>4. Closing' /\ Building'
    BY <1>1, <1>2, <1>3, <2>1, DoneFits DEF BuilderInv, Closing, Building, ChainUp, RelayerUp
  <2> QED
    BY <1>1, <1>3, <2>2, <2>3, <2>4, DoneFits DEF BuilderInv
<1>4. CASE /\ End("err") /\ spoiled' = TRUE
           /\ relayer' = [relayer EXCEPT ![r].bg = "created", ![r].home = TRUE]
  <2>1. /\ relayer' \in [Relayer -> RelayerKind]
        /\ \A q \in Relayer : /\ relayer'[q].listed = relayer[q].listed
                              /\ relayer'[q].oneoff = relayer[q].oneoff
    BY <1>4, Commander DEF RelayerKind
  <2>2. Kinds' /\ StepFits'
    BY <1>1, <1>4, <2>1, EndFits DEF BuilderInv, Kinds, StepFits
  <2>3. InReach' /\ CountsFit'
    BY <1>1, <1>4, <2>1, EndFits, CountsKept DEF InReach
  <2> QED
    BY <1>4, <2>2, <2>3, EndFits DEF BuilderInv
<1>5. CASE End("err") /\ UNCHANGED <<relayer, spoiled>>
  <2>1. Kinds' /\ InReach' /\ StepFits' /\ CountsFit'
    BY <1>1, <1>5, EndFits, CountsKept DEF BuilderInv, Kinds, InReach, StepFits
  <2> QED
    BY <1>5, <2>1, EndFits DEF BuilderInv
<1> QED
  BY <1>3, <1>4, <1>5 DEF RunRelayer

LEMMA RelayerExitsKeeps == ASSUME NEW r \in Relayer PROVE BuilderInv /\ RelayerExits(r) => BuilderInv'
<1> SUFFICES ASSUME BuilderInv, RelayerExits(r) PROVE BuilderInv'
  OBVIOUS
<1>1. /\ relayer[r].bg = "running" /\ relayer' = [relayer EXCEPT ![r].bg = "exited"]
      /\ UNCHANGED <<network, chain, built, op, calls, plan, todo, step, by, ret, spoiled>>
  BY DEF RelayerExits, callVars
<1>2. /\ relayer' \in [Relayer -> RelayerKind]
      /\ \A q \in Relayer : /\ relayer'[q].listed = relayer[q].listed
                            /\ relayer'[q].stray = relayer[q].stray
                            /\ relayer'[q].oneoff = relayer[q].oneoff
                            /\ relayer'[q].held = relayer[q].held
                            /\ relayer'[q].home = relayer[q].home
                            /\ q # r => relayer'[q].bg = relayer[q].bg
      /\ relayer'[r].bg = "exited"
  <2> DEFINE k == [relayer[r] EXCEPT !.bg = "exited"]
  <2>1. relayer' = [relayer EXCEPT ![r] = k] /\ relayer[r] \in RelayerKind
    BY <1>1, Commander, Zenon
  <2>2. /\ k \in RelayerKind /\ k.bg = "exited" /\ k.listed = relayer[r].listed
        /\ k.stray = relayer[r].stray /\ k.oneoff = relayer[r].oneoff
        /\ k.held = relayer[r].held /\ k.home = relayer[r].home
    BY <2>1 DEF RelayerKind
  <2> HIDE DEF k
  <2> QED
    BY <2>1, <2>2, Commander
<1>3. \A p : Now(p)' <=> Now(p)
  BY <1>1, SamePhase
<1>4. Kinds' /\ PlanFits' /\ StepFits' /\ CountsFit'
  BY <1>1, <1>2, <1>3 DEF BuilderInv, Kinds, PlanFits, StepFits, CountsFit
<1>5. InReach' /\ Closing' /\ CloseIsClean'
  BY <1>1, <1>2, <1>3 DEF BuilderInv, InReach, Closing, CloseIsClean, RelayerGone, ChainGone
<1>6. Building' /\ BuildIsUp'
  BY <1>1, <1>2, <1>3 DEF BuilderInv, Building, BuildIsUp, ChainUp, RelayerUp
<1> QED
  BY <1>4, <1>5, <1>6 DEF BuilderInv

LEMMA StopRelayerKeeps == ASSUME NEW r \in Relayer PROVE BuilderInv /\ StopRelayer(r) => BuilderInv'
<1> SUFFICES ASSUME BuilderInv, StopRelayer(r) PROVE BuilderInv'
  OBVIOUS
<1>1. /\ Now("stop.relayer") /\ r \in todo /\ step = "none" /\ Done(r)
      /\ UNCHANGED <<network, chain, built>>
  BY DEF StopRelayer, At, Now
<1>2. /\ op = "close" /\ \A p : Now(p) => p = "stop.relayer"
  BY <1>1, InPhase, NowIsOne
<1>3. relayer[r] \in RelayerKind
  BY DEF BuilderInv, Kinds
<1>4. PICK b \in (IF relayer[r].held THEN {relayer[r].bg, "none"} ELSE {relayer[r].bg}),
           h \in {relayer[r].home, FALSE} :
        /\ relayer' = [relayer EXCEPT ![r].bg = b, ![r].held = FALSE, ![r].home = h]
        /\ spoiled' = (spoiled \/ b # "none" \/ h)
  BY DEF StopRelayer
<1>5. b \in {"none", "created", "running", "exited"} /\ h \in BOOLEAN
  BY <1>3, <1>4 DEF RelayerKind
<1> DEFINE k == [relayer[r] EXCEPT !.bg = b, !.held = FALSE, !.home = h]
<1>6. relayer' = [relayer EXCEPT ![r] = k]
  BY <1>4, Zenon
<1>7. /\ k \in RelayerKind /\ k.bg = b /\ k.home = h /\ k.listed = relayer[r].listed
      /\ k.stray = relayer[r].stray /\ k.oneoff = relayer[r].oneoff
  BY <1>3, <1>5 DEF RelayerKind
<1> HIDE DEF k
<1>8. /\ relayer' \in [Relayer -> RelayerKind]
      /\ \A q \in Relayer : /\ q # r => relayer'[q] = relayer[q]
                            /\ relayer'[q].listed = relayer[q].listed
                            /\ relayer'[q].stray = relayer[q].stray
                            /\ relayer'[q].oneoff = relayer[q].oneoff
      /\ relayer'[r].bg = b /\ relayer'[r].home = h
  BY <1>6, <1>7, Commander
<1>9. spoiled' \in BOOLEAN /\ (~spoiled' => ~spoiled /\ b = "none" /\ ~h)
  BY <1>4, <1>5, Commander
<1>10. Kinds' /\ StepFits' /\ CountsFit'
  BY <1>1, <1>2, <1>8, <1>9, DoneFits DEF BuilderInv, Kinds, StepFits, CountsFit
<1>11. InReach'
  BY <1>1, <1>8, <1>9 DEF BuilderInv, InReach
<1>12. Closing' /\ Building'
  BY <1>1, <1>2, <1>8, <1>9, DoneFits DEF BuilderInv, Closing, Building, InReach, RelayerGone
<1> QED
  BY <1>1, <1>10, <1>11, <1>12, DoneFits DEF BuilderInv

LEMMA CancelKeeps == BuilderInv /\ Cancel => BuilderInv'
<1> SUFFICES ASSUME BuilderInv, Cancel PROVE BuilderInv'
  OBVIOUS
<1>1. End("cancelled") /\ UNCHANGED <<network, chain, built>>
  BY DEF Cancel
<1>2. CASE /\ spoiled' = TRUE
           /\ relayer' = [relayer EXCEPT ![by].oneoff = "none", ![by].stray = @ \cup {relayer[by].oneoff}]
           /\ relayer[by].oneoff # "none"
  <2>1. relayer[by].oneoff \in {"created", "running"}
    BY <1>2, Commander DEF RelayerKind
  <2>2. /\ relayer' \in [Relayer -> RelayerKind]
        /\ \A q \in Relayer : /\ relayer'[q].listed = relayer[q].listed
                              /\ relayer'[q].oneoff = "none"
    BY <1>2, <2>1, Commander DEF RelayerKind
  <2>3. Kinds' /\ StepFits'
    BY <1>1, <1>2, <2>2, EndFits DEF BuilderInv, Kinds, StepFits
  <2>4. InReach' /\ CountsFit'
    BY <1>1, <1>2, <2>2, EndFits, CountsKept DEF InReach
  <2> QED
    BY <1>1, <2>3, <2>4, EndFits DEF BuilderInv
<1>3. CASE /\ step = "none" \/ relayer[by].oneoff = "none"
           /\ UNCHANGED <<relayer, spoiled>>
  <2>1. \A r \in Relayer : relayer[r].oneoff = "none"
    BY <1>3 DEF BuilderInv, StepFits
  <2>2. Kinds' /\ InReach' /\ StepFits' /\ CountsFit'
    BY <1>1, <1>3, <2>1, EndFits, CountsKept DEF BuilderInv, Kinds, InReach, StepFits
  <2> QED
    BY <1>1, <2>2, EndFits DEF BuilderInv
<1> QED
  BY <1>2, <1>3 DEF Cancel

-----------------------------------------------------------------------------

LEMMA BuilderStutters == BuilderInv /\ UNCHANGED vars => BuilderInv'
<1> SUFFICES ASSUME BuilderInv, UNCHANGED vars PROVE BuilderInv'
  OBVIOUS
<1>1. UNCHANGED <<network, chain, relayer, built, op, calls, plan, todo, step, by, ret, spoiled>>
  BY DEF vars, callVars
<1>2. \A p : Now(p)' <=> Now(p)
  BY <1>1, SamePhase
<1>3. Kinds' /\ InReach' /\ PlanFits' /\ StepFits' /\ CountsFit'
  BY <1>1, <1>2 DEF BuilderInv, Kinds, InReach, PlanFits, StepFits, CountsFit
<1>4. Closing' /\ Building' /\ CloseIsClean' /\ BuildIsUp'
  BY <1>1, <1>2 DEF BuilderInv, Closing, Building, RelayerGone, ChainGone, RelayerUp, ChainUp,
     CloseIsClean, BuildIsUp
<1> QED
  BY <1>3, <1>4 DEF BuilderInv

LEMMA BuilderKept == BuilderInv /\ [Next]_vars => BuilderInv'
<1> SUFFICES ASSUME BuilderInv, [Next]_vars PROVE BuilderInv'
  OBVIOUS
<1>1. CASE Step
  <2>1. CASE \E c \in Chain : InitChain(c) \/ StartChain(c) \/ StopChain(c)
    BY <2>1, InitChainKeeps, StartChainKeeps, StopChainKeeps
  <2>2. CASE \E p \in Pairs : ConfigureChain(p[1], p[2])
    BY <2>2, LinksAre, ConfigureChainKeeps
  <2>3. CASE \E i \in DOMAIN Links : LinkPath(i)
    BY <2>3, LinkPathKeeps
  <2>4. CASE \E r \in Relayer : RunRelayer(r) \/ StopRelayer(r)
    BY <2>4, RunRelayerKeeps, StopRelayerKeeps
  <2> QED
    BY <1>1, <2>1, <2>2, <2>3, <2>4, NextPhaseKeeps, CallEndsKeeps, OneoffCreateKeeps,
       OneoffStartKeeps, OneoffEndKeeps DEF Step
<1>2. CASE \E o \in Op : Call(o)
  BY <1>2, CallKeeps
<1>3. CASE \E r \in Relayer : MakeRelayer(r) \/ RelayerExits(r)
  BY <1>3, MakeRelayerKeeps, RelayerExitsKeeps
<1> QED
  BY <1>1, <1>2, <1>3, CancelKeeps, StopCutKeeps, MarkBuiltKeeps, BuilderStutters DEF Next

LEMMA BuilderHolds == Spec => []BuilderInv
  BY BuilderInit, BuilderKept, PTL DEF Spec

-----------------------------------------------------------------------------
(* The example programs.                                                   *)

Segments == AllPrograms[prog].segs

\* How a program ends: with Ok when nothing was recorded, and only then.
EndsFit ==
  /\ progRet = "ok" => seg = Len(Segments) + 1
  /\ progRet = "panic" => seg = Len(Segments) + 1
  /\ shut => seg >= Len(Segments)

\* A step that a program passed, and that a goal can be seen from, has seen it.
SeenSoFar ==
  progRet \in {"none", "ok"} =>
    \A f, g, l, i :
      /\ g \in DOMAIN Segments /\ l \in DOMAIN Segments[g] /\ i \in DOMAIN Segments[g][l]
      /\ Prog!ShownAt(prog, f, g, l, i)
      /\ g < seg \/ (g = seg /\ i < at[l])
      => f \in facts

\* What lasts was made by a step of the program, not by one in a block.
LastingIsMade ==
  prog \notin Prog!Untidy =>
    /\ \A f \in facts : Prog!Lasts(f) => \E s \in Prog!StepsOf(prog) : f \in s.give
    /\ \A q \in pend : ~Prog!Lasts(q.fact)

\* In the shutdown, the removal of what is there still comes.
RemovalAhead ==
  prog \notin Prog!Untidy /\ shut /\ ~slipped /\ progRet # "panic" =>
    /\ seg = Len(Segments) =>
         \A f \in facts : \A i : Prog!Lasts(f) /\ Prog!Removes(prog, f, i) => at[1] <= i
    /\ seg # Len(Segments) => \A f \in facts : ~Prog!Lasts(f)

ProgInv ==
  /\ Prog!TypeOK /\ EndsFit /\ SeenSoFar /\ LastingIsMade /\ RemovalAhead

LEMMA ProgramFits ==
  ASSUME Prog!TypeOK
  PROVE  /\ Len(Segments) \in Nat /\ DOMAIN Segments = 1 .. Len(Segments)
         /\ \A g \in DOMAIN Segments : \A l \in DOMAIN Segments[g] :
              /\ l \in 1 .. 2 /\ Len(Segments[g][l]) \in Nat
              /\ DOMAIN Segments[g][l] = 1 .. Len(Segments[g][l])
              /\ \A i \in DOMAIN Segments[g][l] :
                   Segments[g][l][i].skip \in Nat /\ Segments[g][l][i] \in Prog!StepsOf(prog)
         /\ seg \in 1 .. Len(Segments) + 1 /\ at \in [1 .. 2 -> Nat \ {0}]
<1>1. prog \in DOMAIN AllPrograms /\ seg \in 1 .. Len(Segments) + 1 /\ at \in [1 .. 2 -> Nat \ {0}]
  BY DEF Prog!TypeOK, Prog!Ended, Prog!Segs, Segments
<1>2. Prog!WellFormed(prog)
  BY <1>1, CatalogueAssumption
<1>3. ASSUME NEW g \in DOMAIN Segments, NEW l \in DOMAIN Segments[g], NEW i \in DOMAIN Segments[g][l]
      PROVE  Segments[g][l][i] \in Prog!StepsOf(prog)
  BY <1>3 DEF Prog!StepsOf, Segments
<1> QED
  BY <1>1, <1>2, <1>3 DEF Prog!WellFormed, Segments

\* The step of a lane that is busy.
LEMMA BusyLane ==
  ASSUME Prog!TypeOK, NEW l \in 1 .. 2, Prog!Busy(l)
  PROVE  /\ seg \in DOMAIN Segments /\ l \in DOMAIN Segments[seg] /\ at[l] \in DOMAIN Segments[seg][l]
         /\ Prog!Here(l) = Segments[seg][l][at[l]] /\ Prog!Here(l) \in Prog!StepsOf(prog)
         /\ seg <= Len(Segments) /\ at[l] <= Len(Segments[seg][l])
<1>1. /\ seg < Len(Segments) + 1 /\ l \in DOMAIN Segments[seg] /\ at[l] <= Len(Segments[seg][l])
  BY DEF Prog!Busy, Prog!Ended, Prog!Lanes, Prog!Segs, Segments
<1>2. seg \in 1 .. Len(Segments) /\ at[l] \in 1 .. Len(Segments[seg][l])
  BY <1>1, ProgramFits
<1> QED
  BY <1>1, <1>2, ProgramFits DEF Prog!Here, Prog!Segs, Segments

LEMMA SameProgram ==
  ASSUME prog' = prog
  PROVE  /\ Segments' = Segments /\ Prog!StepsOf(prog)' = Prog!StepsOf(prog)
         /\ \A f, g, l, i : Prog!ShownAt(prog, f, g, l, i)' <=> Prog!ShownAt(prog, f, g, l, i)
         /\ \A f, i : Prog!Removes(prog, f, i)' <=> Prog!Removes(prog, f, i)
<1>1. Segments' = Segments
  BY DEF Segments
<1>2. Prog!StepsOf(prog)' = Prog!StepsOf(prog)
  OBVIOUS
<1>3. \A f, g, l, i : Prog!ShownAt(prog, f, g, l, i)' <=> Prog!ShownAt(prog, f, g, l, i)
  OBVIOUS
<1>4. \A f, i : Prog!Removes(prog, f, i)' <=> Prog!Removes(prog, f, i)
  OBVIOUS
<1> QED
  BY <1>1, <1>2, <1>3, <1>4

-----------------------------------------------------------------------------

LEMMA ProgInit == Prog!Init => ProgInv
<1> SUFFICES ASSUME Prog!Init PROVE ProgInv
  OBVIOUS
<1>1. prog \in DOMAIN AllPrograms
  BY DEF Prog!Init
<1>2. Len(Segments) \in Nat
  BY <1>1, CatalogueAssumption DEF Prog!WellFormed, Segments
<1>3. Prog!TypeOK
  <2>1. seg \in 1 .. Prog!Ended
    BY <1>2 DEF Prog!Init, Prog!Ended, Prog!Segs, Segments
  <2>2. at \in [1 .. 2 -> Nat \ {0}]
    BY DEF Prog!Init
  <2> QED
    BY <2>1, <2>2 DEF Prog!Init, Prog!TypeOK
<1>4. EndsFit /\ LastingIsMade /\ RemovalAhead
  BY DEF Prog!Init, EndsFit, LastingIsMade, RemovalAhead
<1>5. SeenSoFar
  BY <1>3, ProgramFits DEF Prog!Init, SeenSoFar
<1> QED
  BY <1>3, <1>4, <1>5 DEF ProgInv

\* What a failure comes to.
LEMMA Consequences ==
  ASSUME Prog!TypeOK, NEW l \in 1 .. 2, Prog!Busy(l), Prog!Consequence(l)
  PROVE  /\ seg' \in 1 .. Len(Segments) + 1 /\ seg' >= seg /\ at' \in [1 .. 2 -> Nat \ {0}]
         /\ progRet' \in {"none", "ok", "fail", "err", "panic"}
         /\ \/ /\ Prog!Here(l).fail = "on" /\ progRet' = progRet /\ seg' = seg
               /\ at' = [at EXCEPT ![l] = @ + 1 + Prog!Here(l).skip]
            \/ /\ progRet' \in {"fail", "err"} /\ seg' = seg
               /\ Prog!Here(l).fail = "note" => at' = [at EXCEPT ![l] = @ + 1]
               /\ Prog!Here(l).fail \in {"note", "err", "gate"}
            \/ progRet' = "panic" /\ seg' = Len(Segments) + 1
<1> DEFINE s == Prog!Here(l)
           n == Len(Segments[seg][l])
<1>1. /\ s.skip \in Nat /\ n \in Nat /\ at[l] \in Nat \ {0} /\ at \in [1 .. 2 -> Nat \ {0}]
      /\ seg \in 1 .. Len(Segments) + 1 /\ Len(Segments) \in Nat
  BY BusyLane, ProgramFits
<1>2. progRet \in {"none", "ok", "fail", "err", "panic"}
  BY DEF Prog!TypeOK
<1>3. CASE s.fail = "on" /\ at' = [at EXCEPT ![l] = @ + 1 + s.skip] /\ UNCHANGED <<seg, progRet>>
  BY <1>1, <1>2, <1>3
<1>4. CASE s.fail = "note" /\ Prog!Advance(l) /\ progRet' = "fail" /\ UNCHANGED seg
  BY <1>1, <1>4 DEF Prog!Advance
<1>5. CASE /\ s.fail \in {"gate", "err"} /\ at' = [at EXCEPT ![l] = n + 1]
           /\ progRet' \in {"fail", "err"} /\ UNCHANGED seg
  BY <1>1, <1>5
<1>6. CASE seg' = Prog!Ended /\ progRet' = "panic" /\ UNCHANGED at
  BY <1>1, <1>6 DEF Prog!Ended, Prog!Segs, Segments
<1>7. n = Len(Prog!Segs[seg][l])
  BY DEF Prog!Segs, Segments
<1> QED
  BY <1>3, <1>4, <1>5, <1>6, <1>7 DEF Prog!Consequence

\* What was seen stays seen as a lane goes on, unless a step takes it away.
LEMMA SeenStays ==
  ASSUME ProgInv, NEW l \in 1 .. 2, Prog!Busy(l), prog' = prog, seg' = seg,
         progRet' = progRet, NEW m \in Nat \ {0}, at' = [at EXCEPT ![l] = m],
         \A f \in facts : f \in facts' \/ f \in Prog!Here(l).drop,
         \A f, i : /\ i \in DOMAIN Segments[seg][l] /\ at[l] <= i /\ i < m
                   /\ Prog!ShownAt(prog, f, seg, l, i)
                   => f \in facts'
  PROVE  SeenSoFar'
<1> SUFFICES ASSUME progRet \in {"none", "ok"},
                    NEW f, NEW g, NEW k, NEW i,
                    g \in DOMAIN Segments, k \in DOMAIN Segments[g], i \in DOMAIN Segments[g][k],
                    Prog!ShownAt(prog, f, g, k, i),
                    g < seg \/ (g = seg /\ i < at'[k])
             PROVE  f \in facts'
  BY SameProgram DEF SeenSoFar
<1>1. Prog!TypeOK
  BY DEF ProgInv
<1>2. /\ seg \in 1 .. Len(Segments) /\ Len(Segments) \in Nat /\ at \in [1 .. 2 -> Nat \ {0}]
      /\ g \in Nat /\ i \in Nat /\ k \in 1 .. 2
      /\ l \in DOMAIN Segments[seg] /\ at[l] \in DOMAIN Segments[seg][l]
      /\ Prog!Here(l) = Segments[seg][l][at[l]]
  BY <1>1, ProgramFits, BusyLane
<1>3. CASE g < seg \/ (g = seg /\ i < at[k])
  <2>1. f \in facts
    BY <1>3 DEF ProgInv, SeenSoFar
  <2>2. seg \in g .. Len(Segments) /\ (seg > g \/ l # k \/ at[l] > i)
    BY <1>2, <1>3
  <2>3. f \notin Prog!Here(l).drop
    BY <1>2, <2>2 DEF Prog!ShownAt, Segments
  <2> QED
    BY <2>1, <2>3
<1>4. CASE g = seg /\ ~(i < at[k])
  <2>1. k = l /\ i < m /\ at[l] <= i
    BY <1>2, <1>4
  <2> QED
    BY <1>4, <2>1
<1> QED
  BY <1>2, <1>3, <1>4

\* What lasts and was not removed has its removal still to come.
LEMMA RemovalStays ==
  ASSUME ProgInv, NEW l \in 1 .. 2, Prog!Busy(l), prog' = prog, seg' = seg, shut' = shut,
         slipped => slipped',
         Prog!Here(l).fail \notin {"err", "gate"} /\ Prog!Here(l).skip = 0
           => at' = [at EXCEPT ![l] = @ + 1],
         \A f \in facts' : f \in facts \/ f \in Prog!Here(l).give,
         ~slipped' => \A f \in facts : Prog!Lasts(f) /\ Prog!Removes(prog, f, at[1]) => f \notin facts'
  PROVE  RemovalAhead'
<1> SUFFICES ASSUME prog \notin Prog!Untidy, shut, ~slipped', progRet' # "panic"
             PROVE  /\ seg = Len(Segments)
                    /\ \A f \in facts' : \A i : Prog!Lasts(f) /\ Prog!Removes(prog, f, i) => at'[1] <= i
  BY SameProgram DEF RemovalAhead
<1>1. Prog!TypeOK /\ Prog!Tidy(prog)
  BY CatalogueAssumption DEF ProgInv, Prog!TypeOK
<1>2. /\ seg \in 1 .. Len(Segments) /\ Len(Segments) \in Nat /\ at \in [1 .. 2 -> Nat \ {0}]
      /\ l \in DOMAIN Segments[seg] /\ at[l] \in DOMAIN Segments[seg][l]
      /\ Prog!Here(l) = Segments[seg][l][at[l]]
      /\ DOMAIN Segments[seg][l] = 1 .. Len(Segments[seg][l]) /\ Len(Segments[seg][l]) \in Nat
  BY <1>1, ProgramFits, BusyLane
<1>3. seg = Len(Segments)
  BY <1>2 DEF ProgInv, EndsFit
<1>4. l = 1
  BY <1>1, <1>2, <1>3 DEF Prog!Tidy, Segments
<1>5. Prog!Shutdown(prog) = Segments[seg][1] /\ Prog!Here(1) = Prog!Shutdown(prog)[at[1]]
  BY <1>2, <1>3, <1>4 DEF Prog!Shutdown, Segments
<1>6. Prog!Here(1).fail \notin {"err", "gate"} /\ Prog!Here(1).skip = 0
  BY <1>1, <1>2, <1>4, <1>5 DEF Prog!Tidy
<1>7. at'[1] = at[1] + 1 /\ at[1] \in Nat
  BY <1>2, <1>4, <1>6
<1>8. progRet # "panic"
  BY <1>2, <1>3 DEF ProgInv, EndsFit
<1>9. ASSUME NEW f \in facts', NEW i, Prog!Lasts(f), Prog!Removes(prog, f, i)
      PROVE  at'[1] <= i
  <2>1. /\ i \in DOMAIN Prog!Shutdown(prog)
        /\ \A j \in i .. Len(Prog!Shutdown(prog)) : f \notin Prog!Shutdown(prog)[j].give
    BY <1>9 DEF Prog!Removes, Prog!Drops
  <2>2. i \in Nat
    BY <1>2, <1>4, <1>5, <2>1
  <2>3. CASE f \in facts
    <3>1. at[1] <= i
      BY <1>3, <1>8, <1>9, <2>3 DEF ProgInv, RemovalAhead
    <3>2. at[1] # i
      BY <1>9, <2>3
    <3> QED
      BY <1>7, <2>2, <3>1, <3>2
  <2>4. CASE f \in Prog!Here(1).give
    <3>1. ~(at[1] \in i .. Len(Prog!Shutdown(prog)))
      BY <1>5, <2>1, <2>4
    <3>2. at[1] <= Len(Prog!Shutdown(prog)) /\ Len(Prog!Shutdown(prog)) \in Nat
      BY <1>2, <1>4, <1>5
    <3> QED
      BY <1>7, <2>2, <3>1, <3>2
  <2> QED
    BY <1>4, <2>3, <2>4
<1> QED
  BY <1>3, <1>9

\* A removal that is passed removes: of the network, because the rest is gone.
LEMMA PassRemoves ==
  ASSUME ProgInv, prog \notin Prog!Untidy, shut, ~slipped, Prog!Busy(1),
         Prog!Here(1) = Prog!Shutdown(prog)[at[1]],
         NEW f \in facts, Prog!Lasts(f), Prog!Removes(prog, f, at[1])
  PROVE  f \notin Prog!Without(Prog!Here(1).drop) \cup Prog!Here(1).give
<1> DEFINE s == Prog!Here(1)
           left == facts \ s.drop
<1>1. /\ Prog!TypeOK /\ seg = Len(Segments) /\ progRet # "panic"
      /\ at[1] \in 1 .. Len(Prog!Shutdown(prog)) /\ Len(Prog!Shutdown(prog)) \in Nat
  <2>1. Prog!TypeOK
    BY DEF ProgInv
  <2>2. /\ seg \in 1 .. Len(Segments) /\ Len(Segments) \in Nat /\ 1 \in DOMAIN Segments[seg]
        /\ at[1] \in DOMAIN Segments[seg][1] /\ Len(Segments[seg][1]) \in Nat
        /\ DOMAIN Segments[seg][1] = 1 .. Len(Segments[seg][1])
    BY <2>1, ProgramFits, BusyLane
  <2>3. seg = Len(Segments) /\ progRet # "panic"
    BY <2>2 DEF ProgInv, EndsFit
  <2>4. Prog!Shutdown(prog) = Segments[seg][1]
    BY <2>3 DEF Prog!Shutdown, Segments
  <2> QED
    BY <2>1, <2>2, <2>3, <2>4
<1>2. f \in s.drop /\ f \notin s.give
  <2>1. /\ f \in Prog!Shutdown(prog)[at[1]].drop
        /\ \A j \in at[1] .. Len(Prog!Shutdown(prog)) : f \notin Prog!Shutdown(prog)[j].give
    BY DEF Prog!Removes, Prog!Drops
  <2>2. at[1] \in at[1] .. Len(Prog!Shutdown(prog))
    BY <1>1
  <2> QED
    BY <2>1, <2>2
<1>3. CASE f # Prog!Net
  BY <1>2, <1>3 DEF Prog!Without
<1>4. CASE f = Prog!Net
  <2>1. ASSUME NEW h \in left, h[1] \in {"box", "relaying"}
        PROVE  FALSE
    <3>1. h \in facts /\ Prog!Lasts(h) /\ h # Prog!Net
      BY <2>1 DEF Prog!Lasts, Prog!Net
    <3>2. h \in UNION {z.give : z \in Prog!StepsOf(prog)}
      BY <3>1 DEF ProgInv, LastingIsMade
    <3>3. PICK k \in 1 .. at[1] : Prog!Drops(prog, h, k)
      BY <1>4, <2>1, <3>2 DEF Prog!Removes
    <3>4. Prog!Removes(prog, h, k)
      BY <3>1, <3>3 DEF Prog!Removes
    <3>5. at[1] <= k
      BY <1>1, <3>1, <3>4 DEF ProgInv, RemovalAhead
    <3>6. k = at[1]
      BY <1>1, <3>3, <3>5
    <3>7. h \in s.drop
      BY <3>3, <3>6 DEF Prog!Drops
    <3> QED
      BY <2>1, <3>7
  <2> QED
    BY <1>2, <2>1 DEF Prog!Without
<1> QED
  BY <1>3, <1>4

\* What lasts is given by the steps that are taken.
LEMMA MadeStays ==
  ASSUME ProgInv, NEW l \in 1 .. 2, Prog!Busy(l), prog' = prog,
         \A f \in facts' : f \in facts \/ f \in Prog!Here(l).give,
         \A q \in pend' : q \in pend \/ q.fact \in Prog!Here(l).late
  PROVE  LastingIsMade'
<1> SUFFICES ASSUME prog \notin Prog!Untidy
             PROVE  /\ \A f \in facts' : Prog!Lasts(f) => \E s \in Prog!StepsOf(prog) : f \in s.give
                    /\ \A q \in pend' : ~Prog!Lasts(q.fact)
  BY SameProgram DEF LastingIsMade
<1>1. Prog!Here(l) \in Prog!StepsOf(prog)
  BY BusyLane DEF ProgInv
<1>2. Prog!Tidy(prog)
  BY CatalogueAssumption DEF ProgInv, Prog!TypeOK
<1>3. \A f \in Prog!Here(l).late : ~Prog!Lasts(f)
  BY <1>1, <1>2 DEF Prog!Tidy
<1> QED
  BY <1>1, <1>3 DEF ProgInv, LastingIsMade

LEMMA BlockKeeps == ProgInv /\ Prog!Block => ProgInv'
<1> SUFFICES ASSUME ProgInv, Prog!Block PROVE ProgInv'
  OBVIOUS
<1>1. PICK p \in pend : facts' = facts \cup {p.fact} /\ pend' = pend \ {p}
  BY DEF Prog!Block
<1>2. UNCHANGED <<prog, good, seg, at, progRet, shut, slipped, met>>
  BY DEF Prog!Block
<1>3. Segments' = Segments /\ Prog!Ended' = Prog!Ended
  BY <1>2, SameProgram DEF Prog!Ended, Prog!Segs
<1>4. Prog!TypeOK'
  BY <1>1, <1>2, <1>3 DEF ProgInv, Prog!TypeOK
<1>5. EndsFit'
  BY <1>2, <1>3 DEF ProgInv, EndsFit
<1>6. SeenSoFar'
  BY <1>1, <1>2, <1>3, SameProgram DEF ProgInv, SeenSoFar
<1>7. prog \notin Prog!Untidy => ~Prog!Lasts(p.fact)
  BY DEF ProgInv, LastingIsMade
<1>8. LastingIsMade'
  BY <1>1, <1>2, <1>7, SameProgram DEF ProgInv, LastingIsMade
<1>9. RemovalAhead'
  BY <1>1, <1>2, <1>3, <1>7, SameProgram DEF ProgInv, RemovalAhead
<1> QED
  BY <1>4, <1>5, <1>6, <1>8, <1>9 DEF ProgInv

LEMMA NextSegmentKeeps == ProgInv /\ Prog!NextSegment => ProgInv'
<1> SUFFICES ASSUME ProgInv, Prog!NextSegment PROVE ProgInv'
  OBVIOUS
<1>1. /\ seg < Len(Segments) + 1 /\ UNCHANGED <<prog, good, facts, pend, slipped, met>>
      /\ at' = [l \in 1 .. 2 |-> 1]
      /\ seg' \in {seg + 1, Len(Segments), Len(Segments) + 1}
      /\ progRet \in {"none", "fail"} \/ seg = Len(Segments) => seg' = seg + 1
      /\ progRet' = (IF seg' # Len(Segments) + 1 THEN progRet
                     ELSE IF progRet = "none" THEN "ok" ELSE "err")
      /\ shut' = (shut \/ seg' = Len(Segments))
  BY DEF Prog!NextSegment, Prog!Ended, Prog!Segs, Segments
<1>2. Prog!TypeOK /\ seg \in 1 .. Len(Segments) /\ Len(Segments) \in Nat
  BY <1>1, ProgramFits DEF ProgInv
<1>3. seg' \in 1 .. Len(Segments) + 1 /\ seg' >= seg /\ (seg = Len(Segments) => seg' = Len(Segments) + 1)
  <2>1. seg' = seg + 1 \/ (seg' = Len(Segments) /\ seg # Len(Segments)) \/ seg' = Len(Segments) + 1
    BY <1>1
  <2> QED
    BY <1>2, <2>1
<1>4. Segments' = Segments
  BY <1>1, SameProgram
<1>5. progRet \notin {"ok", "panic"} /\ progRet \in {"none", "ok", "fail", "err", "panic"}
  BY <1>2 DEF ProgInv, EndsFit, Prog!TypeOK
<1>6. Prog!TypeOK'
  <2>1. seg' \in 1 .. Prog!Ended'
    BY <1>3, <1>4 DEF Prog!Ended, Prog!Segs, Segments
  <2>2. at' \in [1 .. 2 -> Nat \ {0}]
    BY <1>1
  <2>3. progRet' \in {"none", "ok", "fail", "err", "panic"} /\ shut' \in BOOLEAN
    BY <1>1, <1>2, <1>5 DEF Prog!TypeOK
  <2> QED
    BY <1>1, <1>2, <2>1, <2>2, <2>3 DEF Prog!TypeOK
<1>7. EndsFit'
  <2>1. /\ progRet' = "ok" => seg' = Len(Segments) + 1
        /\ progRet' # "panic"
    BY <1>1, <1>5
  <2>2. shut' => seg' >= Len(Segments)
    <3>1. shut => seg >= Len(Segments)
      BY DEF ProgInv, EndsFit
    <3>2. CASE shut
      BY <1>2, <1>3, <3>1, <3>2
    <3>3. CASE seg' = Len(Segments)
      BY <1>2, <3>3
    <3> QED
      BY <1>1, <3>2, <3>3
  <2> QED
    BY <1>4, <2>1, <2>2 DEF EndsFit
<1>8. \A g \in DOMAIN Segments : \A l \in DOMAIN Segments[g] : \A i \in DOMAIN Segments[g][l] :
        /\ i \in Nat \ {0} /\ l \in 1 .. 2
        /\ g = seg => i < at[l]
  <2> SUFFICES ASSUME NEW g \in DOMAIN Segments, NEW l \in DOMAIN Segments[g],
                      NEW i \in DOMAIN Segments[g][l]
               PROVE  /\ i \in Nat \ {0} /\ l \in 1 .. 2
                      /\ g = seg => i < at[l]
    OBVIOUS
  <2>1. i \in 1 .. Len(Segments[g][l]) /\ Len(Segments[g][l]) \in Nat /\ l \in 1 .. 2
    BY <1>2, ProgramFits
  <2>2. at[l] \in Nat
    BY <1>2, <2>1 DEF Prog!TypeOK
  <2>3. ASSUME g = seg PROVE i < at[l]
    <3>1. ~Prog!Busy(l)
      BY <2>3 DEF Prog!NextSegment, Prog!Lanes, Prog!Segs, Segments
    <3>2. ~(at[l] <= Len(Segments[seg][l]))
      BY <1>1, <2>3, <3>1 DEF Prog!Busy, Prog!Ended, Prog!Lanes, Prog!Segs, Segments
    <3> QED
      BY <2>1, <2>2, <2>3, <3>2
  <2> QED
    BY <2>1, <2>3
<1>9. SeenSoFar'
  <2> SUFFICES ASSUME progRet' \in {"none", "ok"},
                      NEW f, NEW g, NEW l, NEW i,
                      g \in DOMAIN Segments, l \in DOMAIN Segments[g], i \in DOMAIN Segments[g][l],
                      Prog!ShownAt(prog, f, g, l, i),
                      g < seg' \/ (g = seg' /\ i < at'[l])
               PROVE  f \in facts
    BY <1>1, <1>4, SameProgram DEF SeenSoFar
  <2>1. progRet = "none"
    BY <1>1, <1>5
  <2>2. seg' = seg + 1
    BY <1>1, <2>1
  <2>3. g \in Nat /\ i \in Nat \ {0} /\ at'[l] = 1
    <3>1. g \in 1 .. Len(Segments)
      BY <1>2, ProgramFits
    <3>2. i \in Nat \ {0} /\ l \in 1 .. 2
      BY <1>8
    <3> QED
      BY <1>1, <1>2, <3>1, <3>2
  <2>4. g < seg \/ g = seg
    BY <1>2, <2>2, <2>3
  <2>5. g < seg \/ (g = seg /\ i < at[l])
    BY <1>8, <2>4
  <2> QED
    BY <2>1, <2>5 DEF ProgInv, SeenSoFar
<1>10. LastingIsMade'
  BY <1>1, SameProgram DEF ProgInv, LastingIsMade
<1>11. RemovalAhead'
  <2> SUFFICES ASSUME prog \notin Prog!Untidy, shut', ~slipped
               PROVE  /\ seg' = Len(Segments) =>
                           \A f \in facts : \A i : Prog!Lasts(f) /\ Prog!Removes(prog, f, i) => 1 <= i
                      /\ seg' # Len(Segments) => \A f \in facts : ~Prog!Lasts(f)
    BY <1>1, <1>4, SameProgram DEF RemovalAhead
  <2>1. Prog!Tidy(prog)
    BY <1>2, CatalogueAssumption DEF Prog!TypeOK
  <2>2. Len(Segments) \in DOMAIN Segments /\ DOMAIN Segments[Len(Segments)] = {1}
    BY <1>2, <2>1 DEF Prog!Tidy, Segments
  <2>3. Prog!Shutdown(prog) = Segments[Len(Segments)][1]
    BY DEF Prog!Shutdown, Segments
  <2>4. \A i \in DOMAIN Prog!Shutdown(prog) : i \in Nat /\ 1 <= i /\ (seg = Len(Segments) => i < at[1])
    BY <1>8, <2>2, <2>3
  <2>5. \A f \in facts : \A i : Prog!Removes(prog, f, i) => i \in DOMAIN Prog!Shutdown(prog)
    BY DEF Prog!Removes, Prog!Drops
  <2>6. ASSUME seg' # Len(Segments), NEW f \in facts, Prog!Lasts(f)
        PROVE  FALSE
    <3>1. shut
      BY <1>1, <2>6
    <3>2. seg = Len(Segments)
      BY <1>2, <3>1 DEF ProgInv, EndsFit
    <3>3. PICK s \in Prog!StepsOf(prog) : f \in s.give
      BY <2>6 DEF ProgInv, LastingIsMade
    <3>4. PICK i \in DOMAIN Prog!Shutdown(prog) : Prog!Removes(prog, f, i)
      BY <2>1, <2>6, <3>3 DEF Prog!Tidy
    <3>5. at[1] <= i
      BY <1>5, <2>6, <3>1, <3>2, <3>4 DEF ProgInv, RemovalAhead
    <3>6. i < at[1] /\ i \in Nat /\ at[1] \in Nat
      BY <1>2, <2>4, <3>2, <3>4 DEF Prog!TypeOK
    <3> QED
      BY <3>5, <3>6
  <2> QED
    BY <2>4, <2>5, <2>6
<1> QED
  BY <1>6, <1>7, <1>9, <1>10, <1>11 DEF ProgInv

-----------------------------------------------------------------------------
(* The steps of a lane.                                                    *)

LEMMA PassKeeps == ASSUME NEW l \in 1 .. 2 PROVE ProgInv /\ Prog!Pass(l) => ProgInv'
<1> SUFFICES ASSUME ProgInv, Prog!Pass(l) PROVE ProgInv'
  OBVIOUS
<1> DEFINE s == Prog!Here(l)
<1>1. /\ Prog!Busy(l) /\ s.need \subseteq facts /\ facts' = Prog!Without(s.drop) \cup s.give
      /\ at' = [at EXCEPT ![l] = @ + 1]
      /\ UNCHANGED <<prog, good, seg, progRet, shut, slipped, met>>
      /\ pend' = pend \/ pend' = pend \cup [fact : s.late, by : {s.by}, lane : {l}]
  BY DEF Prog!Pass, Prog!Advance
<1>2. /\ Prog!TypeOK /\ at \in [1 .. 2 -> Nat \ {0}] /\ at[l] \in Nat \ {0} /\ at[l] + 1 \in Nat \ {0}
      /\ at' = [at EXCEPT ![l] = at[l] + 1]
  BY <1>1 DEF ProgInv, Prog!TypeOK
<1>3. Segments' = Segments /\ Prog!Ended' = Prog!Ended
  BY <1>1, SameProgram DEF Prog!Ended, Prog!Segs
<1>4. /\ \A f \in facts : f \in facts' \/ f \in s.drop
      /\ \A f \in facts' : f \in facts \/ f \in s.give
      /\ \A f \in s.give \cup (s.need \ s.drop) : f \in facts'
  BY <1>1 DEF Prog!Without
<1>5. \A q \in pend' : q \in pend \/ (q.fact \in s.late /\ DOMAIN q = {"fact", "by", "lane"})
  BY <1>1
<1>6. Prog!TypeOK'
  <2>1. at' \in [1 .. 2 -> Nat \ {0}]
    BY <1>2
  <2>2. \A q \in pend' : DOMAIN q = {"fact", "by", "lane"}
    BY <1>2, <1>5 DEF Prog!TypeOK
  <2> QED
    BY <1>1, <1>2, <1>3, <2>1, <2>2 DEF Prog!TypeOK
<1>7. EndsFit'
  BY <1>1, <1>3 DEF ProgInv, EndsFit
<1>8. SeenSoFar'
  <2>1. ASSUME NEW f, NEW i, i \in DOMAIN Segments[seg][l], at[l] <= i, i < at[l] + 1,
               Prog!ShownAt(prog, f, seg, l, i)
        PROVE  f \in facts'
    <3>1. i = at[l]
      BY <1>1, <1>2, <2>1, BusyLane, ProgramFits
    <3>2. f \in s.give \cup (s.need \ s.drop)
      BY <1>1, <1>2, <2>1, <3>1, BusyLane DEF Prog!ShownAt, Segments
    <3> QED
      BY <1>4, <3>2
  <2> HIDE DEF s
  <2> QED
    BY <1>1, <1>2, <1>4, <2>1, SeenStays DEF s
<1>9. LastingIsMade'
  BY <1>1, <1>4, <1>5, MadeStays
<1>10. RemovalAhead'
  <2>1. CASE prog \notin Prog!Untidy /\ shut /\ ~slipped
    <3>1. /\ seg \in 1 .. Len(Segments) /\ Len(Segments) \in Nat /\ l \in DOMAIN Segments[seg]
          /\ s = Segments[seg][l][at[l]]
      BY <1>1, <1>2, BusyLane, ProgramFits
    <3>2. seg = Len(Segments)
      BY <2>1, <3>1 DEF ProgInv, EndsFit
    <3>3. l = 1
      BY <1>2, <2>1, <3>1, <3>2, CatalogueAssumption DEF Prog!TypeOK, Prog!Tidy, Segments
    <3>4. Prog!Here(1) = Prog!Shutdown(prog)[at[1]]
      BY <3>1, <3>2, <3>3 DEF Prog!Shutdown, Segments
    <3>5. \A f \in facts : Prog!Lasts(f) /\ Prog!Removes(prog, f, at[1]) => f \notin facts'
      BY <1>1, <2>1, <3>3, <3>4, PassRemoves
    <3> QED
      BY <1>1, <1>4, <3>5, RemovalStays
  <2>2. CASE ~(prog \notin Prog!Untidy /\ shut /\ ~slipped)
    BY <1>1, <2>2 DEF RemovalAhead
  <2> QED
    BY <2>1, <2>2
<1> QED
  BY <1>6, <1>7, <1>8, <1>9, <1>10 DEF ProgInv

\* A step that failed: the program goes on, notes it, or ends.
LEMMA FailureKeeps ==
  ASSUME ProgInv, NEW l \in 1 .. 2, Prog!Busy(l), Prog!Consequence(l),
         UNCHANGED <<prog, good, pend, shut>>, met' \in BOOLEAN, slipped' \in BOOLEAN,
         slipped => slipped', facts \subseteq facts',
         \A f \in facts' : f \in facts \/ f \in Prog!Here(l).give,
         ~slipped' => \A f \in facts : Prog!Lasts(f) /\ f \in Prog!Here(l).drop
                                         => Prog!Here(l).need # {} \/ Prog!Here(l).op = "poll"
  PROVE  ProgInv'
<1> DEFINE s == Prog!Here(l)
<1>1. /\ Prog!TypeOK /\ at \in [1 .. 2 -> Nat \ {0}] /\ s.skip \in Nat /\ seg <= Len(Segments)
      /\ seg \in 1 .. Len(Segments) /\ Len(Segments) \in Nat
  BY BusyLane, ProgramFits DEF ProgInv
<1>2. Segments' = Segments /\ Prog!Ended' = Prog!Ended /\ Prog!Ended = Len(Segments) + 1
  BY SameProgram DEF Prog!Ended, Prog!Segs, Segments
<1>3. progRet \notin {"ok", "panic"}
  BY <1>1 DEF ProgInv, EndsFit
<1>4. /\ seg' \in 1 .. Len(Segments) + 1 /\ seg' >= seg /\ at' \in [1 .. 2 -> Nat \ {0}]
      /\ progRet' \in {"none", "ok", "fail", "err", "panic"}
      /\ \/ /\ s.fail = "on" /\ progRet' = progRet /\ seg' = seg
            /\ at' = [at EXCEPT ![l] = @ + 1 + s.skip]
         \/ /\ progRet' \in {"fail", "err"} /\ seg' = seg
            /\ s.fail = "note" => at' = [at EXCEPT ![l] = @ + 1]
            /\ s.fail \in {"note", "err", "gate"}
         \/ progRet' = "panic" /\ seg' = Len(Segments) + 1
  BY <1>1, Consequences
<1> HIDE DEF s
<1>5. Prog!TypeOK'
  BY <1>1, <1>2, <1>4 DEF Prog!TypeOK
<1>6. EndsFit'
  <2>1. /\ progRet' # "ok" /\ (progRet' = "panic" => seg' = Len(Segments) + 1)
    BY <1>3, <1>4
  <2>2. shut => seg >= Len(Segments)
    BY DEF ProgInv, EndsFit
  <2>3. shut' => seg' >= Len(Segments)
    BY <1>1, <1>4, <2>2
  <2> QED
    BY <1>2, <2>1, <2>3 DEF EndsFit
<1>7. SeenSoFar'
  <2>1. CASE s.fail = "on" /\ progRet' = progRet /\ seg' = seg /\ at' = [at EXCEPT ![l] = @ + 1 + s.skip]
    <3>1. /\ at[l] + 1 + s.skip \in Nat \ {0} /\ at' = [at EXCEPT ![l] = at[l] + 1 + s.skip]
      BY <1>1, <2>1
    <3>2. ASSUME NEW f, NEW i, i \in DOMAIN Segments[seg][l], at[l] <= i, i < at[l] + 1 + s.skip,
                 Prog!ShownAt(prog, f, seg, l, i)
          PROVE  FALSE
      <4>1. /\ i \in Nat /\ at[l] \in Nat \ {0} /\ s = Segments[seg][l][at[l]]
        BY <1>1, <3>2, BusyLane, ProgramFits DEF s
      <4>2. CASE i = at[l]
        BY <2>1, <3>2, <4>1, <4>2 DEF Prog!ShownAt, Segments
      <4>3. CASE i # at[l]
        <5>1. at[l] \in 1 .. i - 1
          BY <3>2, <4>1, <4>3
        <5>2. at[l] + s.skip < i
          BY <2>1, <3>2, <4>1, <5>1 DEF Prog!ShownAt, Segments
        <5> QED
          BY <1>1, <3>2, <4>1, <5>2
      <4> QED
        BY <4>2, <4>3
    <3> QED
      BY <2>1, <3>1, <3>2, SeenStays
  <2>2. CASE progRet' \in {"fail", "err", "panic"}
    BY <2>2 DEF SeenSoFar
  <2> QED
    BY <1>4, <2>1, <2>2
<1>8. LastingIsMade'
  BY MadeStays
<1>9. RemovalAhead'
  <2>1. CASE progRet' = "panic"
    BY <2>1 DEF RemovalAhead
  <2>2. CASE seg' = seg /\ (s.fail \notin {"err", "gate"} /\ s.skip = 0 => at' = [at EXCEPT ![l] = @ + 1])
    <3>1. ASSUME ~slipped', NEW f \in facts, Prog!Lasts(f), Prog!Removes(prog, f, at[1]),
                 prog \notin Prog!Untidy, shut
          PROVE  FALSE
      <4>1. /\ l \in DOMAIN Segments[seg] /\ s = Segments[seg][l][at[l]]
        BY <1>1, BusyLane DEF s
      <4>2. seg = Len(Segments)
        BY <1>1, <3>1 DEF ProgInv, EndsFit
      <4>3. l = 1
        BY <1>1, <3>1, <4>1, <4>2, CatalogueAssumption DEF Prog!TypeOK, Prog!Tidy, Segments
      <4>4. s = Prog!Shutdown(prog)[at[1]]
        BY <4>1, <4>2, <4>3 DEF Prog!Shutdown, Segments
      <4>5. f \in s.drop /\ s.need = {} /\ s.op # "poll"
        BY <3>1, <4>4 DEF Prog!Removes, Prog!Drops
      <4> QED
        BY <3>1, <4>5 DEF s
    <3>2. CASE prog \notin Prog!Untidy /\ shut
      BY <2>2, <3>1, <3>2, RemovalStays DEF s
    <3>3. CASE ~(prog \notin Prog!Untidy /\ shut)
      BY <3>3 DEF RemovalAhead
    <3> QED
      BY <3>2, <3>3
  <2>3. progRet' = "panic" \/ (seg' = seg /\ (s.fail \notin {"err", "gate"} /\ s.skip = 0
                                               => at' = [at EXCEPT ![l] = @ + 1]))
    <3>1. CASE s.fail = "on" /\ seg' = seg /\ at' = [at EXCEPT ![l] = @ + 1 + s.skip]
      <4>1. s.skip = 0 => at[l] + 1 + s.skip = at[l] + 1
        BY <1>1
      <4> QED
        BY <1>1, <3>1, <4>1
    <3> QED
      BY <1>4, <3>1
  <2> QED
    BY <2>1, <2>2, <2>3
<1> QED
  BY <1>5, <1>6, <1>7, <1>8, <1>9 DEF ProgInv

LEMMA FailKeeps == ASSUME NEW l \in 1 .. 2 PROVE ProgInv /\ Prog!Fail(l) => ProgInv'
<1> SUFFICES ASSUME ProgInv, Prog!Fail(l) PROVE ProgInv'
  OBVIOUS
<1> DEFINE s == Prog!Here(l)
<1>1. /\ Prog!Busy(l) /\ Prog!Consequence(l) /\ UNCHANGED <<prog, good, pend, shut>>
      /\ facts' \in {facts, facts \cup s.give}
  BY DEF Prog!Fail
<1>2. slipped' = (slipped \/ (s.need \subseteq facts /\ \E f \in s.drop : Prog!Lasts(f)))
  BY DEF Prog!Fail
<1>3. slipped \in BOOLEAN /\ met \in BOOLEAN
  BY DEF ProgInv, Prog!TypeOK
<1>4. met' \in BOOLEAN
  BY <1>3 DEF Prog!Fail
<1>5. slipped' \in BOOLEAN /\ (slipped => slipped')
  BY <1>2, <1>3
<1>6. facts \subseteq facts' /\ \A f \in facts' : f \in facts \/ f \in s.give
  BY <1>1
<1>7. ~slipped' => \A f \in facts : Prog!Lasts(f) /\ f \in s.drop => s.need # {} \/ s.op = "poll"
  BY <1>2, <1>3
<1> QED
  BY <1>1, <1>4, <1>5, <1>6, <1>7, FailureKeeps

LEMMA GiveUpKeeps == ASSUME NEW l \in 1 .. 2 PROVE ProgInv /\ Prog!GiveUp(l) => ProgInv'
<1> SUFFICES ASSUME ProgInv, Prog!GiveUp(l) PROVE ProgInv'
  OBVIOUS
<1>1. /\ Prog!Busy(l) /\ Prog!Consequence(l) /\ Prog!Here(l).op = "poll"
      /\ UNCHANGED <<prog, good, facts, pend, shut, slipped, met>>
  BY DEF Prog!GiveUp
<1>2. slipped \in BOOLEAN /\ met \in BOOLEAN
  BY DEF ProgInv, Prog!TypeOK
<1> QED
  BY <1>1, <1>2, FailureKeeps

LEMMA ProgStutters == ProgInv /\ UNCHANGED progVars => ProgInv'
<1> SUFFICES ASSUME ProgInv, UNCHANGED progVars PROVE ProgInv'
  OBVIOUS
<1>1. UNCHANGED <<prog, good, seg, at, facts, pend, progRet, shut, slipped, met>>
  BY DEF progVars
<1>2. Segments' = Segments /\ Prog!Ended' = Prog!Ended
  BY <1>1, SameProgram DEF Prog!Ended, Prog!Segs
<1>3. Prog!TypeOK' /\ EndsFit'
  BY <1>1, <1>2 DEF ProgInv, Prog!TypeOK, EndsFit
<1>4. SeenSoFar' /\ LastingIsMade' /\ RemovalAhead'
  BY <1>1, <1>2, SameProgram DEF ProgInv, SeenSoFar, LastingIsMade, RemovalAhead
<1> QED
  BY <1>3, <1>4 DEF ProgInv

LEMMA ProgKept == ProgInv /\ [Prog!Next]_progVars => ProgInv'
<1> SUFFICES ASSUME ProgInv, [Prog!Next]_progVars PROVE ProgInv'
  OBVIOUS
<1>1. CASE Prog!Done
  BY <1>1, ProgStutters DEF Prog!Done, Prog!vars, progVars
<1> QED
  BY <1>1, BlockKeeps, NextSegmentKeeps, PassKeeps, FailKeeps, GiveUpKeeps, ProgStutters DEF Prog!Next

LEMMA ProgHolds == Prog!Spec => []ProgInv
<1>1. ProgInv /\ [Prog!Next]_(Prog!vars) => ProgInv'
  BY ProgKept DEF Prog!vars, progVars
<1> QED
  BY <1>1, ProgInit, PTL DEF Prog!Spec

LEMMA InvIsClean == ProgInv => CleanExit
<1> SUFFICES ASSUME ProgInv, seg = Len(Segments) + 1, shut, ~slipped, progRet # "panic", prog \notin Prog!Untidy
             PROVE  \A f \in facts : ~Prog!Lasts(f)
  BY DEF CleanExit, Prog!CleanExit, Prog!Ended, Prog!Segs, Segments
<1>1. Len(Segments) \in Nat
  BY ProgramFits DEF ProgInv
<1>2. seg # Len(Segments)
  BY <1>1
<1> QED
  BY <1>2 DEF ProgInv, RemovalAhead

LEMMA InvMeansDone == ProgInv => Prog!OkMeansDone
<1> SUFFICES ASSUME ProgInv, seg = Len(Segments) + 1, progRet = "ok", NEW f \in AllGoals[prog]
             PROVE  f \in facts
  BY DEF Prog!OkMeansDone, Prog!Ended, Prog!Segs, Segments
<1>1. Prog!Shown(prog, f)
  BY CatalogueAssumption DEF ProgInv, Prog!TypeOK
<1>2. PICK g \in DOMAIN Segments : \E l \in DOMAIN Segments[g] : \E i \in DOMAIN Segments[g][l] :
             Prog!ShownAt(prog, f, g, l, i)
  BY <1>1 DEF Prog!Shown, Segments
<1>3. g < seg
  BY <1>2, ProgramFits DEF ProgInv
<1> QED
  BY <1>2, <1>3 DEF ProgInv, SeenSoFar

-----------------------------------------------------------------------------
(* Programs whose calls are in order.                                      *)

\* Nothing fails of itself, no key was spent from twice at a time, and the calls
\* are in an order the library allows.
Smooth == good /\ ~met /\ prog # "cosmos_upgrade"

\* The places of the program, what stands there, and whether it was taken.
Spots     == Prog!Places(prog)
Does(x)     == Prog!StepAt(prog, x)
Passed(x) == x[1] < seg \/ (x[1] = seg /\ x[3] < at[x[2]])

\* Something that was not taken before y has taken f away again.
Gone(y, f) == \E z \in Spots : Passed(z) /\ z # y /\ ~Prog!Before(z, y) /\ f \in Does(z).drop

\* Has the program waited for what the transaction y makes hold?
Waited(y, f) == \E w \in Spots : Passed(w) /\ Prog!Before(y, w) /\ Prog!Awaits(prog, w, f)

GivesHold ==
  \A y \in Spots : Passed(y) /\ Does(y).late = {} =>
    \A f \in Does(y).give : f \in facts \/ Gone(y, f)

LatesHold ==
  \A y \in Spots : Passed(y) /\ Prog!Unrivalled(prog, y) =>
    \A f \in Does(y).late : \/ f \in facts \/ Gone(y, f)
                          \/ (~Waited(y, f) /\ \E q \in pend : q.fact = f)

\* What waits for a block is of a transaction that was not waited for yet; only
\* where another makes the same fact hold can a poll be no sign of it.
Pending(q, y) ==
  /\ y \in Spots /\ Passed(y) /\ q.fact \in Does(y).late
  /\ q = [fact |-> q.fact, by |-> Does(y).by, lane |-> y[2]]
  /\ \A w \in Spots : Passed(w) /\ Prog!Before(y, w) /\ Prog!Awaits(prog, w, q.fact) =>
       Does(w).op = "poll" /\ ~Prog!Once(prog, y, q.fact)

PendsFit == \A q \in pend : \E y \in Spots : Pending(q, y)

OnceFits ==
  \A q \in pend : \A y \in Spots :
    q.fact \in Does(y).late /\ Prog!Once(prog, y, q.fact) => q.fact \notin facts

FactsFit == \A f \in facts : \E z \in Spots : Passed(z) /\ f \in Does(z).give \cup Does(z).late

OnTime == progRet = IF seg = Len(Segments) + 1 THEN "ok" ELSE "none"

SoFar == OnTime /\ GivesHold /\ LatesHold /\ PendsFit /\ OnceFits /\ FactsFit

OrderInv == ProgInv /\ (Smooth => SoFar)

LEMMA SpotIs ==
  ASSUME Prog!TypeOK, NEW x \in Spots
  PROVE  /\ x[1] \in DOMAIN Segments /\ x[2] \in DOMAIN Segments[x[1]]
         /\ x[3] \in DOMAIN Segments[x[1]][x[2]] /\ x = <<x[1], x[2], x[3]>>
         /\ x[1] \in 1 .. Len(Segments) /\ x[2] \in 1 .. 2
         /\ x[3] \in 1 .. Len(Segments[x[1]][x[2]]) /\ Len(Segments[x[1]][x[2]]) \in Nat
         /\ Does(x) = Segments[x[1]][x[2]][x[3]]
<1>1. PICK g \in DOMAIN Segments : \E l \in DOMAIN Segments[g] : \E i \in DOMAIN Segments[g][l] : x = <<g, l, i>>
  BY DEF Spots, Prog!Places, Segments
<1>2. PICK l \in DOMAIN Segments[g] : \E i \in DOMAIN Segments[g][l] : x = <<g, l, i>>
  BY <1>1
<1>3. PICK i \in DOMAIN Segments[g][l] : x = <<g, l, i>>
  BY <1>2
<1>4. x[1] = g /\ x[2] = l /\ x[3] = i
  BY <1>3
<1>5. Does(x) = Segments[x[1]][x[2]][x[3]]
  BY DEF Does, Prog!StepAt, Segments
<1> QED
  BY <1>3, <1>4, <1>5, ProgramFits

LEMMA SpotOf ==
  ASSUME NEW g \in DOMAIN Segments, NEW l \in DOMAIN Segments[g], NEW i \in DOMAIN Segments[g][l]
  PROVE  <<g, l, i>> \in Spots
  BY DEF Spots, Prog!Places, Segments

\* The place of a lane: all that comes before it was taken, nothing after it.
LEMMA Here ==
  ASSUME Prog!TypeOK, NEW l \in 1 .. 2, Prog!Busy(l), NEW h, h = <<seg, l, at[l]>>
  PROVE  /\ h \in Spots /\ Does(h) = Prog!Here(l) /\ ~Passed(h)
         /\ \A y \in Spots : /\ Prog!Before(y, h) => Passed(y)
                             /\ Prog!Before(h, y) => ~Passed(y)
<1>1. /\ seg \in DOMAIN Segments /\ l \in DOMAIN Segments[seg] /\ at[l] \in DOMAIN Segments[seg][l]
      /\ Prog!Here(l) = Segments[seg][l][at[l]]
      /\ seg \in Nat /\ at \in [1 .. 2 -> Nat \ {0}]
  BY BusyLane, ProgramFits
<1>2. h \in Spots
  BY <1>1, SpotOf
<1>3. Does(h) = Prog!Here(l)
  BY <1>1, <1>2, SpotIs
<1>4. ~Passed(h)
  BY <1>1 DEF Passed
<1>5. ASSUME NEW y \in Spots
      PROVE  /\ Prog!Before(y, h) => Passed(y)
             /\ Prog!Before(h, y) => ~Passed(y)
  <2>1. y[1] \in Nat /\ y[2] \in 1 .. 2 /\ y[3] \in Nat
    BY SpotIs, ProgramFits
  <2> QED
    BY <1>1, <2>1 DEF Prog!Before, Passed
<1> QED
  BY <1>2, <1>3, <1>4, <1>5

\* A lane that goes on has taken one more step.
LEMMA Taken ==
  ASSUME Prog!TypeOK, NEW l \in 1 .. 2, Prog!Busy(l), seg' = seg, at' = [at EXCEPT ![l] = @ + 1]
  PROVE  \A y \in Spots : Passed(y)' <=> Passed(y) \/ y = <<seg, l, at[l]>>
<1> SUFFICES ASSUME NEW y \in Spots
             PROVE  Passed(y)' <=> Passed(y) \/ y = <<seg, l, at[l]>>
  OBVIOUS
<1>1. /\ y[1] \in Nat /\ y[2] \in 1 .. 2 /\ y[3] \in Nat /\ y = <<y[1], y[2], y[3]>>
      /\ seg \in Nat /\ at \in [1 .. 2 -> Nat \ {0}]
  BY SpotIs, ProgramFits
<1>2. at'[y[2]] = IF y[2] = l THEN at[l] + 1 ELSE at[y[2]]
  BY <1>1
<1>3. CASE y[1] = seg /\ y[2] = l
  <2>1. y = <<seg, l, at[l]>> <=> y[3] = at[l]
    BY <1>1, <1>3
  <2>2. y[3] < at[l] + 1 <=> y[3] < at[l] \/ y[3] = at[l]
    BY <1>1
  <2> QED
    BY <1>1, <1>2, <1>3, <2>1, <2>2 DEF Passed
<1>4. CASE ~(y[1] = seg /\ y[2] = l)
  <2>1. y # <<seg, l, at[l]>>
    BY <1>1, <1>4
  <2> QED
    BY <1>1, <1>2, <1>4, <2>1 DEF Passed
<1> QED
  BY <1>3, <1>4

LEMMA SameSpots ==
  ASSUME prog' = prog
  PROVE  /\ Spots' = Spots
         /\ \A x : Does(x)' = Does(x)
         /\ \A x, y, f : Prog!Awaits(prog, x, f)' <=> Prog!Awaits(prog, x, f)
         /\ \A y, f : Prog!Once(prog, y, f)' <=> Prog!Once(prog, y, f)
         /\ \A y : Prog!Unrivalled(prog, y)' <=> Prog!Unrivalled(prog, y)
<1>1. Spots' = Spots
  BY DEF Spots
<1>2. \A x : Does(x)' = Does(x)
  BY DEF Does
<1>3. \A x, f : Prog!Awaits(prog, x, f)' <=> Prog!Awaits(prog, x, f)
  OBVIOUS
<1>4. \A y, f : Prog!Once(prog, y, f)' <=> Prog!Once(prog, y, f)
  OBVIOUS
<1>5. \A y : Prog!Unrivalled(prog, y)' <=> Prog!Unrivalled(prog, y)
  OBVIOUS
<1> QED
  BY <1>1, <1>2, <1>3, <1>4, <1>5

\* What a call before the step gives is there, since nothing took it away.
LEMMA GivenIsThere ==
  ASSUME OrderInv, Smooth, NEW l \in 1 .. 2, Prog!Busy(l), NEW f,
         Prog!Given(prog, <<seg, l, at[l]>>, f)
  PROVE  f \in facts
<1> DEFINE h == <<seg, l, at[l]>>
<1>1. Prog!TypeOK /\ GivesHold
  BY DEF OrderInv, ProgInv, SoFar
<1>2. PICK y \in Spots : /\ Prog!Before(y, h) /\ f \in Does(y).give /\ Does(y).late = {}
                         /\ Prog!Untouched(prog, y, h, f)
  BY DEF Prog!Given, Spots, Does
<1> HIDE DEF h
<1>3. Passed(y) /\ ~Passed(h) /\ \A z \in Spots : Prog!Before(h, z) => ~Passed(z)
  BY <1>1, <1>2, Here DEF h
<1>4. ~Gone(y, f)
  BY <1>2, <1>3 DEF Gone, Prog!Untouched, Spots, Does
<1> QED
  BY <1>1, <1>2, <1>3, <1>4 DEF GivesHold

\* A packet that is waited for arrives: somebody relays.
LEMMA AwaitedIsReady ==
  ASSUME OrderInv, Smooth, NEW l \in 1 .. 2, Prog!Busy(l), NEW q \in pend,
         Prog!Awaits(prog, <<seg, l, at[l]>>, q.fact)
  PROVE  Prog!Ready(q)
<1>1. q.fact[1] = "received" => Prog!Given(prog, <<seg, l, at[l]>>, Prog!Relaying)
  BY DEF Prog!Awaits
<1> QED
  BY <1>1, GivenIsThere DEF Prog!Ready

\* What a step needs is there when it is taken, or is on its way to a poll.
LEMMA NeedsAreMet ==
  ASSUME OrderInv, Smooth, NEW l \in 1 .. 2, Prog!Busy(l), NEW f \in Prog!Here(l).need
  PROVE  f \in facts \/ (Prog!Here(l).op = "poll" /\ \E q \in pend : Prog!Ready(q))
<1> DEFINE h == <<seg, l, at[l]>>
<1>1. Prog!TypeOK /\ LatesHold
  BY DEF OrderInv, ProgInv, SoFar
<1>2. /\ h \in Spots /\ Does(h) = Prog!Here(l) /\ ~Passed(h)
      /\ \A y \in Spots : /\ Prog!Before(y, h) => Passed(y)
                          /\ Prog!Before(h, y) => ~Passed(y)
  BY <1>1, Here
<1>3. Prog!Served(prog, h, f)
  BY <1>1, <1>2, CatalogueAssumption DEF Prog!TypeOK, Smooth, Prog!InOrder, Spots, Does
<1>4. CASE Prog!Given(prog, h, f)
  BY <1>4, GivenIsThere
<1>5. ASSUME NEW y \in Spots, NEW w \in Spots,
             Prog!Before(y, h), f \in Does(y).late, Prog!Unrivalled(prog, y),
             Prog!Untouched(prog, y, h, f), Prog!Before(y, w), Prog!Awaits(prog, w, f),
             Prog!Before(w, h) \/ (w = h /\ Does(h).op = "poll")
      PROVE  f \in facts \/ (Does(h).op = "poll" /\ \E q \in pend : Prog!Ready(q))
  <2> HIDE DEF h
  <2>1. ~Gone(y, f)
    BY <1>2, <1>5 DEF Gone, Prog!Untouched, Spots, Does
  <2>2. f \in facts \/ (~Waited(y, f) /\ \E q \in pend : q.fact = f)
    BY <1>1, <1>2, <1>5, <2>1 DEF LatesHold
  <2>3. CASE Prog!Before(w, h)
    <3>1. Waited(y, f)
      BY <1>2, <1>5, <2>3 DEF Waited
    <3> QED
      BY <2>2, <3>1
  <2>4. CASE w = h /\ Does(h).op = "poll"
    <3>1. \A q \in pend : q.fact = f => Prog!Ready(q)
      BY <1>5, <2>4, AwaitedIsReady DEF h
    <3> QED
      BY <2>2, <2>4, <3>1
  <2> QED
    BY <1>5, <2>3, <2>4
<1>6. Prog!Given(prog, h, f) \/
      \E y \in Spots : /\ Prog!Before(y, h) /\ f \in Does(y).late /\ Prog!Unrivalled(prog, y)
                       /\ Prog!Untouched(prog, y, h, f)
                       /\ \E w \in Spots : /\ Prog!Before(y, w) /\ Prog!Awaits(prog, w, f)
                                           /\ Prog!Before(w, h) \/ (w = h /\ Does(h).op = "poll")
  BY <1>3 DEF Prog!Served, Spots, Does
<1> QED
  BY <1>2, <1>4, <1>5, <1>6

\* A transaction that has a rival in its own lane is one that may fail.
LEMMA RivalsAreElsewhere ==
  ASSUME OrderInv, Smooth, NEW l \in 1 .. 2, Prog!Busy(l), Prog!Contended(l),
         Prog!Unrivalled(prog, <<seg, l, at[l]>>)
  PROVE  \E q \in Prog!Rivals(l) : q.lane # l
<1> DEFINE h == <<seg, l, at[l]>>
<1>1. Prog!TypeOK /\ PendsFit
  BY DEF OrderInv, ProgInv, SoFar
<1>2. /\ h \in Spots /\ Does(h) = Prog!Here(l) /\ ~Passed(h)
      /\ \A y \in Spots : /\ Prog!Before(y, h) => Passed(y)
                          /\ Prog!Before(h, y) => ~Passed(y)
  BY <1>1, Here
<1>3. PICK q \in pend : q.by = Does(h).by /\ q \in Prog!Rivals(l)
  BY <1>2 DEF Prog!Contended, Prog!Rivals
<1>4. Does(h).late # {}
  BY <1>2 DEF Prog!Contended
<1>5. PICK y \in Spots : Pending(q, y)
  BY <1>1 DEF PendsFit
<1>6. q.by = Does(y).by /\ q.lane = y[2] /\ Passed(y)
  BY <1>5 DEF Pending
<1>7. ~Prog!Before(y, h)
  <2> SUFFICES ASSUME Prog!Before(y, h) PROVE FALSE
    OBVIOUS
  <2>1. q.fact \in Does(y).late
    BY <1>5 DEF Pending
  <2> HIDE DEF h
  <2>2. PICK w \in Spots : /\ Prog!Before(y, w) /\ Prog!Before(w, h) /\ Prog!Awaits(prog, w, q.fact)
                           /\ Does(w).op = "poll" => Prog!Once(prog, y, q.fact)
    BY <1>3, <1>4, <1>6, <2>1 DEF Prog!Unrivalled, Spots, Does, h
  <2>3. Passed(w)
    BY <1>2, <2>2
  <2> QED
    BY <1>5, <2>2, <2>3 DEF Pending
<1>8. y[2] # l
  <2>1. /\ y[1] \in Nat /\ y[2] \in 1 .. 2 /\ y[3] \in Nat /\ seg \in Nat /\ at \in [1 .. 2 -> Nat \ {0}]
    BY <1>1, SpotIs, ProgramFits
  <2> QED
    BY <1>6, <1>7, <2>1 DEF Passed, Prog!Before
<1> QED
  BY <1>3, <1>6, <1>8

LEMMA OrderInit == Prog!Init => OrderInv
<1> SUFFICES ASSUME Prog!Init PROVE OrderInv
  OBVIOUS
<1>1. ProgInv
  BY ProgInit
<1>2. Prog!TypeOK /\ seg = 1 /\ at = [l \in 1 .. 2 |-> 1] /\ facts = {} /\ pend = {} /\ progRet = "none"
  BY <1>1 DEF ProgInv, Prog!Init
<1>3. \A y \in Spots : ~Passed(y)
  <2> SUFFICES ASSUME NEW y \in Spots PROVE ~Passed(y)
    OBVIOUS
  <2>1. y[1] \in Nat \ {0} /\ y[2] \in 1 .. 2 /\ y[3] \in Nat \ {0}
    BY <1>2, SpotIs, ProgramFits
  <2> QED
    BY <1>2, <2>1 DEF Passed
<1>4. seg # Len(Segments) + 1
  <2>1. Len(Segments) # 0
    BY <1>1, <1>2, CatalogueAssumption DEF Prog!TypeOK, Prog!WellFormed, Segments
  <2> QED
    BY <1>2, <2>1, ProgramFits
<1>5. OnTime /\ GivesHold /\ LatesHold /\ PendsFit /\ OnceFits /\ FactsFit
  BY <1>2, <1>3, <1>4 DEF OnTime, GivesHold, LatesHold, PendsFit, OnceFits, FactsFit
<1> QED
  BY <1>1, <1>5 DEF OrderInv, SoFar

\* What is pending of a transaction that alone makes its fact hold is pending once.
LEMMA PendingOnce ==
  ASSUME PendsFit, NEW p \in pend, NEW q \in pend, p.fact = q.fact, NEW y \in Spots,
         q.fact \in Does(y).late, Prog!Once(prog, y, q.fact)
  PROVE  p = q
<1>1. PICK x \in Spots : Pending(p, x)
  BY DEF PendsFit
<1>2. PICK z \in Spots : Pending(q, z)
  BY DEF PendsFit
<1>3. x = y /\ z = y
  BY <1>1, <1>2 DEF Pending, Prog!Once, Spots, Does
<1> QED
  BY <1>1, <1>2, <1>3 DEF Pending

LEMMA BlockKeepsOrder == OrderInv /\ Prog!Block => OrderInv'
<1> SUFFICES ASSUME OrderInv, Prog!Block, Smooth' PROVE SoFar'
  BY BlockKeeps DEF OrderInv
<1>1. PICK p \in pend : facts' = facts \cup {p.fact} /\ pend' = pend \ {p}
  BY DEF Prog!Block
<1>2. UNCHANGED <<prog, good, seg, at, progRet, shut, slipped, met>>
  BY DEF Prog!Block
<1>3. SoFar
  BY <1>2 DEF Smooth, OrderInv
<1>4. Segments' = Segments
  BY <1>2 DEF Segments
<1>5. \A y : Passed(y)' <=> Passed(y)
  BY <1>2 DEF Passed
<1>6. /\ \A y, f : Gone(y, f)' <=> Gone(y, f)
      /\ \A y, f : Waited(y, f)' <=> Waited(y, f)
      /\ \A q, y : Pending(q, y)' <=> Pending(q, y)
  BY <1>2, <1>5, SameSpots DEF Gone, Waited, Pending
<1>7. OnTime'
  BY <1>2, <1>3, <1>4 DEF SoFar, OnTime
<1>8. GivesHold'
  BY <1>1, <1>2, <1>3, <1>5, <1>6, SameSpots DEF SoFar, GivesHold
<1>9. LatesHold'
  <2> SUFFICES ASSUME NEW y \in Spots, Passed(y), Prog!Unrivalled(prog, y), NEW f \in Does(y).late
               PROVE  \/ f \in facts' \/ Gone(y, f)
                      \/ (~Waited(y, f) /\ \E q \in pend' : q.fact = f)
    BY <1>2, <1>5, <1>6, SameSpots DEF LatesHold
  <2>1. f \in facts \/ Gone(y, f) \/ (~Waited(y, f) /\ \E q \in pend : q.fact = f)
    BY <1>3 DEF SoFar, LatesHold
  <2> QED
    BY <1>1, <2>1
<1>10. PendsFit'
  BY <1>1, <1>2, <1>3, <1>6, SameSpots DEF SoFar, PendsFit
<1>11. OnceFits'
  <2> SUFFICES ASSUME NEW q \in pend', NEW y \in Spots, q.fact \in Does(y).late,
                      Prog!Once(prog, y, q.fact), q.fact = p.fact
               PROVE  FALSE
    BY <1>1, <1>2, <1>3, SameSpots DEF SoFar, OnceFits
  <2>1. q \in pend /\ q # p
    BY <1>1
  <2> QED
    BY <1>3, <2>1, PendingOnce DEF SoFar
<1>12. FactsFit'
  <2>1. \E z \in Spots : Passed(z) /\ p.fact \in Does(z).late
    BY <1>3 DEF SoFar, PendsFit, Pending
  <2> QED
    BY <1>1, <1>2, <1>3, <1>5, <2>1, SameSpots DEF SoFar, FactsFit
<1> QED
  BY <1>7, <1>8, <1>9, <1>10, <1>11, <1>12 DEF SoFar

\* A program that is on time goes on with its next segment, all of this one taken.
LEMMA NextSegmentKeepsOrder == OrderInv /\ Prog!NextSegment => OrderInv'
<1> SUFFICES ASSUME OrderInv, Prog!NextSegment, Smooth' PROVE SoFar'
  BY NextSegmentKeeps DEF OrderInv
<1>1. /\ seg < Len(Segments) + 1 /\ UNCHANGED <<prog, good, facts, pend, slipped, met>>
      /\ at' = [l \in 1 .. 2 |-> 1]
      /\ progRet \in {"none", "fail"} \/ seg = Len(Segments) => seg' = seg + 1
      /\ progRet' = (IF seg' # Len(Segments) + 1 THEN progRet
                     ELSE IF progRet = "none" THEN "ok" ELSE "err")
  BY DEF Prog!NextSegment, Prog!Ended, Prog!Segs, Segments
<1>2. SoFar /\ Prog!TypeOK
  BY <1>1 DEF Smooth, OrderInv, ProgInv
<1>3. seg \in 1 .. Len(Segments) /\ Len(Segments) \in Nat /\ at \in [1 .. 2 -> Nat \ {0}]
  BY <1>1, <1>2, ProgramFits
<1>4. progRet = "none" /\ seg' = seg + 1
  BY <1>1, <1>2, <1>3 DEF SoFar, OnTime
<1>5. Segments' = Segments
  BY <1>1 DEF Segments
<1>6. \A y \in Spots : Passed(y)' <=> Passed(y)
  <2> SUFFICES ASSUME NEW y \in Spots PROVE Passed(y)' <=> Passed(y)
    OBVIOUS
  <2>1. /\ y[1] \in Nat /\ y[2] \in 1 .. 2 /\ y[3] \in Nat \ {0} /\ y[2] \in DOMAIN Segments[y[1]]
        /\ y[3] <= Len(Segments[y[1]][y[2]]) /\ Len(Segments[y[1]][y[2]]) \in Nat
    BY <1>2, SpotIs, ProgramFits
  <2>2. Passed(y)' <=> y[1] < seg + 1
    BY <1>1, <1>3, <1>4, <2>1 DEF Passed
  <2>3. ASSUME y[1] = seg PROVE y[3] < at[y[2]]
    <3>1. ~Prog!Busy(y[2])
      BY <2>1, <2>3 DEF Prog!NextSegment, Prog!Lanes, Prog!Segs, Segments
    <3>2. ~(at[y[2]] <= Len(Segments[seg][y[2]])) /\ at[y[2]] \in Nat
      BY <1>1, <1>3, <2>1, <2>3, <3>1 DEF Prog!Busy, Prog!Ended, Prog!Lanes, Prog!Segs, Segments
    <3> QED
      BY <2>1, <2>3, <3>2
  <2>4. Passed(y) <=> y[1] < seg + 1
    BY <1>3, <2>1, <2>3 DEF Passed
  <2> QED
    BY <2>2, <2>4
<1>7. /\ \A y, f : Gone(y, f)' <=> Gone(y, f)
      /\ \A y, f : Waited(y, f)' <=> Waited(y, f)
      /\ \A q, y : Pending(q, y)' <=> Pending(q, y)
  BY <1>1, <1>6, SameSpots DEF Gone, Waited, Pending
<1>8. OnTime'
  BY <1>1, <1>4, <1>5 DEF OnTime
<1>9. GivesHold' /\ LatesHold'
  BY <1>1, <1>2, <1>6, <1>7, SameSpots DEF SoFar, GivesHold, LatesHold
<1>10. PendsFit' /\ OnceFits' /\ FactsFit'
  BY <1>1, <1>2, <1>6, <1>7, SameSpots DEF SoFar, PendsFit, OnceFits, FactsFit
<1> QED
  BY <1>8, <1>9, <1>10 DEF SoFar

\* What a lane's step does to what was taken away, waited for and pending.
LEMMA StepTaken ==
  ASSUME Prog!TypeOK, NEW l \in 1 .. 2, Prog!Busy(l), prog' = prog, seg' = seg,
         at' = [at EXCEPT ![l] = @ + 1], NEW h, h = <<seg, l, at[l]>>
  PROVE  /\ \A y, f : Gone(y, f) => Gone(y, f)'
         /\ \A y \in Spots : \A f : Passed(y) /\ f \in Does(h).drop => Gone(y, f)'
         /\ \A y \in Spots : \A f : Passed(y) /\ Waited(y, f)' =>
              Waited(y, f) \/ Prog!Awaits(prog, h, f)
         /\ \A f : ~Waited(h, f)'
         /\ \A q, y : /\ Pending(q, y)
                      /\ Prog!Awaits(prog, h, q.fact)
                           => Does(h).op = "poll" /\ ~Prog!Once(prog, y, q.fact)
                      => Pending(q, y)'
<1>1. \A y \in Spots : Passed(y)' <=> Passed(y) \/ y = h
  BY Taken
<1>2. h \in Spots /\ ~Passed(h) /\ \A y \in Spots : /\ Prog!Before(y, h) => Passed(y)
                                                    /\ Prog!Before(h, y) => ~Passed(y)
  BY Here
<1>3. \A y, f : Gone(y, f) => Gone(y, f)'
  BY <1>1, SameSpots DEF Gone
<1>4. \A y \in Spots : \A f : Passed(y) /\ f \in Does(h).drop => Gone(y, f)'
  BY <1>1, <1>2, SameSpots DEF Gone
<1>5. \A y \in Spots : \A f : Passed(y) /\ Waited(y, f)' => Waited(y, f) \/ Prog!Awaits(prog, h, f)
  BY <1>1, SameSpots DEF Waited
<1>6. \A f : ~Waited(h, f)'
  <2>1. ~Prog!Before(h, h)
    <3>1. /\ h[1] = seg /\ h[2] = l /\ h[3] = at[l] /\ seg \in Nat /\ at[l] \in Nat
      BY ProgramFits
    <3> QED
      BY <3>1 DEF Prog!Before
  <2> QED
    BY <1>1, <1>2, <2>1, SameSpots DEF Waited
<1>7. ASSUME NEW q, NEW y, Pending(q, y),
             Prog!Awaits(prog, h, q.fact) => Does(h).op = "poll" /\ ~Prog!Once(prog, y, q.fact)
      PROVE  Pending(q, y)'
  <2>1. y \in Spots /\ Passed(y)'
    BY <1>1, <1>7 DEF Pending
  <2>2. q.fact \in Does(y).late /\ q = [fact |-> q.fact, by |-> Does(y).by, lane |-> y[2]]
    BY <1>7 DEF Pending
  <2>3. ASSUME NEW w \in Spots, Passed(w)', Prog!Before(y, w), Prog!Awaits(prog, w, q.fact)
        PROVE  Does(w).op = "poll" /\ ~Prog!Once(prog, y, q.fact)
    BY <1>1, <1>7, <2>3 DEF Pending
  <2> QED
    BY <2>1, <2>2, <2>3, SameSpots DEF Pending
<1> QED
  BY <1>3, <1>4, <1>5, <1>6, <1>7

LEMMA PassKeepsOrder == ASSUME NEW l \in 1 .. 2 PROVE OrderInv /\ Prog!Pass(l) => OrderInv'
<1> SUFFICES ASSUME OrderInv, Prog!Pass(l), Smooth' PROVE SoFar'
  BY PassKeeps DEF OrderInv
<1> PICK h : h = <<seg, l, at[l]>>
  OBVIOUS
<1> DEFINE s == Does(h)
           sent == [fact : s.late, by : {s.by}, lane : {l}]
<1>1. Prog!Busy(l) /\ UNCHANGED <<prog, good, seg, progRet, shut, slipped, met>>
  BY DEF Prog!Pass
<1>2. Smooth /\ SoFar /\ Prog!TypeOK
  BY <1>1 DEF Smooth, OrderInv, ProgInv
<1>3. /\ h \in Spots /\ s = Prog!Here(l) /\ ~Passed(h)
      /\ \A y \in Spots : /\ Prog!Before(y, h) => Passed(y)
                          /\ Prog!Before(h, y) => ~Passed(y)
  BY <1>1, <1>2, Here
<1>4. /\ s.need \subseteq facts /\ facts' = Prog!Without(s.drop) \cup s.give
      /\ pend' = pend \cup sent
      /\ s.op = "wait" => \A q \in pend : ~Prog!Ready(q)
      /\ at' = [at EXCEPT ![l] = @ + 1]
  BY <1>2, <1>3 DEF Prog!Pass, Prog!Advance, Smooth
<1>5. /\ \A f \in facts : f \in facts' \/ f \in s.drop
      /\ \A f \in facts' : f \in facts \/ f \in s.give
      /\ s.give \subseteq facts'
  BY <1>4 DEF Prog!Without
<1>6. \A y \in Spots : Passed(y)' <=> Passed(y) \/ y = h
  BY <1>1, <1>2, <1>4, Taken
<1>7. /\ \A y, f : Gone(y, f) => Gone(y, f)'
      /\ \A y \in Spots : \A f : Passed(y) /\ f \in s.drop => Gone(y, f)'
      /\ \A y \in Spots : \A f : Passed(y) /\ Waited(y, f)' => Waited(y, f) \/ Prog!Awaits(prog, h, f)
      /\ \A f : ~Waited(h, f)'
      /\ \A q, y : /\ Pending(q, y)
                   /\ Prog!Awaits(prog, h, q.fact) => s.op = "poll" /\ ~Prog!Once(prog, y, q.fact)
                   => Pending(q, y)'
  BY <1>1, <1>2, <1>4, StepTaken
\* A wait leaves nothing that it waited for; a poll has what it asked for.
<1>8. ASSUME NEW q \in pend, Prog!Awaits(prog, h, q.fact)
      PROVE  s.op = "poll" /\ q.fact \in facts
  <2>1. Prog!Ready(q)
    BY <1>1, <1>2, <1>8, AwaitedIsReady
  <2>2. s.op # "wait"
    BY <1>4, <2>1
  <2> QED
    BY <1>4, <1>8, <2>2 DEF Prog!Awaits, Does
<1>9. /\ Spots' = Spots
      /\ \A x : Does(x)' = Does(x)
      /\ \A x, f : Prog!Awaits(prog, x, f)' <=> Prog!Awaits(prog, x, f)
      /\ \A y, f : Prog!Once(prog, y, f)' <=> Prog!Once(prog, y, f)
      /\ \A y : Prog!Unrivalled(prog, y)' <=> Prog!Unrivalled(prog, y)
  BY <1>1, SameSpots
<1>10. h[2] = l /\ \A q \in sent : q.fact \in s.late /\ q = [fact |-> q.fact, by |-> s.by, lane |-> h[2]]
  OBVIOUS
<1> HIDE DEF s, sent
<1>11. OnTime'
  <2>1. Segments' = Segments
    BY <1>1 DEF Segments
  <2> QED
    BY <1>1, <1>2, <2>1 DEF SoFar, OnTime
<1>12. GivesHold'
  <2> SUFFICES ASSUME NEW y \in Spots, Passed(y) \/ y = h, Does(y).late = {}, NEW f \in Does(y).give
               PROVE  f \in facts' \/ Gone(y, f)'
    BY <1>6, <1>9 DEF GivesHold
  <2>1. CASE y = h
    BY <1>5, <2>1 DEF s
  <2>2. CASE Passed(y)
    BY <1>2, <1>5, <1>7, <2>2 DEF SoFar, GivesHold
  <2> QED
    BY <2>1, <2>2
<1>13. LatesHold'
  <2> SUFFICES ASSUME NEW y \in Spots, Passed(y) \/ y = h, Prog!Unrivalled(prog, y), NEW f \in Does(y).late
               PROVE  \/ f \in facts' \/ Gone(y, f)'
                      \/ (~Waited(y, f)' /\ \E q \in pend' : q.fact = f)
    BY <1>6, <1>9 DEF LatesHold
  <2>1. CASE y = h
    <3> DEFINE q == [fact |-> f, by |-> s.by, lane |-> l]
    <3>1. q \in sent /\ q.fact = f
      BY <2>1 DEF s, sent
    <3> HIDE DEF q
    <3> QED
      BY <1>4, <1>7, <2>1, <3>1
  <2>2. CASE Passed(y)
    <3>1. f \in facts \/ Gone(y, f) \/ (~Waited(y, f) /\ \E q \in pend : q.fact = f)
      BY <1>2, <2>2 DEF SoFar, LatesHold
    <3>2. CASE f \in facts
      BY <1>5, <1>7, <2>2, <3>2
    <3>3. CASE Gone(y, f)
      BY <1>7, <3>3
    <3>4. CASE ~Waited(y, f) /\ \E q \in pend : q.fact = f
      <4>1. CASE Prog!Awaits(prog, h, f)
        <5>1. f \in facts
          BY <1>8, <3>4, <4>1
        <5> QED
          BY <3>2, <5>1
      <4>2. CASE ~Prog!Awaits(prog, h, f)
        BY <1>4, <1>7, <2>2, <3>4, <4>2
      <4> QED
        BY <4>1, <4>2
    <3> QED
      BY <3>1, <3>2, <3>3, <3>4
  <2> QED
    BY <2>1, <2>2
<1>14. PendsFit'
  <2> SUFFICES ASSUME NEW q \in pend' PROVE \E y \in Spots : Pending(q, y)'
    BY <1>9 DEF PendsFit
  <2>1. CASE q \in pend
    <3>1. PICK y \in Spots : Pending(q, y)
      BY <1>2, <2>1 DEF SoFar, PendsFit
    <3>2. Prog!Awaits(prog, h, q.fact) => s.op = "poll" /\ ~Prog!Once(prog, y, q.fact)
      BY <1>2, <1>8, <2>1, <3>1 DEF SoFar, OnceFits, Pending
    <3> QED
      BY <1>7, <3>1, <3>2
  <2>2. CASE q \in sent
    <3>1. \A w \in Spots : Passed(w)' => ~Prog!Before(h, w) \/ ~Prog!Awaits(prog, w, q.fact)
      BY <1>7, <1>9 DEF Waited
    <3> QED
      BY <1>3, <1>6, <1>9, <1>10, <2>2, <3>1 DEF Pending, s
  <2> QED
    BY <1>4, <2>1, <2>2
<1>15. OnceFits'
  <2> SUFFICES ASSUME NEW q \in pend', NEW y \in Spots, q.fact \in Does(y).late,
                      Prog!Once(prog, y, q.fact)
               PROVE  q.fact \notin facts'
    BY <1>9 DEF OnceFits
  <2>1. q.fact \notin s.give
    BY <1>3 DEF Prog!Once, Spots, s, Does
  <2>2. CASE q \in pend
    BY <1>2, <1>5, <2>1, <2>2 DEF SoFar, OnceFits
  <2>3. CASE q \in sent
    <3>1. y = h
      BY <1>3, <1>10, <2>3 DEF Prog!Once, Spots, s, Does
    <3>2. q.fact \notin facts
      BY <1>2, <1>3, <3>1 DEF SoFar, FactsFit, Prog!Once, Spots, Does
    <3> QED
      BY <1>5, <2>1, <3>2
  <2> QED
    BY <1>4, <2>2, <2>3
<1>16. FactsFit'
  BY <1>2, <1>3, <1>5, <1>6, <1>9 DEF SoFar, FactsFit, s
<1> QED
  BY <1>11, <1>12, <1>13, <1>14, <1>15, <1>16 DEF SoFar

\* What fails is a transaction that an earlier one of its lane is in the way of, and
\* that the program goes on without.
LEMMA FailKeepsOrder == ASSUME NEW l \in 1 .. 2 PROVE OrderInv /\ Prog!Fail(l) => OrderInv'
<1> SUFFICES ASSUME OrderInv, Prog!Fail(l), Smooth' PROVE SoFar'
  BY FailKeeps DEF OrderInv
<1> PICK h : h = <<seg, l, at[l]>>
  OBVIOUS
<1> DEFINE s == Does(h)
<1>1. /\ Prog!Busy(l) /\ Prog!Consequence(l) /\ UNCHANGED <<prog, good, pend, shut>>
      /\ met' = (met \/ (Prog!Contended(l) /\ \E q \in Prog!Rivals(l) : q.lane # l))
      /\ Prog!Here(l).op \in {"call", "wait", "spin"}
  BY DEF Prog!Fail
<1>2. Smooth /\ SoFar /\ Prog!TypeOK /\ prog \in DOMAIN AllPrograms
  BY <1>1 DEF Smooth, OrderInv, ProgInv, Prog!TypeOK
<1>3. /\ h \in Spots /\ s = Prog!Here(l) /\ ~Passed(h)
      /\ \A y \in Spots : /\ Prog!Before(y, h) => Passed(y)
                          /\ Prog!Before(h, y) => ~Passed(y)
  BY <1>1, <1>2, Here
<1>4. Prog!Contended(l) /\ facts' = facts
  <2>1. Prog!Here(l).need \subseteq facts
    BY <1>1, <1>2, NeedsAreMet
  <2> QED
    BY <1>2, <2>1 DEF Prog!Fail, Smooth
<1>5. ~Prog!Unrivalled(prog, h)
  BY <1>1, <1>2, <1>4, RivalsAreElsewhere DEF Smooth
<1>6. s.fail = "on" /\ s.skip = 0 /\ s.late # {}
  <2>1. Prog!InOrder(prog)
    BY <1>2, CatalogueAssumption DEF Smooth
  <2> QED
    BY <1>3, <1>4, <1>5, <2>1 DEF Prog!InOrder, Prog!Contended, Spots, Does
<1>7. at' = [at EXCEPT ![l] = @ + 1] /\ seg' = seg /\ progRet' = progRet
  <2>1. at' = [at EXCEPT ![l] = @ + 1 + 0] /\ seg' = seg /\ progRet' = progRet
    BY <1>1, <1>3, <1>6 DEF Prog!Consequence
  <2>2. at[l] + 1 + 0 = at[l] + 1
    BY <1>2, ProgramFits
  <2> QED
    BY <1>2, <2>1, <2>2, ProgramFits
<1>8. \A y \in Spots : Passed(y)' <=> Passed(y) \/ y = h
  BY <1>1, <1>2, <1>7, Taken
<1>9. /\ Spots' = Spots
      /\ \A x : Does(x)' = Does(x)
      /\ \A x, f : Prog!Awaits(prog, x, f)' <=> Prog!Awaits(prog, x, f)
      /\ \A y, f : Prog!Once(prog, y, f)' <=> Prog!Once(prog, y, f)
      /\ \A y : Prog!Unrivalled(prog, y)' <=> Prog!Unrivalled(prog, y)
  BY <1>1, SameSpots
<1>10. \A f : ~Prog!Awaits(prog, h, f)
  BY <1>6 DEF Prog!Awaits, Does
<1>11. /\ \A y, f : Gone(y, f) => Gone(y, f)'
       /\ \A y \in Spots : \A f : Passed(y) /\ Waited(y, f)' => Waited(y, f)
       /\ \A q, y : Pending(q, y) => Pending(q, y)'
  BY <1>1, <1>2, <1>7, <1>10, StepTaken
<1> HIDE DEF s
<1>12. OnTime'
  <2>1. Segments' = Segments
    BY <1>1 DEF Segments
  <2> QED
    BY <1>2, <1>7, <2>1 DEF SoFar, OnTime
<1>13. GivesHold'
  <2> SUFFICES ASSUME NEW y \in Spots, Passed(y) \/ y = h, Does(y).late = {}, NEW f \in Does(y).give
               PROVE  f \in facts \/ Gone(y, f)'
    BY <1>4, <1>8, <1>9 DEF GivesHold
  <2>1. Passed(y)
    BY <1>6 DEF s
  <2> QED
    BY <1>2, <1>11, <2>1 DEF SoFar, GivesHold
<1>14. LatesHold'
  <2> SUFFICES ASSUME NEW y \in Spots, Passed(y) \/ y = h, Prog!Unrivalled(prog, y), NEW f \in Does(y).late
               PROVE  \/ f \in facts \/ Gone(y, f)'
                      \/ (~Waited(y, f)' /\ \E q \in pend : q.fact = f)
    BY <1>1, <1>4, <1>8, <1>9 DEF LatesHold
  <2>1. Passed(y)
    BY <1>5
  <2>2. f \in facts \/ Gone(y, f) \/ (~Waited(y, f) /\ \E q \in pend : q.fact = f)
    BY <1>2, <2>1 DEF SoFar, LatesHold
  <2> QED
    BY <1>11, <2>1, <2>2
<1>15. PendsFit'
  BY <1>1, <1>2, <1>9, <1>11 DEF SoFar, PendsFit
<1>16. OnceFits' /\ FactsFit'
  BY <1>1, <1>2, <1>4, <1>8, <1>9 DEF SoFar, OnceFits, FactsFit
<1> QED
  BY <1>12, <1>13, <1>14, <1>15, <1>16 DEF SoFar

\* Where it is in order, no loop ends without what it asked for.
LEMMA GiveUpKeepsOrder == ASSUME NEW l \in 1 .. 2 PROVE OrderInv /\ Prog!GiveUp(l) => OrderInv'
<1> SUFFICES ASSUME OrderInv, Prog!GiveUp(l), Smooth' PROVE FALSE
  BY GiveUpKeeps DEF OrderInv
<1>1. Smooth
  BY DEF Smooth, Prog!GiveUp
<1>2. /\ Prog!Busy(l) /\ \A q \in pend : ~Prog!Ready(q)
      /\ ~(Prog!Here(l).need \subseteq facts)
  BY <1>1 DEF Smooth, Prog!GiveUp
<1> QED
  BY <1>1, <1>2, NeedsAreMet

LEMMA OrderStutters == OrderInv /\ UNCHANGED progVars => OrderInv'
<1> SUFFICES ASSUME OrderInv, UNCHANGED progVars, Smooth' PROVE SoFar'
  BY ProgStutters DEF OrderInv
<1>1. UNCHANGED <<prog, good, seg, at, facts, pend, progRet, shut, slipped, met>>
  BY DEF progVars
<1>2. SoFar /\ Segments' = Segments
  BY <1>1 DEF Smooth, OrderInv, Segments
<1>3. \A y : Passed(y)' <=> Passed(y)
  BY <1>1 DEF Passed
<1>4. /\ \A y, f : Gone(y, f)' <=> Gone(y, f)
      /\ \A y, f : Waited(y, f)' <=> Waited(y, f)
      /\ \A q, y : Pending(q, y)' <=> Pending(q, y)
  BY <1>1, <1>3, SameSpots DEF Gone, Waited, Pending
<1>5. OnTime' /\ GivesHold' /\ LatesHold'
  BY <1>1, <1>2, <1>3, <1>4, SameSpots DEF SoFar, OnTime, GivesHold, LatesHold
<1>6. PendsFit' /\ OnceFits' /\ FactsFit'
  BY <1>1, <1>2, <1>3, <1>4, SameSpots DEF SoFar, PendsFit, OnceFits, FactsFit
<1> QED
  BY <1>5, <1>6 DEF SoFar

LEMMA OrderHolds == Prog!Spec => []OrderInv
<1>1. OrderInv /\ [Prog!Next]_(Prog!vars) => OrderInv'
  <2> SUFFICES ASSUME OrderInv, [Prog!Next]_(Prog!vars) PROVE OrderInv'
    OBVIOUS
  <2>1. CASE Prog!Done \/ UNCHANGED (Prog!vars)
    BY <2>1, OrderStutters DEF Prog!Done, Prog!vars, progVars
  <2> QED
    BY <2>1, BlockKeepsOrder, NextSegmentKeepsOrder, PassKeepsOrder, FailKeepsOrder,
       GiveUpKeepsOrder DEF Prog!Next
<1> QED
  BY <1>1, OrderInit, PTL DEF Prog!Spec

-----------------------------------------------------------------------------
(* The theorems.                                                           *)

\* When close returns Ok and nothing got out of reach, nothing is left, whatever
\* failed, was cancelled or called again before, for any number of chains,
\* relayers, links and calls (cosmos/interchain.rs, close).
THEOREM CloseAlwaysClean == Spec => []CloseIsClean
<1>1. BuilderInv => CloseIsClean
  BY DEF BuilderInv
<1> QED
  BY <1>1, BuilderHolds, PTL

\* When build returns Ok every chain and every relayer is up, also when it was
\* tried or closed before (cosmos/interchain.rs, build).
THEOREM BuildAlwaysUp == Spec => []BuildIsUp
<1>1. BuilderInv => BuildIsUp
  BY DEF BuilderInv
<1> QED
  BY <1>1, BuilderHolds, PTL

\* A program whose shutdown removes all that its steps make, in an order that
\* lets the network go, leaves nothing when it came to its shutdown, whatever
\* failed and was skipped before (examples/, ict-rs-cw-orch/examples/).
THEOREM ExitAlwaysClean == Prog!Spec => []CleanExit
  BY InvIsClean, ProgHolds, PTL

\* A program each of whose goals is needed or given by a step that cannot be
\* ignored, and taken away by none after it, has met them when it ends with Ok,
\* whatever its lanes do to each other (examples/, ict-rs-cw-orch/examples/).
THEOREM OkAlwaysDone == Prog!Spec => []Prog!OkMeansDone
  BY InvMeansDone, ProgHolds, PTL

\* An example ends with Ok where nothing fails of itself and no key is spent from
\* twice at a time, and where it ends with Ok it has seen what it is there to show:
\* for any programs whose calls are in order, however long, and whatever their
\* lanes do to each other (examples/, ict-rs-cw-orch/examples/).
THEOREM OkAlwaysRight == Prog!Spec => []OkIsRight
<1>1. OrderInv => Prog!Completes
  BY DEF OrderInv, Smooth, SoFar, OnTime, Prog!Completes, Prog!Ended, Prog!Segs, Segments
<1>2. OrderInv => Prog!OkMeansDone
  BY InvMeansDone DEF OrderInv
<1>3. OrderInv => OkIsRight
  BY <1>1, <1>2 DEF OkIsRight
<1> QED
  BY <1>3, OrderHolds, PTL

\* Builder and programs stay well typed: no chain is listed and no node struct
\* pushed more often than calls were made, and one command runs at a time.
THEOREM RunTyped == MCSpec => []TypesOK
<1>1. MCInit => BuilderInv /\ ProgInv
  BY BuilderInit, ProgInit DEF MCInit
<1>2. BuilderInv /\ ProgInv /\ [MCNext]_mcvars => BuilderInv' /\ ProgInv'
  <2> SUFFICES ASSUME BuilderInv, ProgInv, [MCNext]_mcvars PROVE BuilderInv' /\ ProgInv'
    OBVIOUS
  <2>1. CASE Next /\ UNCHANGED progVars
    BY <2>1, BuilderKept, ProgStutters
  <2>2. CASE Prog!Next /\ UNCHANGED vars
    BY <2>2, BuilderStutters, ProgKept
  <2>3. CASE UNCHANGED mcvars
    BY <2>3, BuilderStutters, ProgStutters DEF mcvars
  <2> QED
    BY <2>1, <2>2, <2>3 DEF MCNext
<1>3. BuilderInv /\ ProgInv => TypesOK
  BY BuilderTyped DEF ProgInv, TypesOK
<1> QED
  BY <1>1, <1>2, <1>3, PTL DEF MCSpec
=============================================================================
