-------------------------- MODULE TxSequenceProofs --------------------------
(* Signed transactions and block waits (TxSequence), for every value of    *)
(* the constants: TypeOK, OkIsAccepted, TwoBlocksConfirm.                  *)
EXTENDS TxSequence, Integers, SequenceTheorems, FiniteSetTheorems, FunctionTheorems, TLAPS

Steps  == {"idle", "query", "simulate", "broadcast", "height", "poll", "blocks", "blocks.poll"}
Locals == [seq : Nat, start : 0 .. MaxHeight, target : 0 .. MaxHeight + 2,
           last : 0 .. MaxHeight, idle : Nat]

\* A transaction is never older than the block before the last one, and what
\* is older than the last one is in the block being decided.
ChainInv ==
  /\ sequence \in [Account -> Nat] /\ mempool \in Seq(Tx)
  /\ deciding \in BOOLEAN /\ proposed \in 0 .. Len(mempool) /\ height \in 0 .. MaxHeight
  /\ deciding => height < MaxHeight
  /\ \A i \in DOMAIN mempool :
       /\ mempool[i].after <= height /\ height <= mempool[i].after + 1
       /\ deciding /\ mempool[i].after < height => i <= proposed

CallsTyped ==
  /\ key \in [Task -> Account]
  /\ pc \in [Task -> Steps] /\ route \in [Task -> Route \cup {"none"}]
  /\ calls \in [Task -> 0 .. MaxCalls] /\ local \in [Task -> Locals]
  /\ answer \in [Task -> {"none", "accepted", "refused"}]
  /\ ret \in [Task -> {"none", "ok", "gaveup", "err"}]

\* A CLI transaction under a key of its own: after the simulation the sequence
\* fits, and nobody else can change that before CheckTx.
Fits(t) ==
  route[t] \in {"node", "trait"} /\ Alone(t) =>
    /\ pc[t] = "broadcast" => local[t].seq = CheckSequence(key[t])
    /\ pc[t] \in {"height", "poll"} \/ ret[t] \in {"ok", "gaveup"} => answer[t] = "accepted"

InOrder(t) ==
  /\ local[t].idle < MaxPolls \/ local[t].idle < MaxStale
  /\ pc[t] # "idle" => ret[t] = "none" /\ calls[t] # 0
  /\ pc[t] \in {"query", "simulate", "broadcast"} => route[t] \in Route
  /\ pc[t] \in {"blocks", "blocks.poll"} => route[t] = "none"
  /\ pc[t] = "blocks" => local[t].target \in 1 .. 2

TxInv == ChainInv /\ CallsTyped /\ \A t \in Task : Fits(t) /\ InOrder(t)

-----------------------------------------------------------------------------
(* The chain.                                                              *)

LEMMA PendingFinite ==
  ASSUME ChainInv, NEW a
  PROVE  /\ IsFiniteSet(Pending(a)) /\ Cardinality(Pending(a)) \in Nat
         /\ Len(mempool) \in Nat /\ DOMAIN mempool = 1 .. Len(mempool)
<1>1. Len(mempool) \in Nat /\ DOMAIN mempool = 1 .. Len(mempool)
  BY LenProperties DEF ChainInv
<1>2. IsFiniteSet(1 .. Len(mempool))
  BY <1>1, FS_Interval
<1>3. Pending(a) \in SUBSET (1 .. Len(mempool))
  BY <1>1 DEF Pending
<1> QED BY <1>1, <1>2, <1>3, FS_Subset, FS_CardinalityType

LEMMA ProposeKeeps == ASSUME TxInv, Propose PROVE TxInv'
<1>1. Len(mempool) \in Nat /\ DOMAIN mempool = 1 .. Len(mempool)
  BY PendingFinite DEF TxInv
<1>2. ChainInv'
  BY <1>1 DEF Propose, TxInv, ChainInv
<1>3. CallsTyped'
  BY DEF Propose, TxInv, CallsTyped, callVars
<1>4. \A t \in Task : Fits(t)' /\ InOrder(t)'
  BY DEF Propose, TxInv, Fits, InOrder, Alone, CheckSequence, Pending, callVars
<1> QED BY <1>2, <1>3, <1>4 DEF TxInv

\* What is left of a mempool when a block took the first p.
LEMMA Rest ==
  ASSUME NEW s \in Seq(Tx), NEW p \in 0 .. Len(s)
  PROVE  LET r == SubSeq(s, p + 1, Len(s))
         IN  /\ r \in Seq(Tx) /\ Len(s) - p \in Nat /\ Len(r) = Len(s) - p
             /\ DOMAIN r = 1 .. Len(s) - p
             /\ \A i \in 1 .. Len(s) - p : r[i] = s[p + i]
<1> DEFINE r == SubSeq(s, p + 1, Len(s))
<1>1. PICK m : m = Len(s)
  OBVIOUS
<1>2. m \in Nat /\ p \in 0 .. m /\ \A i \in 1 .. m : s[i] \in Tx
  BY <1>1, LenProperties, ElementOfSeq
<1>3. /\ p + 1 \in Int /\ m \in Int /\ \A i \in p + 1 .. m : s[i] \in Tx
      /\ m - p \in Nat /\ m - (p + 1) + 1 = m - p
      /\ (IF p + 1 <= m THEN m - (p + 1) + 1 ELSE 0) = m - p
      /\ \A i \in 1 .. m - p : (p + 1) + i - 1 = p + i
  BY <1>2
<1>4. /\ r \in Seq(Tx) /\ Len(r) = (IF p + 1 <= m THEN m - (p + 1) + 1 ELSE 0)
      /\ \A i \in 1 .. m - (p + 1) + 1 : r[i] = s[(p + 1) + i - 1]
  BY <1>1, <1>3, SubSeqProperties
<1>5. Len(r) = m - p /\ \A i \in 1 .. m - p : r[i] = s[p + i]
  BY <1>3, <1>4
<1> HIDE DEF r
<1>6. DOMAIN r = 1 .. m - p
  BY <1>4, <1>5, LenProperties
<1> QED BY <1>1, <1>3, <1>4, <1>5, <1>6 DEF r

LEMMA AfterCommit ==
  ASSUME TxInv, Commit
  PROVE  \E n \in Nat :
           /\ n = Len(mempool) - proposed /\ mempool' \in Seq(Tx) /\ DOMAIN mempool' = 1 .. n
           /\ Len(mempool') = n /\ \A i \in 1 .. n : mempool'[i] = mempool[proposed + i]
<1>1. mempool \in Seq(Tx) /\ proposed \in 0 .. Len(mempool)
  BY DEF TxInv, ChainInv
<1>2. mempool' = SubSeq(mempool, proposed + 1, Len(mempool))
  BY DEF Commit
<1> QED BY <1>1, <1>2, Rest

\* What a block takes out of the mempool it adds to the committed sequences.
LEMMA CommitCounts ==
  ASSUME TxInv, Commit, NEW a \in Account
  PROVE  CheckSequence(a)' = CheckSequence(a)
<1> DEFINE front == Pending(a) \cap (1 .. proposed)
           rest  == Pending(a) \ (1 .. proposed)
<1>1. /\ Len(mempool) \in Nat /\ DOMAIN mempool = 1 .. Len(mempool) /\ proposed \in 0 .. Len(mempool)
      /\ IsFiniteSet(Pending(a))
  BY PendingFinite DEF TxInv, ChainInv
<1>2. mempool' = SubSeq(mempool, proposed + 1, Len(mempool)) /\ UNCHANGED key
      /\ sequence'[a] = sequence[a] + Cardinality(front)
  BY DEF Commit
<1>4. PICK n \in Nat : /\ n = Len(mempool) - proposed /\ mempool' \in Seq(Tx) /\ DOMAIN mempool' = 1 .. n
                       /\ Len(mempool') = n /\ \A i \in 1 .. n : mempool'[i] = mempool[proposed + i]
  BY AfterCommit
<1>5. PICK m : m = Len(mempool)
  OBVIOUS
<1>6. Cardinality(Pending(a)') = Cardinality(rest)
  <2> DEFINE f == [i \in rest |-> i - proposed]
  <2>0. m \in Nat /\ proposed \in 0 .. m /\ n = m - proposed /\ DOMAIN mempool = 1 .. m
    BY <1>1, <1>4, <1>5
  <2>1. \A i \in rest : i \in 1 .. m /\ i > proposed /\ key[mempool[i].by] = a
    BY <2>0 DEF Pending
  <2>2. Pending(a)' = {i \in 1 .. n : key[mempool[proposed + i].by] = a}
    BY <1>2, <1>4 DEF Pending
  <2>3. \A i \in rest : i - proposed \in 1 .. n /\ proposed + (i - proposed) = i
    BY <2>0, <2>1
  <2>4. f \in [rest -> Pending(a)']
    BY <2>1, <2>2, <2>3
  <2>5. \A i, j \in rest : f[i] = f[j] => i = j
    BY <2>0, <2>1
  <2>6. ASSUME NEW j \in Pending(a)' PROVE \E i \in rest : f[i] = j
    <3>1. j \in 1 .. n /\ key[mempool[proposed + j].by] = a
      BY <2>2, <2>6
    <3>2. proposed + j \in 1 .. m /\ proposed + j \notin 1 .. proposed
          /\ (proposed + j) - proposed = j
      BY <2>0, <3>1
    <3>3. proposed + j \in rest
      BY <2>0, <3>1, <3>2 DEF Pending
    <3> QED BY <3>2, <3>3
  <2>7. f \in Bijection(rest, Pending(a)')
    BY <2>4, <2>5, <2>6, Fun_IsBij
  <2>8. ExistsBijection(rest, Pending(a)')
    BY <2>7, Fun_ExistsBij
  <2>9. IsFiniteSet(rest)
    BY <1>1, FS_Subset
  <2> QED BY <2>8, <2>9, FS_Bijection
<1>7. Cardinality(Pending(a)) = Cardinality(front) + Cardinality(rest)
      /\ Cardinality(front) \in Nat /\ Cardinality(rest) \in Nat
  <2>1. front \cup rest = Pending(a) /\ front \cap rest = {}
    OBVIOUS
  <2>2. IsFiniteSet(front) /\ IsFiniteSet(rest)
    BY <1>1, FS_Subset
  <2>3. Cardinality({}) = 0
    BY FS_EmptySet
  <2>4. Cardinality(front) \in Nat /\ Cardinality(rest) \in Nat
    BY <2>2, FS_CardinalityType
  <2> HIDE DEF front, rest
  <2>5. Cardinality(front \cup rest) = Cardinality(front) + Cardinality(rest) - Cardinality(front \cap rest)
    BY <2>2, FS_Union
  <2>6. Cardinality(front \cap rest) = 0
    BY <2>1, <2>3
  <2>7. Cardinality(front \cup rest) = Cardinality(front) + Cardinality(rest)
    BY <2>4, <2>5, <2>6
  <2> QED BY <2>1, <2>4, <2>7
<1>8. sequence[a] \in Nat
  BY DEF TxInv, ChainInv
<1>9. CheckSequence(a)' = sequence'[a] + Cardinality(Pending(a)')
  BY DEF CheckSequence
<1> HIDE DEF front, rest
<1> QED BY <1>2, <1>6, <1>7, <1>8, <1>9 DEF CheckSequence

LEMMA CommitKeeps == ASSUME TxInv, Commit PROVE TxInv'
<1>1. /\ Len(mempool) \in Nat /\ DOMAIN mempool = 1 .. Len(mempool) /\ proposed \in 0 .. Len(mempool)
      /\ height \in 0 .. MaxHeight /\ height < MaxHeight
  BY PendingFinite DEF TxInv, ChainInv, Commit
<1>2. /\ mempool' = SubSeq(mempool, proposed + 1, Len(mempool)) /\ UNCHANGED <<key, callVars>>
      /\ height' = height + 1 /\ deciding' = FALSE /\ proposed' = 0
  BY DEF Commit
<1>3. \A i \in 1 .. Len(mempool) : mempool[i] \in Tx
  BY <1>1, ElementOfSeq DEF TxInv, ChainInv
<1>4. PICK n \in Nat : /\ n = Len(mempool) - proposed /\ mempool' \in Seq(Tx) /\ DOMAIN mempool' = 1 .. n
                       /\ Len(mempool') = n /\ \A i \in 1 .. n : mempool'[i] = mempool[proposed + i]
  BY AfterCommit
<1>5. PICK m : m = Len(mempool)
  OBVIOUS
<1>6. ASSUME NEW i \in DOMAIN mempool'
      PROVE  mempool'[i].after <= height' /\ height' <= mempool'[i].after + 1
  <2>1. /\ proposed + i \in 1 .. Len(mempool) /\ ~(proposed + i <= proposed)
        /\ mempool'[i] = mempool[proposed + i]
    <3>1. m \in Nat /\ proposed \in 0 .. m /\ n = m - proposed /\ i \in 1 .. n
      BY <1>1, <1>4, <1>5
    <3>2. proposed + i \in 1 .. m /\ ~(proposed + i <= proposed)
      BY <3>1
    <3> QED BY <1>4, <1>5, <3>1, <3>2
  <2>2. /\ mempool'[i].after <= height /\ ~(mempool'[i].after < height) /\ mempool'[i].after \in Nat
    <3>1. PICK j \in DOMAIN mempool : j = proposed + i
      BY <1>1, <2>1
    <3>2. /\ mempool[j].after <= height /\ (deciding /\ mempool[j].after < height => j <= proposed)
      BY DEF TxInv, ChainInv
    <3>3. mempool[j] \in Tx /\ deciding
      BY <1>1, <1>3 DEF Commit
    <3> QED BY <2>1, <3>1, <3>2, <3>3 DEF Tx
  <2> QED BY <1>1, <1>2, <2>2
<1>7. sequence' \in [Account -> Nat]
  <2>1. ASSUME NEW a \in Account PROVE Cardinality(Pending(a) \cap (1 .. proposed)) \in Nat
    <3>1. IsFiniteSet(Pending(a))
      BY PendingFinite DEF TxInv
    <3> QED BY <3>1, FS_Subset, FS_CardinalityType
  <2>2. \A a \in Account : sequence[a] \in Nat
    BY DEF TxInv, ChainInv
  <2>3. \A a \in Account : sequence[a] + Cardinality(Pending(a) \cap (1 .. proposed)) \in Nat
    BY <2>1, <2>2
  <2> QED BY <2>3 DEF Commit
<1>8. ChainInv'
  <2>1. height' \in 0 .. MaxHeight /\ deciding' \in BOOLEAN /\ proposed' \in 0 .. n
    <3>1. MaxHeight \in Nat /\ n \in Nat
      BY <1>4, TxAssumption
    <3>2. height' \in 0 .. MaxHeight /\ proposed' \in 0 .. n
      BY <1>1, <1>2, <3>1
    <3>3. deciding' \in BOOLEAN
      BY <1>2
    <3> QED BY <3>2, <3>3
  <2> QED BY <1>2, <1>4, <1>6, <1>7, <2>1 DEF ChainInv
<1>9. CallsTyped'
  BY <1>2 DEF TxInv, CallsTyped, callVars
<1>10. ASSUME NEW t \in Task PROVE Fits(t)' /\ InOrder(t)'
  <2>1. CheckSequence(key[t])' = CheckSequence(key[t])
    <3>1. key[t] \in Account /\ key'[t] = key[t]
      BY <1>2 DEF TxInv, CallsTyped
    <3>2. PICK a \in Account : a = key[t]
      BY <3>1
    <3>3. CheckSequence(a)' = CheckSequence(a)
      BY CommitCounts
    <3>4. CheckSequence(key[t])' = CheckSequence(a)'
      BY <3>1, <3>2 DEF CheckSequence, Pending
    <3> QED BY <3>2, <3>3, <3>4
  <2>2. Fits(t) /\ InOrder(t)
    BY DEF TxInv
  <2>3. Fits(t)'
    BY <1>2, <2>1, <2>2 DEF Fits, Alone, callVars
  <2>4. InOrder(t)'
    BY <1>2, <2>2 DEF InOrder, callVars
  <2> QED BY <2>3, <2>4
<1> QED BY <1>8, <1>9, <1>10 DEF TxInv

-----------------------------------------------------------------------------
(* The calls.                                                              *)

OneTask(t) ==
  \A u \in Task \ {t} : /\ pc'[u] = pc[u] /\ route'[u] = route[u] /\ calls'[u] = calls[u]
                        /\ local'[u] = local[u] /\ answer'[u] = answer[u] /\ ret'[u] = ret[u]

\* What a call does to the others: with a key of their own, nothing.
LEMMA OthersKeep ==
  ASSUME TxInv, NEW t \in Task, UNCHANGED key, OneTask(t),
         \A u \in Task : key[u] # key[t] => CheckSequence(key[u])' = CheckSequence(key[u])
  PROVE  \A u \in Task \ {t} : Fits(u)' /\ InOrder(u)'
<1> SUFFICES ASSUME NEW u \in Task \ {t} PROVE Fits(u)' /\ InOrder(u)'
  OBVIOUS
<1>1. Fits(u) /\ InOrder(u)
  BY DEF TxInv
<1>2. /\ pc'[u] = pc[u] /\ route'[u] = route[u] /\ calls'[u] = calls[u]
      /\ local'[u] = local[u] /\ answer'[u] = answer[u] /\ ret'[u] = ret[u]
  BY DEF OneTask
<1>3. InOrder(u)'
  BY <1>1, <1>2 DEF InOrder
<1>4. Alone(u)' => Alone(u) /\ CheckSequence(key[u])' = CheckSequence(key[u])
  BY DEF Alone
<1>5. Fits(u)'
  BY <1>1, <1>2, <1>4 DEF Fits
<1> QED BY <1>3, <1>5

LEMMA CallKeeps ==
  ASSUME TxInv, NEW t \in Task, UNCHANGED <<chainVars, key>>, CallsTyped', OneTask(t),
         Fits(t)', InOrder(t)'
  PROVE  TxInv'
<1>1. ChainInv'
  BY DEF TxInv, ChainInv, chainVars
<1>2. \A u \in Task : CheckSequence(key[u])' = CheckSequence(key[u])
  BY DEF CheckSequence, Pending, chainVars
<1>3. \A u \in Task \ {t} : Fits(u)' /\ InOrder(u)'
  BY <1>2, OthersKeep
<1> QED BY <1>1, <1>3 DEF TxInv

\* The call is at another step.
LEMMA AtStep ==
  ASSUME TxInv, NEW t \in Task, NEW step \in Steps, NEW l \in Locals, Goto(t, step, l),
         UNCHANGED <<key, route, calls>>, answer' = answer
  PROVE  /\ CallsTyped' /\ OneTask(t) /\ pc'[t] = step /\ local'[t] = l
         /\ route'[t] = route[t] /\ calls'[t] = calls[t] /\ ret'[t] = ret[t]
         /\ answer'[t] = answer[t] /\ Alone(t)' = Alone(t)
<1>1. pc' = [pc EXCEPT ![t] = step] /\ local' = [local EXCEPT ![t] = l] /\ UNCHANGED ret
  BY DEF Goto
<1>2. CallsTyped
  BY DEF TxInv
<1>3. CallsTyped' /\ pc'[t] = step /\ local'[t] = l
  BY <1>1, <1>2 DEF CallsTyped
<1>4. OneTask(t)
  BY <1>1, <1>2 DEF CallsTyped, OneTask
<1>5. Alone(t)' = Alone(t)
  BY DEF Alone
<1> QED BY <1>1, <1>3, <1>4, <1>5

LEMMA Returned ==
  ASSUME TxInv, NEW t \in Task, NEW r \in {"ok", "gaveup", "err"}, Return(t, r),
         UNCHANGED <<key, route, calls>>, answer' = answer
  PROVE  /\ CallsTyped' /\ OneTask(t) /\ pc'[t] = "idle" /\ local'[t] = NoLocals
         /\ route'[t] = route[t] /\ calls'[t] = calls[t] /\ ret'[t] = r
         /\ answer'[t] = answer[t] /\ Alone(t)' = Alone(t)
<1>1. /\ pc' = [pc EXCEPT ![t] = "idle"] /\ local' = [local EXCEPT ![t] = NoLocals]
      /\ ret' = [ret EXCEPT ![t] = r]
  BY DEF Return
<1>2. CallsTyped /\ NoLocals \in Locals
  BY TxAssumption DEF TxInv, NoLocals, Locals
<1>3. CallsTyped' /\ pc'[t] = "idle" /\ local'[t] = NoLocals /\ ret'[t] = r
  BY <1>1, <1>2 DEF CallsTyped, Steps
<1>4. OneTask(t)
  BY <1>1, <1>2 DEF CallsTyped, OneTask
<1>5. Alone(t)' = Alone(t)
  BY DEF Alone
<1> QED BY <1>1, <1>3, <1>4, <1>5

LEMMA ReturnKeeps ==
  ASSUME TxInv, NEW t \in Task, NEW r \in {"ok", "gaveup", "err"}, Return(t, r),
         UNCHANGED <<chainVars, key, route, calls>>, answer' = answer,
         route[t] \in {"node", "trait"} /\ Alone(t) /\ r # "err" => answer[t] = "accepted"
  PROVE  TxInv'
<1>1. /\ CallsTyped' /\ OneTask(t) /\ pc'[t] = "idle" /\ local'[t] = NoLocals
      /\ route'[t] = route[t] /\ calls'[t] = calls[t] /\ ret'[t] = r
      /\ answer'[t] = answer[t] /\ Alone(t)' = Alone(t)
  BY Returned
<1>2. InOrder(t)'
  BY <1>1, TxAssumption DEF InOrder, NoLocals
<1>3. Fits(t)'
  BY <1>1 DEF Fits
<1> QED BY <1>1, <1>2, <1>3, CallKeeps

LEMMA BeginKeeps ==
  ASSUME TxInv, NEW t \in Task, NEW l \in Locals, l.idle = 0,
         NEW step \in {"query", "blocks"}, NEW r \in Route \cup {"none"}, Begin(t, step, r, l),
         step = "query" => r \in Route, step = "blocks" => r = "none" /\ l.target \in 1 .. 2
  PROVE  TxInv'
<1>1. /\ pc' = [pc EXCEPT ![t] = step] /\ route' = [route EXCEPT ![t] = r]
      /\ calls' = [calls EXCEPT ![t] = @ + 1] /\ local' = [local EXCEPT ![t] = l]
      /\ answer' = [answer EXCEPT ![t] = "none"] /\ ret' = [ret EXCEPT ![t] = "none"]
      /\ calls[t] < MaxCalls /\ UNCHANGED <<chainVars, key>>
  BY DEF Begin
<1>2. CallsTyped
  BY DEF TxInv
<1>3. calls[t] + 1 \in 1 .. MaxCalls
  BY <1>1, <1>2, TxAssumption DEF CallsTyped
<1>4. /\ pc'[t] = step /\ route'[t] = r /\ calls'[t] # 0 /\ local'[t] = l
      /\ answer'[t] = "none" /\ ret'[t] = "none"
  BY <1>1, <1>2, <1>3 DEF CallsTyped
<1>5. CallsTyped'
  BY <1>1, <1>2, <1>3 DEF CallsTyped, Steps
<1>6. OneTask(t)
  BY <1>1, <1>2 DEF CallsTyped, OneTask
<1>7. InOrder(t)'
  BY <1>4, TxAssumption DEF InOrder
<1>8. Fits(t)'
  BY <1>4 DEF Fits
<1> QED BY <1>1, <1>5, <1>6, <1>7, <1>8, CallKeeps

LEMMA LocalTyped ==
  ASSUME TxInv, NEW t \in Task
  PROVE  /\ local[t] \in Locals /\ NoLocals \in Locals /\ height \in 0 .. MaxHeight
         /\ key[t] \in Account /\ sequence[key[t]] \in Nat
         /\ Fits(t) /\ InOrder(t)
  BY TxAssumption DEF TxInv, ChainInv, CallsTyped, Locals, NoLocals

LEMMA SendKeeps == ASSUME TxInv, NEW t \in Task, Send(t) PROVE TxInv'
<1>1. PICK r \in Route : Begin(t, "query", r, NoLocals)
  BY DEF Send
<1> QED BY <1>1, LocalTyped, BeginKeeps DEF NoLocals

LEMMA AwaitBlocksKeeps == ASSUME TxInv, NEW t \in Task, AwaitBlocks(t) PROVE TxInv'
<1>1. PICK n \in 1 .. 2 : Begin(t, "blocks", "none", [NoLocals EXCEPT !.target = n])
  BY DEF AwaitBlocks
<1> DEFINE l == [NoLocals EXCEPT !.target = n]
<1>2. l \in Locals /\ l.idle = 0 /\ l.target \in 1 .. 2
  BY TxAssumption DEF NoLocals, Locals
<1> HIDE DEF l
<1>3. Begin(t, "blocks", "none", l)
  BY <1>1 DEF l
<1> QED BY <1>2, <1>3, BeginKeeps

LEMMA SendFailsKeeps == ASSUME TxInv, NEW t \in Task, SendFails(t) PROVE TxInv'
<1>1. UNCHANGED <<chainVars, key, route, calls>> /\ answer' = answer
  BY DEF SendFails
<1>2. CASE Return(t, "err")
  BY <1>1, <1>2, ReturnKeeps
<1>3. CASE route[t] = "propose" /\ Return(t, "ok")
  BY <1>1, <1>3, ReturnKeeps
<1> QED BY <1>2, <1>3 DEF SendFails

LEMMA QueryAccountKeeps == ASSUME TxInv, NEW t \in Task, QueryAccount(t) PROVE TxInv'
<1> DEFINE l == [local[t] EXCEPT !.seq = sequence[key[t]]]
<1>1. l \in Locals /\ l.idle = local[t].idle
  BY LocalTyped DEF Locals
<1>2. /\ pc[t] = "query" /\ Goto(t, "simulate", l)
      /\ UNCHANGED <<chainVars, key, route, calls>> /\ answer' = answer
  BY DEF QueryAccount
<1> HIDE DEF l
<1>3. /\ CallsTyped' /\ OneTask(t) /\ pc'[t] = "simulate" /\ local'[t] = l
      /\ route'[t] = route[t] /\ calls'[t] = calls[t] /\ ret'[t] = ret[t]
      /\ answer'[t] = answer[t] /\ Alone(t)' = Alone(t)
  BY <1>1, <1>2, AtStep DEF Steps
<1>4. InOrder(t)'
  BY <1>1, <1>2, <1>3, LocalTyped DEF InOrder
<1>5. Fits(t)'
  BY <1>2, <1>3, LocalTyped DEF Fits
<1> QED BY <1>2, <1>3, <1>4, <1>5, CallKeeps

LEMMA SimulateKeeps == ASSUME TxInv, NEW t \in Task, Simulate(t) PROVE TxInv'
<1>1. /\ pc[t] = "simulate" /\ Goto(t, "broadcast", local[t])
      /\ UNCHANGED <<chainVars, key, route, calls>> /\ answer' = answer
      /\ route[t] = "builder" \/ local[t].seq = CheckSequence(key[t])
  BY DEF Simulate
<1>2. /\ CallsTyped' /\ OneTask(t) /\ pc'[t] = "broadcast" /\ local'[t] = local[t]
      /\ route'[t] = route[t] /\ calls'[t] = calls[t] /\ ret'[t] = ret[t]
      /\ answer'[t] = answer[t] /\ Alone(t)' = Alone(t)
  BY <1>1, LocalTyped, AtStep DEF Steps
<1>3. InOrder(t)'
  BY <1>1, <1>2, LocalTyped DEF InOrder
<1>4. CheckSequence(key[t])' = CheckSequence(key[t])
  BY <1>1 DEF CheckSequence, Pending, chainVars
<1>5. ret'[t] = "none"
  BY <1>1, <1>2, LocalTyped DEF InOrder
<1>6. Fits(t)'
  BY <1>1, <1>2, <1>4, <1>5 DEF Fits
<1> QED BY <1>1, <1>2, <1>3, <1>6, CallKeeps

LEMMA ReadHeightKeeps == ASSUME TxInv, NEW t \in Task, ReadHeight(t) PROVE TxInv'
<1>1. PICK h \in {height, 0} : Goto(t, "poll", [local[t] EXCEPT !.start = h])
  BY DEF ReadHeight
<1> DEFINE l == [local[t] EXCEPT !.start = h]
<1>2. l \in Locals /\ l.idle = local[t].idle
  BY LocalTyped, TxAssumption DEF Locals
<1>3. /\ pc[t] = "height" /\ Goto(t, "poll", l)
      /\ UNCHANGED <<chainVars, key, route, calls>> /\ answer' = answer
  BY <1>1 DEF ReadHeight
<1> HIDE DEF l
<1>4. /\ CallsTyped' /\ OneTask(t) /\ pc'[t] = "poll" /\ local'[t] = l
      /\ route'[t] = route[t] /\ calls'[t] = calls[t] /\ ret'[t] = ret[t]
      /\ answer'[t] = answer[t] /\ Alone(t)' = Alone(t)
  BY <1>2, <1>3, AtStep DEF Steps
<1>5. InOrder(t)'
  BY <1>2, <1>3, <1>4, LocalTyped DEF InOrder
<1>6. Fits(t)'
  BY <1>3, <1>4, LocalTyped DEF Fits
<1> QED BY <1>3, <1>4, <1>5, <1>6, CallKeeps

LEMMA PollHeightKeeps == ASSUME TxInv, NEW t \in Task, PollHeight(t) PROVE TxInv'
<1>1. /\ pc[t] = "poll" /\ UNCHANGED <<chainVars, key, route, calls>> /\ answer' = answer
  BY DEF PollHeight
<1>2. route[t] \in {"node", "trait"} /\ Alone(t) => answer[t] = "accepted"
  BY <1>1, LocalTyped DEF Fits
<1>3. CASE height > local[t].start /\ Return(t, "ok")
  BY <1>1, <1>2, <1>3, ReturnKeeps
<1>4. CASE local[t].idle + 1 >= MaxPolls /\ Return(t, "gaveup")
  BY <1>1, <1>2, <1>4, ReturnKeeps
<1>5. CASE local[t].idle + 1 < MaxPolls /\ Goto(t, "poll", [local[t] EXCEPT !.idle = @ + 1])
  <2> DEFINE l == [local[t] EXCEPT !.idle = @ + 1]
  <2>1. l \in Locals /\ l.idle < MaxPolls
    BY <1>5, LocalTyped DEF Locals
  <2>2. Goto(t, "poll", l)
    BY <1>5
  <2> HIDE DEF l
  <2>3. /\ CallsTyped' /\ OneTask(t) /\ pc'[t] = "poll" /\ local'[t] = l
        /\ route'[t] = route[t] /\ calls'[t] = calls[t] /\ ret'[t] = ret[t]
        /\ answer'[t] = answer[t] /\ Alone(t)' = Alone(t)
    BY <1>1, <2>1, <2>2, AtStep DEF Steps
  <2>4. InOrder(t)'
    BY <1>1, <2>1, <2>3, LocalTyped DEF InOrder
  <2>5. Fits(t)'
    BY <1>2, <2>3 DEF Fits
  <2> QED BY <1>1, <2>3, <2>4, <2>5, CallKeeps
<1> QED BY <1>3, <1>4, <1>5 DEF PollHeight

LEMMA AwaitStartKeeps == ASSUME TxInv, NEW t \in Task, AwaitStart(t) PROVE TxInv'
<1> DEFINE l == [local[t] EXCEPT !.start = height, !.last = height, !.target = height + @]
<1>1. /\ pc[t] = "blocks" /\ UNCHANGED <<chainVars, key, route, calls>> /\ answer' = answer
      /\ Goto(t, "blocks.poll", l) \/ Return(t, "err")
  BY DEF AwaitStart
<1>2. local[t].target \in 1 .. 2 /\ route[t] = "none"
  BY <1>1, LocalTyped DEF InOrder
<1>3. l \in Locals /\ l.idle = local[t].idle
  <2>1. height + local[t].target \in 0 .. MaxHeight + 2 /\ height \in 0 .. MaxHeight
    BY <1>2, LocalTyped, TxAssumption
  <2> QED BY <2>1, LocalTyped DEF Locals
<1> HIDE DEF l
<1>4. CASE Return(t, "err")
  BY <1>1, <1>4, ReturnKeeps
<1>5. CASE Goto(t, "blocks.poll", l)
  <2>1. /\ CallsTyped' /\ OneTask(t) /\ pc'[t] = "blocks.poll" /\ local'[t] = l
        /\ route'[t] = route[t] /\ calls'[t] = calls[t] /\ ret'[t] = ret[t]
        /\ answer'[t] = answer[t] /\ Alone(t)' = Alone(t)
    BY <1>1, <1>3, <1>5, AtStep DEF Steps
  <2>2. InOrder(t)'
    BY <1>1, <1>2, <1>3, <2>1, LocalTyped DEF InOrder
  <2>3. Fits(t)'
    BY <1>2, <2>1 DEF Fits
  <2> QED BY <1>1, <2>1, <2>2, <2>3, CallKeeps
<1> QED BY <1>1, <1>4, <1>5

LEMMA AwaitPollKeeps == ASSUME TxInv, NEW t \in Task, AwaitPoll(t) PROVE TxInv'
<1> DEFINE stale == IF height = local[t].last THEN local[t].idle + 1 ELSE 0
           l     == [local[t] EXCEPT !.last = height, !.idle = stale]
<1>1. /\ pc[t] = "blocks.poll" /\ UNCHANGED <<chainVars, key, route, calls>> /\ answer' = answer
      /\ \/ Return(t, "ok") \/ Return(t, "gaveup") \/ Return(t, "err")
         \/ stale < MaxStale /\ Goto(t, "blocks.poll", l)
  BY DEF AwaitPoll
<1>2. route[t] = "none" /\ stale \in Nat
  BY <1>1, LocalTyped DEF InOrder, Locals
<1>3. l \in Locals /\ l.idle = stale
  BY <1>2, LocalTyped DEF Locals
<1> HIDE DEF stale, l
<1>4. CASE Return(t, "ok") \/ Return(t, "gaveup") \/ Return(t, "err")
  BY <1>1, <1>2, <1>4, ReturnKeeps
<1>5. CASE stale < MaxStale /\ Goto(t, "blocks.poll", l)
  <2>1. /\ CallsTyped' /\ OneTask(t) /\ pc'[t] = "blocks.poll" /\ local'[t] = l
        /\ route'[t] = route[t] /\ calls'[t] = calls[t] /\ ret'[t] = ret[t]
        /\ answer'[t] = answer[t] /\ Alone(t)' = Alone(t)
    BY <1>1, <1>3, <1>5, AtStep DEF Steps
  <2>2. InOrder(t)'
    BY <1>1, <1>2, <1>3, <1>5, <2>1, LocalTyped DEF InOrder
  <2>3. Fits(t)'
    BY <1>2, <2>1 DEF Fits
  <2> QED BY <1>1, <2>1, <2>2, <2>3, CallKeeps
<1> QED BY <1>1, <1>4, <1>5

\* A transaction is pooled, with the height it was pooled at.
LEMMA Pooled ==
  ASSUME TxInv, NEW tx \in Tx, tx.after = height, mempool' = Append(mempool, tx),
         UNCHANGED <<sequence, deciding, proposed, height, key>>
  PROVE  /\ ChainInv'
         /\ \A u \in Task : key[u] # key[tx.by] => CheckSequence(key[u])' = CheckSequence(key[u])
<1>1. PICK m : m = Len(mempool)
  OBVIOUS
<1>2. m \in Nat /\ DOMAIN mempool = 1 .. m /\ proposed \in 0 .. m
  BY <1>1, PendingFinite DEF TxInv, ChainInv
<1>3. /\ mempool' \in Seq(Tx) /\ Len(mempool') = m + 1
      /\ \A i \in 1 .. m : mempool'[i] = mempool[i]
      /\ mempool'[m + 1] = tx
  BY <1>1, AppendProperties DEF TxInv, ChainInv
<1>4. DOMAIN mempool' = 1 .. m + 1
  BY <1>3, LenProperties
<1>5. \A i \in 1 .. m + 1 : i \in 1 .. m \/ i = m + 1
  BY <1>2
<1>6. ASSUME NEW i \in DOMAIN mempool'
      PROVE  /\ mempool'[i].after <= height /\ height <= mempool'[i].after + 1
             /\ deciding /\ mempool'[i].after < height => i <= proposed
  <2>1. CASE i \in 1 .. m
    BY <1>2, <1>3, <2>1 DEF TxInv, ChainInv
  <2>2. CASE i = m + 1
    <3>1. mempool'[i].after = height /\ height \in Nat
      BY <1>3, <2>2 DEF TxInv, ChainInv
    <3> QED BY <3>1
  <2> QED BY <1>4, <1>5, <2>1, <2>2
<1>7. ChainInv'
  <2>1. proposed \in 0 .. m + 1
    BY <1>2
  <2> QED BY <1>3, <1>6, <2>1 DEF TxInv, ChainInv
<1>8. ASSUME NEW u \in Task, key[u] # key[tx.by]
      PROVE  CheckSequence(key[u])' = CheckSequence(key[u])
  <2>1. Pending(key[u])' = Pending(key[u])
    <3>1. Pending(key[u])' = {i \in 1 .. m + 1 : key[mempool'[i].by] = key[u]}
      BY <1>4 DEF Pending
    <3>2. Pending(key[u]) = {i \in 1 .. m : key[mempool[i].by] = key[u]}
      BY <1>2 DEF Pending
    <3>3. 1 .. m \subseteq 1 .. m + 1
      BY <1>2
    <3> QED BY <1>3, <1>5, <1>8, <3>1, <3>2, <3>3
  <2> QED BY <2>1 DEF CheckSequence
<1> QED BY <1>7, <1>8

LEMMA BroadcastKeeps == ASSUME TxInv, NEW t \in Task, Broadcast(t) PROVE TxInv'
<1> DEFINE fits == local[t].seq = CheckSequence(key[t])
           tx   == [by |-> t, call |-> calls[t], seq |-> local[t].seq, after |-> height]
<1>1. /\ pc[t] = "broadcast"
      /\ mempool' = IF fits THEN Append(mempool, tx) ELSE mempool
      /\ answer' = [answer EXCEPT ![t] = IF fits THEN "accepted" ELSE "refused"]
      /\ \/ route[t] = "node" /\ Goto(t, "height", NoLocals)
         \/ route[t] # "node" /\ Return(t, "ok")
         \/ Return(t, "err")
      /\ UNCHANGED <<sequence, deciding, proposed, height, key, route, calls>>
  BY DEF Broadcast
<1>2. tx \in Tx /\ tx.after = height /\ tx.by = t
  <2>1. calls[t] \in 1 .. MaxCalls
    BY <1>1, LocalTyped DEF InOrder, TxInv, CallsTyped
  <2> QED BY <2>1, LocalTyped DEF Tx, Locals
<1>3. route[t] \in {"node", "trait"} /\ Alone(t) => fits
  BY <1>1, LocalTyped DEF Fits
<1> HIDE DEF fits, tx
<1>4. /\ ChainInv'
      /\ \A u \in Task : key[u] # key[t] => CheckSequence(key[u])' = CheckSequence(key[u])
  <2>1. CASE fits
    <3>1. mempool' = Append(mempool, tx)
      BY <1>1, <2>1
    <3> QED BY <1>1, <1>2, <3>1, Pooled
  <2>2. CASE ~fits
    <3>1. UNCHANGED <<mempool, sequence, deciding, proposed, height, key>>
      BY <1>1, <2>2
    <3> QED BY <3>1 DEF TxInv, ChainInv, CheckSequence, Pending
  <2> QED BY <2>1, <2>2
<1>5. CallsTyped /\ NoLocals \in Locals /\ NoLocals.idle = 0
  BY LocalTyped DEF TxInv, NoLocals
<1>6. /\ answer' \in [Task -> {"none", "accepted", "refused"}]
      /\ answer'[t] = (IF fits THEN "accepted" ELSE "refused")
      /\ \A u \in Task \ {t} : answer'[u] = answer[u]
  BY <1>1, <1>5 DEF CallsTyped
<1>7. ret = [ret EXCEPT ![t] = "none"]
  <2>1. ret[t] = "none" /\ ret \in [Task -> {"none", "ok", "gaveup", "err"}]
    BY <1>1, LocalTyped DEF InOrder, TxInv, CallsTyped
  <2> QED BY <2>1
<1>8. ASSUME NEW step \in {"height", "idle"}, NEW r \in {"none", "ok", "err"},
             step = "height" => route[t] = "node" /\ r = "none",
             pc' = [pc EXCEPT ![t] = step], local' = [local EXCEPT ![t] = NoLocals],
             ret' = [ret EXCEPT ![t] = r]
      PROVE  TxInv'
  <2>1. CallsTyped'
    BY <1>1, <1>5, <1>6, <1>8 DEF CallsTyped, Steps
  <2>2. pc'[t] = step /\ local'[t] = NoLocals /\ ret'[t] = r
         /\ \A u \in Task \ {t} : pc'[u] = pc[u] /\ local'[u] = local[u] /\ ret'[u] = ret[u]
    BY <1>5, <1>8 DEF CallsTyped
  <2>3. OneTask(t)
    BY <1>1, <1>6, <2>2 DEF OneTask
  <2>4. \A u \in Task \ {t} : Fits(u)' /\ InOrder(u)'
    BY <1>1, <1>4, <2>3, OthersKeep
  <2>5. InOrder(t)'
    <3>1. calls'[t] # 0
      BY <1>1, LocalTyped DEF InOrder
    <3> QED BY <1>5, <1>8, <2>2, <3>1, TxAssumption DEF InOrder
  <2>6. Fits(t)'
    <3>1. route'[t] = route[t] /\ (Alone(t)' <=> Alone(t))
      BY <1>1 DEF Alone
    <3> QED BY <1>3, <1>6, <1>8, <2>2, <3>1 DEF Fits
  <2> QED BY <1>4, <2>1, <2>4, <2>5, <2>6 DEF TxInv
<1>9. CASE route[t] = "node" /\ Goto(t, "height", NoLocals)
  <2>1. ret' = [ret EXCEPT ![t] = "none"]
    BY <1>7, <1>9 DEF Goto
  <2> QED BY <1>8, <1>9, <2>1 DEF Goto
<1>10. CASE route[t] # "node" /\ Return(t, "ok")
  BY <1>8, <1>10 DEF Return
<1>11. CASE Return(t, "err")
  BY <1>8, <1>11 DEF Return
<1> QED BY <1>1, <1>9, <1>10, <1>11

-----------------------------------------------------------------------------
LEMMA TxStarts == Init => TxInv
<1> SUFFICES ASSUME Init PROVE TxInv
  OBVIOUS
<1>1. ChainInv
  <2>1. <<>> \in Seq(Tx) /\ Len(<<>>) = 0 /\ DOMAIN <<>> = {}
    BY EmptySeq
  <2>2. 0 \in 0 .. MaxHeight
    BY TxAssumption
  <2>3. sequence \in [Account -> Nat] /\ mempool = <<>> /\ ~deciding /\ proposed = 0 /\ height = 0
    BY DEF Init
  <2>4. deciding \in BOOLEAN
    BY DEF Init
  <2>5. 0 \in 0 .. Len(<<>>)
    BY <2>1
  <2> QED BY <2>1, <2>2, <2>3, <2>4, <2>5 DEF ChainInv
<1>2. CallsTyped
  BY TxAssumption DEF Init, CallsTyped, Steps, Locals, NoLocals
<1>3. \A t \in Task : Fits(t) /\ InOrder(t)
  BY TxAssumption DEF Init, Fits, InOrder, NoLocals
<1> QED BY <1>1, <1>2, <1>3 DEF TxInv

LEMMA TxSteps == TxInv /\ [Next]_vars => TxInv'
<1> SUFFICES ASSUME TxInv, [Next]_vars PROVE TxInv'
  OBVIOUS
<1>1. CASE UNCHANGED vars
  BY <1>1 DEF vars, chainVars, callVars, TxInv, ChainInv, CallsTyped, Fits, InOrder, Alone,
              CheckSequence, Pending
<1>2. CASE Propose
  BY <1>2, ProposeKeeps
<1>3. CASE Commit
  BY <1>3, CommitKeeps
<1>4. ASSUME NEW t \in Task, Send(t) \/ AwaitBlocks(t) \/ Step(t) PROVE TxInv'
  BY <1>4, SendKeeps, AwaitBlocksKeeps, SendFailsKeeps, QueryAccountKeeps, SimulateKeeps,
     BroadcastKeeps, ReadHeightKeeps, PollHeightKeeps, AwaitStartKeeps, AwaitPollKeeps DEF Step
<1> QED BY <1>1, <1>2, <1>3, <1>4 DEF Next

LEMMA TxInvariant == Spec => []TxInv
BY TxStarts, TxSteps, PTL DEF Spec

\* Every height, sequence, poll count and step stays in its range, also on a
\* chain that stops.
THEOREM TxTyped == Spec => []TypeOK
<1>1. TxInv => TypeOK
  BY DEF TxInv, ChainInv, CallsTyped, InOrder, TypeOK, Steps, Locals
<1> QED BY <1>1, TxInvariant, PTL

\* A CLI transaction that returned Ok was accepted, unless another task signs
\* with the same key (cosmos/node.rs: the simulation of `--gas auto`).
THEOREM OkAlwaysAccepted == Spec => []OkIsAccepted
<1>1. TxInv => OkIsAccepted
  BY DEF TxInv, Fits, OkIsAccepted
<1> QED BY <1>1, TxInvariant, PTL

\* Who waits for two blocks, and sees them, finds nothing in the mempool that
\* was there when the wait began (cosmos/interchain.rs, wait_for_blocks).
THEOREM TwoBlocksAlwaysConfirm == Spec => TwoBlocksConfirm
<1>1. ASSUME TxInv, Next, NEW t \in Task, pc[t] = "blocks.poll", ret'[t] = "ok",
             local[t].target = local[t].start + 2, NEW i \in DOMAIN mempool
      PROVE  mempool[i].after > local[t].start
  <2>1. ret[t] = "none" /\ ret \in [Task -> {"none", "ok", "gaveup", "err"}]
    BY <1>1 DEF TxInv, InOrder, CallsTyped
  <2>2. ASSUME NEW u \in Task, u # t, Send(u) \/ AwaitBlocks(u) \/ Step(u) PROVE ret'[t] = ret[t]
    BY <2>1, <2>2 DEF Send, AwaitBlocks, Begin, Step, SendFails, QueryAccount, Simulate, Broadcast,
       ReadHeight, PollHeight, AwaitStart, AwaitPoll, Goto, Return
  <2>3. Propose \/ Commit => ret'[t] = ret[t]
    BY DEF Propose, Commit, callVars
  <2>4. ~(Send(t) \/ AwaitBlocks(t))
    BY <1>1 DEF Send, AwaitBlocks, Begin
  <2>5. ~(SendFails(t) \/ QueryAccount(t) \/ Simulate(t) \/ Broadcast(t) \/ ReadHeight(t)
          \/ PollHeight(t) \/ AwaitStart(t))
    BY <1>1 DEF SendFails, QueryAccount, Simulate, Broadcast, ReadHeight, PollHeight, AwaitStart
  <2>6. AwaitPoll(t)
    BY <1>1, <2>1, <2>2, <2>3, <2>4, <2>5 DEF Next, Step
  <2>7. height >= local[t].target
    BY <1>1, <2>1, <2>6 DEF AwaitPoll, Goto, Return
  <2>8. local[t].start \in Nat /\ height \in Nat
    BY LocalTyped, <1>1 DEF Locals
  <2>9. mempool[i] \in Tx /\ height <= mempool[i].after + 1
    BY <1>1, ElementOfSeq, PendingFinite DEF TxInv, ChainInv
  <2>10. mempool[i].after \in Nat
    BY <2>9 DEF Tx
  <2> QED BY <1>1, <2>7, <2>8, <2>9, <2>10
<1>2. TxInv /\ [Next]_vars =>
        [\A t \in Task :
           pc[t] = "blocks.poll" /\ ret'[t] = "ok" /\ local[t].target = local[t].start + 2 =>
             \A i \in DOMAIN mempool : mempool[i].after > local[t].start]_vars
  BY <1>1
<1> QED BY <1>2, TxInvariant, PTL DEF Spec, TwoBlocksConfirm
=============================================================================
