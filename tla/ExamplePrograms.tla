--------------------------- MODULE ExamplePrograms ---------------------------
(***************************************************************************)
(* The example programs, run: a program takes its steps in order, its world*)
(* takes transactions into blocks and packets over, and any call may fail  *)
(* whatever it did.  `good` is a world in which a call fails only when what*)
(* it needs is missing and where blocks and packets arrive while they are  *)
(* waited for.                                                             *)
(***************************************************************************)
EXTENDS ExampleSteps, Naturals, Sequences

CONSTANTS Programs,     \* the programs, by name
          Goals         \* what each of them is there to show

VARIABLES
  prog, good,
  seg, at,          \* segment, and in it the next step of each lane
  facts, pend,      \* what holds; what waits for a block, with its signer
  ret,              \* the error that is kept, or how the program ended
  shut, slipped,    \* was the shutdown reached; did a removal of it fail?
  met               \* did two lanes spend from one key at a time?

vars == <<prog, good, seg, at, facts, pend, ret, shut, slipped, met>>

Segs  == Programs[prog].segs
From  == Programs[prog].from
Ended == Len(Segs) + 1
Lanes == DOMAIN Segs[seg]

Here(l) == Segs[seg][l][at[l]]
Busy(l) == seg < Ended /\ l \in Lanes /\ at[l] <= Len(Segs[seg][l])

TypeOK ==
  /\ prog \in DOMAIN Programs /\ good \in BOOLEAN
  /\ seg \in 1 .. Ended /\ at \in [1 .. 2 -> Nat \ {0}]
  /\ ret \in {"none", "ok", "fail", "err", "panic"}
  /\ shut \in BOOLEAN /\ slipped \in BOOLEAN /\ met \in BOOLEAN
  /\ \A p \in pend : DOMAIN p = {"fact", "by", "lane"}

Init ==
  /\ prog \in DOMAIN Programs /\ good \in BOOLEAN
  /\ seg = 1 /\ at = [l \in 1 .. 2 |-> 1]
  /\ facts = {} /\ pend = {} /\ ret = "none" /\ shut = FALSE /\ slipped = FALSE /\ met = FALSE

-----------------------------------------------------------------------------

\* A packet arrives when a relayer runs.
Ready(p) == p.fact[1] = "received" => Relaying \in facts

Block ==
  /\ seg < Ended
  /\ \E p \in pend : Ready(p) /\ facts' = facts \cup {p.fact} /\ pend' = pend \ {p}
  /\ UNCHANGED <<prog, good, seg, at, ret, shut, slipped, met>>

\* (Mutant) The network is asked for before the containers are removed.
WithoutMut(gone) ==
  LET left == facts \ gone IN
  IF \E f \in facts : f[1] \in {"box", "relaying"} THEN left \cup ({Net} \cap facts) ELSE left

\* The network stays as long as a container is on it.
Without(gone) ==
  LET left == facts \ gone IN
  IF \E f \in left : f[1] \in {"box", "relaying"} THEN left \cup ({Net} \cap facts) ELSE left

\* A transaction of the same key is not in a block: the next one may be signed
\* with the same sequence number, which CheckTx refuses.
Rivals(l)    == {p \in pend : p.by = Here(l).by}
Contended(l) == Here(l).late # {} /\ Rivals(l) # {}

Advance(l) == at' = [at EXCEPT ![l] = @ + 1]

Pass(l) ==
  LET s == Here(l) IN
  /\ Busy(l) /\ s.need \subseteq facts
  /\ good /\ s.op = "wait" => \A p \in pend : ~Ready(p)
  /\ Advance(l)
  /\ facts' = Without(s.drop) \cup s.give
  /\ \/ pend' = pend \cup [fact : s.late, by : {s.by}, lane : {l}]
     \/ ~good /\ pend' = pend                  \* refused, with exit code 0
  /\ UNCHANGED <<prog, good, seg, ret, shut, slipped, met>>

\* An error ends the lane, a panic the program; a failure that is only recorded,
\* or not looked at, does neither.
Consequence(l) ==
  LET s == Here(l)  through == [at EXCEPT ![l] = Len(Segs[seg][l]) + 1] IN
  \/ s.fail = "on" /\ at' = [at EXCEPT ![l] = @ + 1 + s.skip] /\ UNCHANGED <<seg, ret>>
  \/ s.fail = "note" /\ Advance(l) /\ ret' = "fail" /\ UNCHANGED seg
  \/ s.fail = "gate" /\ at' = through /\ ret' = "fail" /\ UNCHANGED seg
  \/ s.fail = "err" /\ at' = through /\ ret' = "err" /\ UNCHANGED seg
  \/ s.fail = "panic" /\ seg' = Ended /\ ret' = "panic" /\ UNCHANGED at

\* (A removal of what was never kept is not tried.)
Fail(l) ==
  LET s == Here(l)  unmet == ~(s.need \subseteq facts) IN
  /\ Busy(l) /\ s.op \in {"call", "wait", "spin"}
  /\ ~good \/ (s.op # "spin" /\ unmet) \/ Contended(l)
  /\ met' = (met \/ (Contended(l) /\ \E p \in Rivals(l) : p.lane # l))
  /\ facts' \in (IF good THEN {facts} ELSE {facts, facts \cup s.give})
  /\ slipped' = (slipped \/ (~unmet /\ \E f \in s.drop : Lasts(f)))
  /\ Consequence(l)
  /\ UNCHANGED <<prog, good, pend, shut>>

GiveUp(l) ==
  LET s == Here(l) IN
  /\ Busy(l) /\ s.op = "poll"
  /\ ~good \/ ((\A p \in pend : ~Ready(p)) /\ ~(s.need \subseteq facts))
  /\ Consequence(l)
  /\ UNCHANGED <<prog, good, facts, pend, shut, slipped, met>>

\* (Mutant) The result of the shutdown is returned, not that of the test.
NextSegmentMut ==
  /\ seg < Ended /\ \A l \in Lanes : ~Busy(l)
  /\ seg' = IF ret \in {"none", "fail"} \/ seg = Len(Segs) THEN seg + 1
            ELSE IF seg >= From THEN Len(Segs) ELSE Ended
  /\ at' = [l \in 1 .. 2 |-> 1]
  /\ ret' = IF seg' # Ended THEN ret ELSE IF seg = Len(Segs) THEN "ok" ELSE "err"
  /\ shut' = (shut \/ seg' = Len(Segs))
  /\ UNCHANGED <<prog, good, facts, pend, slipped, met>>

\* The lanes are through.
NextSegment ==
  /\ seg < Ended /\ \A l \in Lanes : ~Busy(l)
  /\ seg' = IF ret \in {"none", "fail"} \/ seg = Len(Segs) THEN seg + 1
            ELSE IF seg >= From THEN Len(Segs) ELSE Ended
  /\ at' = [l \in 1 .. 2 |-> 1]
  /\ ret' = IF seg' # Ended THEN ret
            ELSE IF ret = "none" THEN "ok" ELSE "err"
  /\ shut' = (shut \/ seg' = Len(Segs))
  /\ UNCHANGED <<prog, good, facts, pend, slipped, met>>

Done == seg = Ended /\ UNCHANGED vars

Next == Block \/ NextSegment \/ Done \/ \E l \in 1 .. 2 : Pass(l) \/ Fail(l) \/ GiveUp(l)

Spec == Init /\ [][Next]_vars

-----------------------------------------------------------------------------
(* Shapes of programs: what can be read off a program, without running it. *)

\* Segments, one at least, of at most two lanes, and lanes of steps.
WellFormed(p) ==
  LET segs == Programs[p].segs IN
  /\ Len(segs) \in Nat \ {0} /\ DOMAIN segs = 1 .. Len(segs)
  /\ \A g \in DOMAIN segs : DOMAIN segs[g] \subseteq 1 .. 2
  /\ \A g \in DOMAIN segs : \A l \in DOMAIN segs[g] :
       /\ Len(segs[g][l]) \in Nat /\ DOMAIN segs[g][l] = 1 .. Len(segs[g][l])
       /\ \A i \in DOMAIN segs[g][l] : segs[g][l][i].skip \in Nat

StepsOf(p) ==
  LET segs == Programs[p].segs IN
  UNION {UNION {{segs[g][l][i] : i \in DOMAIN segs[g][l]} : l \in DOMAIN segs[g]} : g \in DOMAIN segs}

\* Does the i-th step of lane l of segment g see to it that f holds, unless the
\* program is not to end with Ok, and does nothing else take f away after it?
ShownAt(p, f, g, l, i) ==
  LET segs == Programs[p].segs  s == segs[g][l][i] IN
  /\ s.fail # "on" /\ f \in s.give \cup (s.need \ s.drop)
  /\ \A j \in 1 .. i - 1 : segs[g][l][j].fail = "on" => j + segs[g][l][j].skip < i
  /\ \A h \in g .. Len(segs) : \A k \in DOMAIN segs[h] : \A j \in DOMAIN segs[h][k] :
       h > g \/ k # l \/ j > i => f \notin segs[h][k][j].drop

Shown(p, f) ==
  LET segs == Programs[p].segs IN
  \E g \in DOMAIN segs : \E l \in DOMAIN segs[g] : \E i \in DOMAIN segs[g][l] : ShownAt(p, f, g, l, i)

\* The last segment of a program shuts down what the others made.
Shutdown(p) == Programs[p].segs[Len(Programs[p].segs)][1]

\* The i-th step of the shutdown removes f, whatever holds, for good.
Drops(p, f, i) ==
  LET steps == Shutdown(p) IN
  /\ i \in DOMAIN steps /\ f \in steps[i].drop /\ steps[i].need = {} /\ steps[i].op # "poll"
  /\ \A j \in i .. Len(steps) : f \notin steps[j].give

\* The network can be removed when all that runs on it was.
Removes(p, f, i) ==
  /\ Drops(p, f, i)
  /\ f = Net => \A g \in UNION {s.give : s \in StepsOf(p)} :
                  g[1] \in {"box", "relaying"} => \E k \in 1 .. i : Drops(p, g, k)

\* The shutdown is one lane, that nothing ends early; it removes all that lasts.
Tidy(p) ==
  LET segs == Programs[p].segs  steps == Shutdown(p) IN
  /\ DOMAIN segs[Len(segs)] = {1}
  /\ \A i \in DOMAIN steps : steps[i].fail \notin {"err", "gate"} /\ steps[i].skip = 0
  /\ \A s \in StepsOf(p) : (\A f \in s.late : ~Lasts(f))
                           /\ \A f \in s.give : Lasts(f) => \E i \in DOMAIN steps : Removes(p, f, i)

\* Every step by its place: segment, lane and index.
Places(p) ==
  LET segs == Programs[p].segs IN
  UNION {UNION {{<<g, l, i>> : i \in DOMAIN segs[g][l]} : l \in DOMAIN segs[g]} : g \in DOMAIN segs}

StepAt(p, x) == Programs[p].segs[x[1]][x[2]][x[3]]

\* x is taken before y whatever the lanes do to each other.
Before(x, y) == x[1] < y[1] \/ (x[1] = y[1] /\ x[2] = y[2] /\ x[3] < y[3])

\* No step that may come between y and x takes f away.
Untouched(p, y, x, f) ==
  \A z \in Places(p) : f \in StepAt(p, z).drop => z = y \/ Before(z, y) \/ z = x \/ Before(x, z)

\* A call before x, which is no transaction, gives f.
Given(p, x, f) ==
  \E y \in Places(p) :
    Before(y, x) /\ f \in StepAt(p, y).give /\ StepAt(p, y).late = {} /\ Untouched(p, y, x, f)

\* At w, which is no transaction, the program waits for f to be in a block, or for
\* its packet.
Awaits(p, w, f) ==
  /\ StepAt(p, w).late = {}
  /\ StepAt(p, w).op = "wait" \/ (StepAt(p, w).op = "poll" /\ f \in StepAt(p, w).need)
  /\ f[1] = "received" => Given(p, w, Relaying)

\* Only the transaction y makes f hold.
Once(p, y, f) == \A z \in Places(p) : f \notin StepAt(p, z).give /\ (f \in StepAt(p, z).late => z = y)

\* When the transaction x is signed, those of the same key before it were waited
\* for, until they were in a block.
Unrivalled(p, x) ==
  StepAt(p, x).late # {} =>
    \A y \in Places(p) : Before(y, x) /\ StepAt(p, y).by = StepAt(p, x).by =>
      \A f \in StepAt(p, y).late : \E w \in Places(p) :
        /\ Before(y, w) /\ Before(w, x) /\ Awaits(p, w, f)
        /\ StepAt(p, w).op = "poll" => Once(p, y, f)

\* What x needs is there when it is taken: given by a call, or by a transaction
\* that was waited for, if only by x itself.
Served(p, x, f) ==
  \/ Given(p, x, f)
  \/ \E y \in Places(p) :
       /\ Before(y, x) /\ f \in StepAt(p, y).late /\ Unrivalled(p, y) /\ Untouched(p, y, x, f)
       /\ \E w \in Places(p) :
            Before(y, w) /\ Awaits(p, w, f) /\ (Before(w, x) \/ (w = x /\ StepAt(p, x).op = "poll"))

\* The calls are in an order the library allows: nothing fails for what is missing,
\* and a transaction that an earlier one stands in the way of may fail.
InOrder(p) ==
  \A x \in Places(p) :
    /\ \A f \in StepAt(p, x).need : Served(p, x, f)
    /\ Unrivalled(p, x) \/ (StepAt(p, x).fail = "on" /\ StepAt(p, x).skip = 0)

-----------------------------------------------------------------------------
(* Properties.                                                             *)

\* The calls of every example are in an order the library allows: in a world
\* where nothing fails of itself it ends with Ok, unless two of its tasks spent
\* from one key at the same time.  (cosmos_upgrade is the exception: its default
\* workflow runs a command that no container has.)
Completes == seg = Ended /\ good /\ ~met /\ prog # "cosmos_upgrade" => ret = "ok"

\* An example that ends with Ok has seen what it is there to show, whatever
\* failed and was not looked at on the way.
OkMeansDone == seg = Ended /\ ret = "ok" => Goals[prog] \subseteq facts

\* The examples whose shutdown does not know of everything they made: handles are
\* kept only after the start, a process only when it answered, a network never.
Untidy == {"trustless_builder", "loyalty_rewards"}

\* Any other example that came to its shutdown leaves nothing running and no
\* volume or network, whatever failed before, unless a removal failed or it
\* panicked.
CleanExit ==
  seg = Ended /\ shut /\ ~slipped /\ ret # "panic" /\ prog \notin Untidy
    => \A f \in facts : ~Lasts(f)
=============================================================================
