---------------------------- MODULE LeanExamples ----------------------------
(***************************************************************************)
(* The example programs about a validator set that the chain's leanval     *)
(* module owns: lean_terpz, and lean_production_e2e and lean_testnet_gates *)
(* of ict-rs-cw-orch.  The last two keep a table of capabilities: a        *)
(* capability that failed is recorded, its workflow ends, and the program  *)
(* goes on and fails at its end.                                           *)
(***************************************************************************)
EXTENDS ExampleSteps, Sequences

\* modify_genesis makes each public key of the genesis a row of the bonded set;
\* without one it is an error.
BondedSet == {Seen("rows")}

LeanStart(owns) ==
  <<Initialize("t"), Do({Box("t")}, {Up("t")} \cup (IF owns THEN BondedSet ELSE {}))>>

\* The height before and after some blocks; a failed wait is an error.
Consensus == <<Ask("t"), Wait, Do({Up("t")}, {Seen("blocks")})>>

\* Enough validators, one of them bonded.
Staking == <<Do({Up("t")}, {Seen("bonded")}), Check({Seen("bonded")})>>

-----------------------------------------------------------------------------
(* lean_terpz; "all" names every workflow, and leanval owns the set.       *)

Rewards(owns) ==
  <<Wait, Ask("t"), Ask("t")>> \o
  (IF owns THEN <<Try({Up("t")}, {Seen("operator")}), Check({Seen("operator")}),
                  Do({Up("t")}, {Seen("rewards")})>>
   ELSE <<>>)

\* workflow_lean and workflow_sdk_mirror print what is there.
LeanMirror == <<Try({Up("t")}, {}), Try({Up("t")}, {})>>

LeanOwns == <<Ask("t"), Wait, Ask("t"), Check({Up("t")})>>

\* The rows are required only where leanval owns the set.
P0(owns) ==
  <<IF owns THEN Check({Up("t")} \cup BondedSet) ELSE Try({Up("t")}, {}), Try({Up("t")}, {})>>

LeanTerpz(owns) ==
  LeanStart(owns) \o Consensus \o Staking \o Rewards(owns) \o LeanMirror
    \o (IF owns THEN LeanOwns ELSE <<>>) \o P0(owns)

-----------------------------------------------------------------------------
(* lean_production_e2e.                                                    *)

\* broadcast_raw: bytes that no key signs, and the code of CheckTx.
Raw(name, need) ==
  [Do({Up("t")} \cup need, {}) EXCEPT !.late = {Seen(name)}, !.by = <<"t", name>>]

\* run, up to the fee-bearing transaction.
ProductionSetup ==
  LeanStart(TRUE) \o <<Check({Up("t")}), Wait, Do({Up("t")}, {Seen("daemon")})>> \o Consensus
    \o Staking \o <<Check(BondedSet), Ask("t"), Ask("t"),
                    Tx("t", "validator", {}, {Seen("fee")}), Rest>>

\* LNPR bytes have to be refused.
LnprProbe == <<Gate(Do({Up("t")}, {Seen("LNPR refused")}))>>

OperatorKey(u) == <<NewKey("t", u), KeyAddress("t", u), Ask("t")>>

\* workflow_membership, to the validator that stakes and does not join: it is
\* only a gap when its transaction is refused.
Membership ==
  OperatorKey("operator 0") \o OperatorKey("operator 1")
    \o Fund("t", "operator 0") \o Fund("t", "operator 1")
    \o <<Ask("t"), Do({Up("t")}, {File("t", "validator")}),
         [TryTx("t", "operator 0", {File("t", "validator"), Key("t", "operator 0"),
                                    Funds("t", "operator 0")}, {Seen("staked")})
            EXCEPT !.skip = 2],
         Wait, Ask("t"), Ask("t")>>

\* The rest of it: two JOIN, sent again sixteen times at most, and one LEAV.
JoinAndLeave ==
  <<Gate(Raw("join 0", {})), Gate(Raw("join 1", {})),
    Gate(Poll({Seen("join 0"), Seen("join 1")})),
    Gate(Raw("leave 1", {Seen("join 1")})), Wait, Gate(Check({Seen("leave 1")}))>>

\* The reads of rewards and probe_aggregate only fill the table.
Aggregate == <<Try({Up("t")}, {}), Try({Up("t")}, {})>>

-----------------------------------------------------------------------------
(* lean_testnet_gates.                                                     *)

\* More than two thirds of the validators run.
Quorum == Seen("quorum")

\* run, up to the gates; wait_height polls.
GatesSetup == LeanStart(TRUE) \o <<Set({Quorum}), Poll({Up("t"), Quorum})>>

Delegator(need, late) ==
  <<Gate(Sign("t", "delegator", need, late)), Rest>>

\* gate_rewards_claim: the rewards of a delegator fall when they are withdrawn.
RewardsGate ==
  <<Gate(NewKey("t", "delegator")), KeyAddress("t", "delegator"),
    Gate(Tx("t", "validator", {}, {Funds("t", "delegator")})), Rest, Ask("t")>>
    \o Delegator({}, {Seen("delegated")})
    \o <<TryTx("t", "validator", {}, {}), Rest, Rest, Gate(Check({Seen("delegated")}))>>
    \o Delegator({Seen("delegated")}, {Seen("withdrawn")})
    \o <<Rest, Gate(Check({Seen("withdrawn")}))>>

\* pause_vals and assert_stalled: two of four validators stand still, and so does
\* the chain.
StallGate ==
  <<Poll({Up("t"), Quorum}), Check({Up("t")}), Ask("t"),
    [Gate(Do({Up("t")}, {})) EXCEPT !.drop = {Quorum}],
    Gate(Do({Up("t")}, {Seen("stalled")})), Rest, Gate(Check({Seen("stalled")}))>>

\* unpause_vals is called on every way out of the gate, which ends here when the
\* verdict was not that it stalled.
ResumeGate ==
  <<Try({}, {Quorum}), Gate(Check({Seen("stalled")})),
    Gate(Poll({Up("t"), Quorum})), Gate(Poll({Quorum})), Gate(Poll({Up("t")})),
    Gate(Ask("t")), Gate(Raw("join", {Quorum})), Gate(Poll({Seen("join")})), Ask("t"),
    Look({Up("t")}), Look({Up("t")}), Note(Poll({Up("t"), Quorum}))>>

\* The period after the JOIN, and the certificate with its public key.
EpochGate ==
  <<Try({Up("t")}, {}), Gate(Poll({Up("t"), Quorum})), Gate(Poll({Seen("join")})),
    [Gate(Poll({Up("t"), Quorum})) EXCEPT !.give = {Seen("epoch vote")}]>>

\* Caps::must_failed: what failed is in the table already.
MustFailed == <<Check({Seen("epoch vote")})>>

-----------------------------------------------------------------------------

\* main of lean_terpz.
TerpzMain(owns) ==
  [segs |-> <<<<<<Do({}, {})>>>>, <<LeanTerpz(owns)>>, <<<<Stop("t")>>>>>>, from |-> 2]

\* main and run of the other two.
ProductionMain ==
  [segs |-> <<<<<<Do({}, {})>>>>, <<ProductionSetup>>, <<LnprProbe>>,
              <<Membership \o JoinAndLeave>>, <<Aggregate>>, <<<<Stop("t")>>>>>>, from |-> 2]

GatesMain ==
  [segs |-> <<<<<<Do({}, {})>>>>, <<GatesSetup>>, <<RewardsGate>>, <<StallGate>>,
              <<ResumeGate \o EpochGate>>, <<MustFailed>>, <<<<Stop("t")>>>>>>, from |-> 2]

LeanPrograms ==
  [lean_terpz |-> TerpzMain(FALSE), lean_terpz_all |-> TerpzMain(TRUE),
   lean_production_e2e |-> ProductionMain, lean_testnet_gates |-> GatesMain]

\* What each is for.
LeanGoals ==
  [lean_terpz |-> {Seen("blocks"), Seen("bonded")},
   lean_terpz_all |-> {Seen("blocks"), Seen("bonded"), Seen("rows"), Seen("rewards")},
   lean_production_e2e |-> {Seen("daemon"), Seen("LNPR refused"), Seen("join 0"), Seen("leave 1")},
   lean_testnet_gates |->
     {Seen("withdrawn"), Seen("stalled"), Seen("join"), Seen("epoch vote"), Quorum}]
=============================================================================
