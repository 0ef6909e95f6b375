-------------------------------- MODULE MCTx --------------------------------
(* Two tasks of one test, with a key each or with the same key.            *)
EXTENDS TxSequence

\* The accounts are interchangeable, so one task's may be fixed.
MCInit == Init /\ key["deploy"] = "validator"

MCSpec == MCInit /\ [][Next]_vars /\ \A t \in Task : WF_vars(Step(t))
=============================================================================
