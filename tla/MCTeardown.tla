----------------------------- MODULE MCTeardown -----------------------------
(* A Cosmos chain and an Anvil node in one test, three workers if the     *)
(* runtime has any.                                                        *)
EXTENDS TestTeardown
=============================================================================
