------------------------------- MODULE MCChain -------------------------------
(* One validator, one full node and one sidecar, started before the chain  *)
(* or after it; a failed initialize may be repeated once in the same       *)
(* process.                                                                *)
EXTENDS CosmosChain
=============================================================================
