------------------------------ MODULE MCGenesis ------------------------------
(* Two validators, one extra genesis wallet and a faucet; start is called  *)
(* at most twice.                                                          *)
EXTENDS GenesisPipeline
MCWallets == {"w"}
=============================================================================
