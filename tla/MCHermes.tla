------------------------------ MODULE MCHermes ------------------------------
(* A hub linked to two other chains, by two paths.                         *)
EXTENDS HermesPaths
MCLinks == <<[path |-> "p1", chain1 |-> "hub", chain2 |-> "x"],
             [path |-> "p2", chain1 |-> "hub", chain2 |-> "y"]>>
=============================================================================
