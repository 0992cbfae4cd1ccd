---- MODULE MCGateway ----
(* Instances of Gateway for TLC. *)
EXTENDS Gateway, TLC

CONSTANTS d1, d2

Symmetry == Permutations(Attempts)
====
