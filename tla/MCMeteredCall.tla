---- MODULE MCMeteredCall ----
(* Instances of MeteredCall for TLC: two calls under one cap. *)
EXTENDS MeteredCall, TLC

CONSTANTS c1, c2

Symmetry == Permutations(Calls)
====
