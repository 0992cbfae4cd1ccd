---- MODULE MCPatchedClient ----
(* Instances of PatchedClient for TLC. *)
EXTENDS PatchedClient, TLC

CONSTANTS c1, c2, t1, t2

Symmetry == Permutations(Tasks)
====
