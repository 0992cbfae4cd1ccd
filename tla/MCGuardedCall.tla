---- MODULE MCGuardedCall ----
(* Instances of GuardedCall for TLC. *)
EXTENDS GuardedCall

CONSTANTS t1, t2, g1, g2
====
