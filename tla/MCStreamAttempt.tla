---- MODULE MCStreamAttempt ----
(* Instances of StreamAttempt for TLC: two threads or tasks on a stream. *)
EXTENDS StreamAttempt, TLC

CONSTANTS a1, a2

MCNoCount == -1
====
