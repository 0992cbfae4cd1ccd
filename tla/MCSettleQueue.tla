---- MODULE MCSettleQueue ----
(* Instances of SettleQueue for TLC: two intents that reuse one idempotency  *)
(* key, or one intent and one that was journaled for another FinOps.         *)
EXTENDS SettleQueue, TLC

CONSTANTS w1, w2, w3, f1, f2, i1, i2, k1, k2

OneKey == [i \in Intents |-> k1]
KeyEach == [i \in Intents |-> IF i = i1 THEN k1 ELSE k2]
Symmetry == Permutations(Writers) \cup Permutations(Flushers)
              \cup Permutations(Intents)
====
