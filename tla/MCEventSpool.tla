---- MODULE MCEventSpool ----
(* Instances of EventSpool for TLC: two sinks of one organisation, sending  *)
(* to one ingest service, or one to FinOps and its mirror to Agent Lens.    *)
EXTENDS EventSpool, TLC

CONSTANTS s1, s2, e1, e2, finops, lens

ToFinOps == [s \in Sinks |-> finops]
Mirrored == [s \in Sinks |-> IF s = s1 THEN finops ELSE lens]
OneFilled == [s \in Sinks |-> IF s = s1 THEN Events ELSE {}]
BothFilled == [s \in Sinks |-> Events]
Symmetry == Permutations(Events)
====
