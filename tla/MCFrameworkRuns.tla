-------------------------- MODULE MCFrameworkRuns --------------------------
(***************************************************************************)
(* An instance of FrameworkRuns: one process with two crews and a graph.   *)
(***************************************************************************)
EXTENDS FrameworkRuns, TLC

CONSTANTS x1, x2, c1, c2, t1, p1

\* Every context and crew is in one process.
OneProcess == [a \in Contexts \cup Crews |-> p1]

Symmetry == {f @@ g : f \in Permutations(Crews), g \in Permutations(Contexts)}
=============================================================================
