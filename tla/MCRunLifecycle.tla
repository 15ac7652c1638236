--------------------------- MODULE MCRunLifecycle ---------------------------
(* RunLifecycle for TLC: the ids are interchangeable.                      *)
EXTENDS RunLifecycleInv, TLC

Ids == Permutations(Agents) \cup Permutations(Runs)
           \cup Permutations(Stoppers) \cup Permutations(Graphs)
=============================================================================
