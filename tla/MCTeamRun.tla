----------------------------- MODULE MCTeamRun -----------------------------
(* TeamRun for TLC: workers are interchangeable, and so are callers.       *)
EXTENDS TeamRun, TLC

Ids == Permutations(Nodes) \cup Permutations(Stoppers)
=============================================================================
