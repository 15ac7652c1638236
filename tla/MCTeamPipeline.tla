--------------------------- MODULE MCTeamPipeline ---------------------------
(* TeamPipeline for TLC: workers are interchangeable, and so are callers.  *)
EXTENDS TeamPipeline, TLC

Ids == Permutations(Nodes) \cup Permutations(Stoppers)
=============================================================================
