--------------------------- MODULE MCAgentCatalog ---------------------------
(***************************************************************************)
(* AgentCatalog for TLC.  The requests are interchangeable.                *)
(***************************************************************************)
EXTENDS AgentCatalog, TLC

Symmetry == Permutations(Requests)

=============================================================================
