--------------------------- MODULE MCSecurityAdmin ---------------------------
(***************************************************************************)
(* SecurityAdmin for TLC.  The requests are interchangeable, and so are    *)
(* the names of credentials.                                               *)
(***************************************************************************)
EXTENDS SecurityAdmin, TLC

Symmetry == Permutations(Requests) \cup Permutations(Names)

=============================================================================
