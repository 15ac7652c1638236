--------------------------- MODULE MCAuthSessions ---------------------------
(***************************************************************************)
(* AuthSessions for TLC.  The requests are interchangeable.                *)
(***************************************************************************)
EXTENDS AuthSessions, TLC

Symmetry == Permutations(Requests)

=============================================================================
