----------------------------- MODULE MCRoleTurns -----------------------------
(* Instances of RoleTurns for TLC.                                           *)
EXTENDS RoleTurns

=============================================================================
