------------------------------- MODULE MCRoles -------------------------------
(* Instances of Roles for TLC.                                             *)
EXTENDS Roles, TLC

Symmetry == Permutations(Req) \cup Permutations(User)
=============================================================================
