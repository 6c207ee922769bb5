------------------------------- MODULE MC_Roles -------------------------------
(* Instances of Roles for TLC. *)
EXTENDS Roles, TLC

CONSTANTS r1, r2, admin, super, other

Symmetry == Permutations(Requests)
=============================================================================
