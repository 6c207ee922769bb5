----------------------------- MODULE MC_Sessions -----------------------------
(* Instances of Sessions for TLC. *)
EXTENDS Sessions

CONSTANTS r1, r2

Symmetry == Permutations(Requests)
=============================================================================
