------------------------------ MODULE MC_Study ------------------------------
(* Instances of Study for TLC. *)
EXTENDS Study

CONSTANTS c1, c2, c3, c4, s1, s2, r1, r2

WholePool == {Cards}
TwoPools  == {{c1}, Cards}

Symmetry == Permutations(Requests) \cup Permutations(Sessions)
CardSymmetry == Permutations(Cards)
=============================================================================
