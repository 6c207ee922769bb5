----------------------------- MODULE MC_Practice -----------------------------
(* Instances of Practice for TLC. *)
EXTENDS Practice, TLC

CONSTANTS u1, u2, c1, c2, q1, q2, a1, a2, r1, r2, r3

OneCard  == [c \in Cards |-> Questions]
TwoCards == (c1 :> {q1, q2}) @@ (c2 :> {q2})

Interchangeable == Permutations(Attempts) \cup Permutations(Requests)
OneUserSymmetry == Interchangeable \cup Permutations(Questions)
=============================================================================
