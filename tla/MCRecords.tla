------------------------------ MODULE MCRecords ------------------------------
(* Model-checking instance of Records. *)
EXTENDS Records, TLC

CONSTANTS s1, s2, x1, x2, a1, m1, m2

Symmetries == Permutations(Slots) \cup Permutations(Ids)
=============================================================================
