------------------------------ MODULE MCMissions ------------------------------
(* Model-checking instances of Missions. *)
EXTENDS Missions, TLC

CONSTANTS s1, s2, m1, m2, m3, anne, paul

Symmetries == Permutations(Slots) \cup Permutations(Ids) \cup Permutations(Inspectors)

SlotSymmetry == Permutations(Slots)
=============================================================================
