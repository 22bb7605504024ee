--------------------------- MODULE MCRolePermissions ---------------------------
(* Model-checking instances of RolePermissions: one role beside SUPER_ADMIN, *)
(* a catalogue of two permissions, and a third name that is obsolete.        *)
EXTENDS RolePermissions, TLC

CONSTANTS s1, s2, superAdmin, host, permA, permB, old

HostDefaults == [role \in Roles |-> IF role = superAdmin THEN Permissions ELSE {permA}]

\* A new database, one of an earlier catalogue, one with an override.
Databases ==
    {{},
     {<<superAdmin, permA>>, <<superAdmin, old>>, <<host, old>>},
     {<<superAdmin, permA>>, <<superAdmin, permB>>, <<host, permB>>}}

SlotSymmetry == Permutations(Slots)
=============================================================================
