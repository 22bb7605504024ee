--------------------------- MODULE MCRoleMigration ---------------------------
(* The instance of RoleMigration that TLC checks.                          *)
EXTENDS RoleMigration, TLC

Symmetric == Permutations(Users) \union Permutations(Procs)

=============================================================================
