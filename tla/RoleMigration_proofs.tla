----------------------- MODULE RoleMigration_proofs -----------------------
(***************************************************************************)
(* Proofs about RoleMigration, for any accounts, any of the five roles,    *)
(* any processes and any number of faults: types, what is kept of the      *)
(* roles, who may change one, and that Postgres migrates in the end.       *)
(***************************************************************************)
EXTENDS RoleMigration, TLAPS

\* A role has its rank in the order of precedence, and the rank its role.
LEMMA RanksOfRoles ==
    ASSUME NEW r \in Roles
    PROVE  Rank(r) \in 1 .. 5 /\ RolePriority[Rank(r)] = r
<1>1. \E i \in 1 .. 5 : RolePriority[i] = r
  BY MigrationAssumption
<1> QED  BY <1>1 DEF Rank

\* Of the roles a user held, PickRole gives one that none precedes.
LEMMA PicksTheHighest ==
    ASSUME NEW values \in SUBSET Roles, values # {}
    PROVE  /\ PickRole(values) \in values
           /\ \A r \in values : Rank(PickRole(values)) <= Rank(r)
<1>1. \A r \in values : Rank(r) \in 1 .. 5
  BY RanksOfRoles
<1> DEFINE Held(i) == \E r \in values : Rank(r) = i
<1>2. \E i \in 1 .. 5 : Held(i) /\ \A j \in 1 .. 5 : Held(j) => i <= j
  <2>1. Held(1) \/ Held(2) \/ Held(3) \/ Held(4) \/ Held(5)
    BY <1>1
  <2> HIDE DEF Held
  <2> QED  BY <2>1
<1>3. \E r \in values : \A q \in values : Rank(r) <= Rank(q)
  BY <1>1, <1>2
<1> QED  BY <1>3 DEF PickRole

\* The copy keeps the types: an account without rows keeps what it had.
LEMMA CopiedTypes ==
    ASSUME MigrationTypeOK
    PROVE  /\ Copied \in [Users -> Roles \cup {NoRole}]
           /\ role \in [Users -> Roles] => Copied \in [Users -> Roles]
           /\ \A u \in Users : Copied[u] = IF userRoles[u] = {} THEN role[u]
                                           ELSE PickRole(userRoles[u])
<1>1. \A u \in Users : Copied[u] = IF userRoles[u] = {} THEN role[u]
                                   ELSE PickRole(userRoles[u])
  BY DEF Copied
<1>2. ASSUME NEW u \in Users, userRoles[u] # {}
      PROVE  PickRole(userRoles[u]) \in Roles
  <2>1. userRoles[u] \in SUBSET Roles
    BY DEF MigrationTypeOK
  <2> QED  BY <1>2, <2>1, PicksTheHighest
<1>3. role \in [Users -> Roles \cup {NoRole}]
  BY DEF MigrationTypeOK
<1>4. DOMAIN Copied = Users /\ Copied = [u \in Users |-> Copied[u]]
  BY DEF Copied
<1> QED  BY <1>1, <1>2, <1>3, <1>4

\* The last UPDATE leaves no role missing, and changes no other.
LEMMA FilledTypes ==
    ASSUME NEW roles \in [Users -> Roles \cup {NoRole}]
    PROVE  /\ Filled(roles) \in [Users -> Roles]
           /\ \A u \in Users : Filled(roles)[u] = IF roles[u] = NoRole THEN "INSPECTOR"
                                                  ELSE roles[u]
BY MigrationAssumption DEF Filled

-----------------------------------------------------------------------------
(* The invariant *)

\* The account has its highest role, or held none.
Settled(u) ==
    \/ /\ role[u] \in held[u]
       /\ \A r \in held[u] : Rank(role[u]) <= Rank(r)
    \/ role[u] = "INSPECTOR" /\ held[u] = {}

\* Once the revision is applied everyone has his role; where the table is gone
\* and a role is missing, somebody is about to fill it.
RolesInv ==
    /\ RolesSurvive
    /\ version = "single" => \A u \in Users \ changed : Settled(u)
    /\ hasRole /\ ~hasUserRoles /\ faults = 0 =>
          \A u \in Users \ changed :
              role[u] = NoRole => \E p \in Procs : pc[p] = "fill"

\* Initially: an old base, and no process.
LEMMA MigrationInit == Init => MigrationTypeOK /\ RolesInv
<1> SUFFICES ASSUME Init PROVE MigrationTypeOK /\ RolesInv
  OBVIOUS
<1>1. faults \in 0 .. MaxFaults
  BY MigrationAssumption DEF Init
<1>2. role \in [Users -> Roles \cup {NoRole}]
  BY DEF Init
<1>3. \A p \in Procs : pc[p] = "off" /\ p \notin serving
  BY DEF Init
<1>4. MigrationTypeOK
  BY <1>1, <1>2, <1>3 DEF Init, MigrationTypeOK
<1> QED  BY <1>4 DEF Init, RolesInv, RolesSurvive

\* Every step keeps the types; with them, that the roles of the accounts are
\* in the table until they are in the column, which a process that is past the
\* first transaction has found or added.
LEMMA MigrationTypesKept ==
    ASSUME MigrationTypeOK, [Next]_vars
    PROVE  MigrationTypeOK'
<1>1. ASSUME NEW p \in Procs, Begin(p) PROVE MigrationTypeOK'
  BY <1>1 DEF MigrationTypeOK, Begin, Goto, schema, Stopped
<1>2. ASSUME NEW p \in Procs, EnsureColumn(p) PROVE MigrationTypeOK'
  BY <1>2 DEF MigrationTypeOK, EnsureColumn, Goto, schema, Stopped
<1>3. ASSUME NEW p \in Procs, AddColumn(p) PROVE MigrationTypeOK'
  BY <1>3, MigrationAssumption DEF MigrationTypeOK, AddColumn, Goto, Default, Stopped
<1>4. ASSUME NEW p \in Procs, AddColumnFails(p) PROVE MigrationTypeOK'
  BY <1>4 DEF MigrationTypeOK, AddColumnFails, Goto, schema, Stopped
<1>5. ASSUME NEW p \in Procs, ReadUserRoles(p) PROVE MigrationTypeOK'
  BY <1>5 DEF MigrationTypeOK, ReadUserRoles, Finish, Goto, schema, Stopped
<1>6. ASSUME NEW p \in Procs, MigrateUserRoles(p) PROVE MigrationTypeOK'
  <2>1. hasRole /\ hasRole' /\ role' = Copied /\ alembic # "downgrading"
    BY <1>6 DEF MigrationTypeOK, MigrateUserRoles, Stopped
  <2>2. /\ role' \in [Users -> Roles \cup {NoRole}]
        /\ role \in [Users -> Roles] => role' \in [Users -> Roles]
    BY <2>1, CopiedTypes
  <2> QED  BY <1>6, <2>1, <2>2 DEF MigrationTypeOK, MigrateUserRoles, Finish, Goto
<1>7. ASSUME NEW p \in Procs, GiveUp(p) PROVE MigrationTypeOK'
  <2>1. faults' \in 0 .. MaxFaults
    BY <1>7, MigrationAssumption DEF MigrationTypeOK, GiveUp
  <2> QED  BY <1>7, <2>1 DEF MigrationTypeOK, GiveUp, Finish, Goto, schema, Stopped
<1>8. ASSUME NEW p \in Procs, Fill(p) \/ FillFails(p) PROVE MigrationTypeOK'
  <2>1. faults' \in 0 .. MaxFaults
    BY <1>8, MigrationAssumption DEF MigrationTypeOK, Fill, FillFails
  <2>2. hasRole /\ alembic # "downgrading"
    BY <1>8 DEF MigrationTypeOK, Fill, FillFails, Stopped
  <2>3. role' = role \/ role' \in [Users -> Roles]
    <3>1. CASE Fill(p)
      <4>1. role \in [Users -> Roles \cup {NoRole}] /\ role' = Filled(role)
        BY <3>1 DEF MigrationTypeOK, Fill
      <4> QED  BY <4>1, FilledTypes
    <3>2. CASE FillFails(p)
      BY <3>2 DEF FillFails
    <3> QED  BY <1>8, <3>1, <3>2
  <2>4. /\ role' \in [Users -> Roles \cup {NoRole}]
        /\ role \in [Users -> Roles] => role' \in [Users -> Roles]
    BY <2>3 DEF MigrationTypeOK
  <2>5. /\ UNCHANGED << dialect, schema, changed >>
        /\ Finish(p)
    BY <1>8 DEF Fill, FillFails
  <2> QED  BY <2>1, <2>2, <2>4, <2>5 DEF MigrationTypeOK, Finish, Goto, schema
<1>9. ASSUME NEW p \in Procs, Crash(p) PROVE MigrationTypeOK'
  <2>1. faults' \in 0 .. MaxFaults
    BY <1>9, MigrationAssumption DEF MigrationTypeOK, Crash
  <2> QED  BY <1>9, <2>1 DEF MigrationTypeOK, Crash, Goto, schema, Stopped
<1>10. ASSUME NEW p \in Procs, Stop(p) PROVE MigrationTypeOK'
  BY <1>10 DEF MigrationTypeOK, Stop, schema, Stopped
<1>11. ASSUME NEW u \in Users, NEW r \in Roles, UpdateRoles(u, r)
       PROVE  MigrationTypeOK'
  <2>1. hasRole
    BY <1>11 DEF MigrationTypeOK, UpdateRoles
  <2>2. /\ role' \in [Users -> Roles \cup {NoRole}]
        /\ role \in [Users -> Roles] => role' \in [Users -> Roles]
    BY <1>11 DEF MigrationTypeOK, UpdateRoles
  <2> QED  BY <1>11, <2>1, <2>2 DEF MigrationTypeOK, UpdateRoles, schema, Stopped
<1>12. ASSUME Upgrade \/ UpgradeCopies PROVE MigrationTypeOK'
  <2>1. Copied \in [Users -> Roles \cup {NoRole}]
    BY CopiedTypes
  <2>2. role' \in [Users -> Roles] /\ hasRole' /\ alembic' # "downgrading"
    BY <1>12, <2>1, FilledTypes DEF MigrationTypeOK, Upgrade, UpgradeCopies
  <2> QED  BY <1>12, <2>2 DEF MigrationTypeOK, Upgrade, UpgradeCopies
<1>13. ASSUME Downgrade \/ DowngradeCopies PROVE MigrationTypeOK'
  <2>1. hasRole /\ role \in [Users -> Roles] /\ Stopped
    BY <1>13 DEF MigrationTypeOK, Downgrade, DowngradeCopies
  <2>2. userRoles' \in [Users -> SUBSET Roles] /\ held' = userRoles'
    BY <1>13, <2>1 DEF Downgrade, DowngradeCopies
  <2> QED  BY <1>13, <2>1, <2>2 DEF MigrationTypeOK, Downgrade, DowngradeCopies, Stopped
<1>14. ASSUME UpgradeAddsColumn PROVE MigrationTypeOK'
  BY <1>14 DEF MigrationTypeOK, UpgradeAddsColumn
<1>15. ASSUME DowngradeCreatesTable PROVE MigrationTypeOK'
  BY <1>15 DEF MigrationTypeOK, DowngradeCreatesTable, NoRows, Stopped
<1>16. ASSUME AlembicStops PROVE MigrationTypeOK'
  <2>1. faults' \in 0 .. MaxFaults
    BY <1>16, MigrationAssumption DEF MigrationTypeOK, AlembicStops
  <2> QED  BY <1>16, <2>1 DEF MigrationTypeOK, AlembicStops
<1>17. ASSUME UNCHANGED vars PROVE MigrationTypeOK'
  BY <1>17 DEF MigrationTypeOK, vars, Stopped
<1> QED  BY <1>1, <1>2, <1>3, <1>4, <1>5, <1>6, <1>7, <1>8, <1>9, <1>10,
            <1>11, <1>12, <1>13, <1>14, <1>15, <1>16, <1>17 DEF Next, ProcStep

\* What the copy and the last UPDATE give everyone whose rows are those held.
LEMMA CopySettles ==
    ASSUME MigrationTypeOK, NEW u \in Users, userRoles = held
    PROVE  /\ held[u] # {} =>
                 /\ Copied[u] \in held[u]
                 /\ \A r \in held[u] : Rank(Copied[u]) <= Rank(r)
           /\ held[u] = {} => Copied[u] = role[u]
<1>1. held[u] \in SUBSET Roles /\ Copied[u] = IF held[u] = {} THEN role[u]
                                             ELSE PickRole(held[u])
  BY CopiedTypes DEF MigrationTypeOK
<1> QED  BY <1>1, PicksTheHighest

\* Every step keeps what RolesSurvive says: the column is added while the table
\* is there, the copy and the upgrade give everyone the highest of his rows,
\* and an administrator's change is in `changed`.
LEMMA RolesKept ==
    ASSUME MigrationTypeOK, RolesInv, [Next]_vars
    PROVE  RolesInv'
<1>0. NoRole \notin Roles
  BY MigrationAssumption
\* Steps that leave the data alone, and whoever fills the roles where he is.
<1>1. ASSUME UNCHANGED << version, hasRole, hasUserRoles, role, held, changed >>,
             faults' = 0 => /\ faults = 0
                            /\ serving' # {} => serving # {} \/ ~hasUserRoles
                            /\ \A p \in Procs : pc[p] = "fill" => pc'[p] = "fill"
      PROVE  RolesInv'
  BY <1>1 DEF RolesInv, RolesSurvive, Settled
<1>2. \A u \in Users : role[u] \in Roles => role[u] # NoRole
  BY <1>0
<1>3. ASSUME NEW p \in Procs, AddColumn(p) PROVE RolesInv'
  BY <1>3 DEF MigrationTypeOK, RolesInv, RolesSurvive, AddColumn, Default
<1>4. ASSUME NEW p \in Procs, MigrateUserRoles(p) PROVE RolesInv'
  <2>1. /\ hasRole /\ hasRole' /\ role' = Copied /\ hasUserRoles /\ ~hasUserRoles'
        /\ UNCHANGED << dialect, version, userRoles, held, changed, faults >>
    BY <1>4 DEF MigrationTypeOK, MigrateUserRoles, Drops
  <2>2. ASSUME NEW u \in Users \ changed
        PROVE  /\ Settled(u)' \/ (role'[u] = NoRole /\ held[u] = {})
               /\ version = "single" => Settled(u)'
    <3>1. CASE version = "multi"
      <4>1. userRoles = held
        BY <3>1 DEF MigrationTypeOK
      <4>2. CASE held[u] # {}
        <5>1. role'[u] \in held[u] /\ \A q \in held[u] : Rank(role'[u]) <= Rank(q)
          BY <2>1, <4>1, <4>2, CopySettles
        <5>2. held'[u] = held[u] /\ version' = version
          BY <2>1
        <5> QED  BY <5>1, <5>2 DEF Settled
      <4>3. CASE held[u] = {}
        <5>1. role'[u] = role[u]
          BY <2>1, <4>1, <4>3, CopySettles
        <5>2. role[u] = "INSPECTOR" \/ role[u] = NoRole
          BY <2>1, <4>3 DEF RolesInv, RolesSurvive
        <5> QED  BY <2>1, <3>1, <4>3, <5>1, <5>2 DEF Settled
      <4> QED  BY <4>2, <4>3
    <3>2. CASE version = "single"
      <4>1. userRoles[u] = {}
        BY <2>1, <3>2 DEF MigrationTypeOK, NoRows
      <4>2. role'[u] = role[u]
        BY <2>1, <4>1, CopiedTypes
      <4>3. held'[u] = held[u] /\ Settled(u)
        BY <2>1, <2>2, <3>2 DEF RolesInv
      <4> QED  BY <4>2, <4>3 DEF Settled
    <3> QED  BY <3>1, <3>2 DEF MigrationTypeOK
  <2>3. ASSUME NEW u \in Users, role'[u] = NoRole
        PROVE  \E q \in Procs : pc'[q] = "fill"
    <3>1. dialect # "postgresql"
      <4>1. role \in [Users -> Roles] => role' \in [Users -> Roles]
        BY <2>1, CopiedTypes
      <4>2. role' \notin [Users -> Roles]
        BY <1>0, <2>3
      <4> QED  BY <2>1, <4>1, <4>2 DEF MigrationTypeOK
    <3>2. dialect = "sqlite"
      BY <3>1, MigrationAssumption DEF MigrationTypeOK
    <3> QED  BY <1>4, <3>2 DEF MigrateUserRoles, Goto, MigrationTypeOK
  <2> QED  BY <2>1, <2>2, <2>3 DEF RolesInv, RolesSurvive, Settled
<1>5. ASSUME NEW p \in Procs, ReadUserRoles(p) PROVE RolesInv'
  <2>1. /\ UNCHANGED << version, hasRole, hasUserRoles, role, held, changed, faults >>
        /\ serving' # {} => serving # {} \/ ~hasUserRoles
    BY <1>5 DEF ReadUserRoles, Finish, schema
  <2>2. \A q \in Procs : pc[q] = "fill" => pc'[q] = "fill"
    BY <1>5 DEF ReadUserRoles, Finish, Goto, MigrationTypeOK
  <2> QED  BY <1>1, <2>1, <2>2
<1>6. ASSUME NEW p \in Procs, GiveUp(p) PROVE RolesInv'
  <2>1. /\ UNCHANGED << dialect, version, hasRole, hasUserRoles, role, held, changed >>
        /\ hasRole
        /\ faults' = faults \/ faults' = faults + 1
    BY <1>6 DEF GiveUp, schema, MigrationTypeOK
  <2>2. CASE dialect = "sqlite"
    <3>1. pc'[p] = "fill"
      BY <1>6, <2>2 DEF GiveUp, Goto, MigrationTypeOK
    <3> QED  BY <2>1, <3>1 DEF RolesInv, RolesSurvive, Settled
  <2>3. CASE dialect = "postgresql"
    <3>1. \A u \in Users : role[u] # NoRole
      <4>1. role \in [Users -> Roles]
        BY <2>1, <2>3 DEF MigrationTypeOK
      <4> QED  BY <1>2, <4>1
    <3> QED  BY <2>1, <3>1 DEF RolesInv, RolesSurvive, Settled
  <2> QED  BY <2>2, <2>3, MigrationAssumption DEF MigrationTypeOK
<1>7. ASSUME NEW p \in Procs, Fill(p) PROVE RolesInv'
  <2>1. /\ UNCHANGED << version, hasRole, hasUserRoles, held, changed >>
        /\ hasRole /\ role' = Filled(role)
    BY <1>7 DEF Fill, schema, MigrationTypeOK
  <2>2. \A u \in Users : /\ role'[u] = IF role[u] = NoRole THEN "INSPECTOR" ELSE role[u]
                         /\ role'[u] # NoRole
    <3>1. /\ role \in [Users -> Roles \cup {NoRole}]
          /\ Filled(role) \in [Users -> Roles]
          /\ \A u \in Users : Filled(role)[u] = IF role[u] = NoRole THEN "INSPECTOR"
                                                 ELSE role[u]
      <4>1. role \in [Users -> Roles \cup {NoRole}]
        BY DEF MigrationTypeOK
      <4> QED  BY <4>1, FilledTypes
    <3> QED  BY <1>0, <2>1, <3>1
  <2>3. ASSUME NEW u \in Users \ changed
        PROVE  Settled(u)' \/ (role'[u] = "INSPECTOR" /\ (hasUserRoles \/ held[u] = {}))
    <3>1. held'[u] = held[u]
      BY <2>1
    <3>2. CASE role[u] = NoRole
      <4>1. role'[u] = "INSPECTOR"
        BY <2>2, <3>2
      <4>2. hasUserRoles \/ held[u] = {}
        BY <2>1, <3>2, <1>0, MigrationAssumption DEF RolesInv, RolesSurvive, MigrationTypeOK
      <4> QED  BY <4>1, <4>2
    <3>3. CASE role[u] # NoRole
      <4>1. role'[u] = role[u]
        BY <2>2, <3>3
      <4>2. Settled(u) \/ (role[u] = "INSPECTOR" /\ (hasUserRoles \/ held[u] = {}))
        BY <2>1, <3>3 DEF RolesInv, RolesSurvive, Settled
      <4> QED  BY <3>1, <4>1, <4>2 DEF Settled
    <3> QED  BY <3>2, <3>3
  <2>4. version = "single" => \A u \in Users \ changed : Settled(u)'
    <3>1. ASSUME version = "single", NEW u \in Users \ changed PROVE Settled(u)'
      <4>1. Settled(u) /\ role[u] # NoRole
        BY <1>2, <3>1 DEF RolesInv, MigrationTypeOK
      <4>2. role'[u] = role[u] /\ held'[u] = held[u]
        BY <2>1, <2>2, <4>1
      <4> QED  BY <4>1, <4>2 DEF Settled
    <3> QED  BY <3>1
  <2> QED  BY <2>1, <2>2, <2>3, <2>4 DEF RolesInv, RolesSurvive, Settled
<1>8. ASSUME NEW u \in Users, NEW r \in Roles, UpdateRoles(u, r)
      PROVE  RolesInv'
  <2>1. \A v \in Users \ changed' : v # u /\ v \notin changed /\ role'[v] = role[v]
    BY <1>8 DEF UpdateRoles, MigrationTypeOK
  <2> QED  BY <1>8, <2>1 DEF RolesInv, RolesSurvive, Settled, UpdateRoles, schema
<1>9. ASSUME Upgrade \/ UpgradeCopies PROVE RolesInv'
  <2>1. /\ role' = Filled(Copied) /\ ~hasUserRoles' /\ version = "multi"
        /\ UNCHANGED << held, changed >> /\ userRoles = held
    BY <1>9 DEF Upgrade, UpgradeCopies, MigrationTypeOK
  <2>2. \A u \in Users : role'[u] = IF Copied[u] = NoRole THEN "INSPECTOR" ELSE Copied[u]
    BY <2>1, CopiedTypes, FilledTypes
  <2>3. hasRole \/ \A v \in Users : role[v] = NoRole
    BY DEF MigrationTypeOK
  <2>4. ASSUME NEW u \in Users \ changed PROVE Settled(u)' /\ role'[u] # NoRole
    <3>1. CASE held[u] # {}
      <4>1. Copied[u] \in held[u] /\ Copied[u] # NoRole
        <5>1. Copied[u] \in held[u] /\ held[u] \in SUBSET Roles
          BY <2>1, <3>1, CopySettles DEF MigrationTypeOK
        <5> QED  BY <1>0, <5>1
      <4>2. role'[u] = Copied[u] /\ held'[u] = held[u]
        BY <2>1, <2>2, <4>1
      <4>3. \A r \in held[u] : Rank(Copied[u]) <= Rank(r)
        BY <2>1, <3>1, CopySettles
      <4>4. role'[u] # NoRole
        BY <4>1, <4>2
      <4> QED  BY <4>1, <4>2, <4>3, <4>4 DEF Settled
    <3>2. CASE held[u] = {}
      <4>1. Copied[u] = role[u]
        BY <2>1, <3>2, CopySettles
      <4>2. role[u] = "INSPECTOR" \/ role[u] = NoRole
        BY <2>1, <2>3, <3>2 DEF RolesInv, RolesSurvive
      <4>3. role'[u] = "INSPECTOR" /\ held'[u] = {}
        BY <2>1, <2>2, <3>2, <4>1, <4>2
      <4>4. "INSPECTOR" # NoRole
        BY MigrationAssumption
      <4> QED  BY <4>3, <4>4 DEF Settled
    <3> QED  BY <3>1, <3>2
  <2> QED  BY <2>1, <2>4 DEF RolesInv, RolesSurvive, Settled
<1>10. ASSUME Downgrade \/ DowngradeCopies PROVE RolesInv'
  BY <1>10 DEF Downgrade, DowngradeCopies, RolesInv, RolesSurvive
<1>11. ASSUME UpgradeAddsColumn PROVE RolesInv'
  <2>1. hasUserRoles /\ serving = {} /\ version = "multi"
        /\ \A u \in Users : role[u] = NoRole
    BY <1>11 DEF UpgradeAddsColumn, MigrationTypeOK
  <2> QED  BY <1>11, <2>1 DEF UpgradeAddsColumn, RolesInv, RolesSurvive
<1>12. ASSUME DowngradeCreatesTable PROVE RolesInv'
  <2>1. version = "single" /\ hasUserRoles'
        /\ UNCHANGED << version, hasRole, role, held, changed, serving, pc, faults >>
    BY <1>12 DEF DowngradeCreatesTable
  <2> QED  BY <2>1 DEF RolesInv, RolesSurvive, Settled
<1>13. ASSUME NEW p \in Procs, FillFails(p) \/ Crash(p) PROVE RolesInv'
  <2>1. faults' # 0
    BY <1>13 DEF MigrationTypeOK, FillFails, Crash
  <2>2. UNCHANGED << version, hasRole, hasUserRoles, role, held, changed >>
    BY <1>13 DEF FillFails, Crash, schema
  <2> QED  BY <1>1, <2>1, <2>2
<1>14. ASSUME NEW p \in Procs,
              Begin(p) \/ EnsureColumn(p) \/ AddColumnFails(p) \/ Stop(p)
       PROVE  RolesInv'
  <2>1. /\ UNCHANGED << version, hasRole, hasUserRoles, role, held, changed, faults >>
        /\ serving' \subseteq serving
    BY <1>14 DEF Begin, EnsureColumn, AddColumnFails, Stop, schema
  <2>2. \A q \in Procs : pc[q] = "fill" => pc'[q] = "fill"
    BY <1>14 DEF Begin, EnsureColumn, AddColumnFails, Stop, Goto, MigrationTypeOK
  <2> QED  BY <1>1, <2>1, <2>2
<1>15. ASSUME AlembicStops \/ UNCHANGED vars PROVE RolesInv'
  <2>1. /\ UNCHANGED << version, hasRole, hasUserRoles, role, held, changed, serving, pc >>
        /\ faults' = 0 => faults = 0
    BY <1>15 DEF AlembicStops, vars, MigrationTypeOK
  <2> QED  BY <1>1, <2>1
<1> QED  BY <1>3, <1>4, <1>5, <1>6, <1>7, <1>8, <1>9, <1>10, <1>11, <1>12, <1>13,
            <1>14, <1>15 DEF Next, ProcStep

-----------------------------------------------------------------------------
(* Theorems *)

\* The schema and the roles are well typed, and the roles of the accounts are
\* always in the table or in the column (schema_sync.py:47, :73).
THEOREM MigrationTypeCorrect == Spec => []MigrationTypeOK
<1>1. Init => MigrationTypeOK
  BY MigrationInit
<1>2. MigrationTypeOK /\ [Next]_vars => MigrationTypeOK'
  BY MigrationTypesKept
<1> QED  BY <1>1, <1>2, PTL DEF Spec

\* Whatever processes start, fail or bootstrap together, and whatever revision
\* is applied or undone, in whole or on SQLite in half, an account keeps the
\* highest role it held, and is not served without one unless something failed
\* (schema_sync.py:93-120).
THEOREM RolesAreNotLost == Spec => []RolesSurvive
<1>1. Init => MigrationTypeOK /\ RolesInv
  BY MigrationInit
<1>2. MigrationTypeOK /\ RolesInv /\ [Next]_vars => (MigrationTypeOK /\ RolesInv)'
  BY MigrationTypesKept, RolesKept
<1>3. RolesInv => RolesSurvive
  BY DEF RolesInv
<1> QED  BY <1>1, <1>2, <1>3, PTL DEF Spec

\* Once user_roles is gone nobody writes a role that is there but an
\* administrator: a late start or bootstrap copies nothing
\* (schema_sync.py:80-88, :107).
THEOREM LaterChangesStay == Spec => ChangesSurvive
<1>1. MigrationTypeOK /\ [Next]_vars
      => [~hasUserRoles /\ ~hasUserRoles'
            => \A u \in Users : role[u] # NoRole /\ role'[u] # role[u]
                                 => \E r \in Roles : UpdateRoles(u, r)]_vars
  <2> SUFFICES ASSUME MigrationTypeOK, Next, ~hasUserRoles, ~hasUserRoles',
                      NEW u \in Users, role[u] # NoRole, role'[u] # role[u]
               PROVE  \E r \in Roles : UpdateRoles(u, r)
    BY DEF vars
  <2>1. ~Upgrade /\ ~Downgrade /\ ~UpgradeCopies /\ ~DowngradeCopies
    BY DEF Upgrade, Downgrade, UpgradeCopies, DowngradeCopies, MigrationTypeOK
  <2>2. ~UpgradeAddsColumn /\ ~DowngradeCreatesTable /\ ~AlembicStops
    BY DEF UpgradeAddsColumn, DowngradeCreatesTable, AlembicStops
  <2>3. ASSUME NEW p \in Procs PROVE ~ProcStep(p)
    <3>1. ~AddColumn(p)
      BY DEF AddColumn, MigrationTypeOK
    <3>2. ~MigrateUserRoles(p)
      BY DEF MigrateUserRoles, Drops
    <3>3. ~Fill(p)
      BY FilledTypes DEF Fill, MigrationTypeOK
    <3> QED  BY <3>1, <3>2, <3>3 DEF ProcStep, Begin, EnsureColumn, AddColumnFails,
                ReadUserRoles, GiveUp, FillFails, Crash, Stop
  <2>4. PICK v \in Users, r \in Roles : UpdateRoles(v, r)
    BY <2>1, <2>2, <2>3 DEF Next
  <2>5. u = v
    BY <2>4 DEF UpdateRoles, MigrationTypeOK
  <2> QED  BY <2>4, <2>5
<1>2. Spec => []MigrationTypeOK
  BY MigrationTypeCorrect
<1> QED  BY <1>1, <1>2, PTL DEF Spec, ChangesSurvive

\* Without faults a Postgres server is never left unmigrated: who gives up was
\* blocked by another that still copies, or found the table gone
\* (schema_sync.py:109).
THEOREM MigrationSucceeds == Spec => []MigrationIsFinished
<1>1. Init => MigrationIsFinished
  BY DEF Init, MigrationIsFinished
<1>2. MigrationTypeOK /\ MigrationIsFinished /\ [Next]_vars => MigrationIsFinished'
  <2> SUFFICES ASSUME MigrationTypeOK, MigrationIsFinished, [Next]_vars
               PROVE  MigrationIsFinished'
    OBVIOUS
  <2>1. ASSUME NEW p \in Procs,
               Begin(p) \/ EnsureColumn(p) \/ AddColumn(p) \/ AddColumnFails(p)
        PROVE  MigrationIsFinished'
    <3>1. \A q \in Procs : pc[q] = "copy" => pc'[q] = "copy"
      BY <2>1 DEF MigrationTypeOK, Begin, EnsureColumn, AddColumn, AddColumnFails, Goto
    <3>2. UNCHANGED << dialect, faults, serving, hasUserRoles >>
      BY <2>1 DEF Begin, EnsureColumn, AddColumn, AddColumnFails, schema
    <3> QED  BY <3>1, <3>2 DEF MigrationIsFinished
  <2>2. ASSUME NEW p \in Procs, ReadUserRoles(p) PROVE MigrationIsFinished'
    <3>1. CASE hasUserRoles
      <4>1. pc'[p] = "copy"
        BY <2>2, <3>1 DEF MigrationTypeOK, ReadUserRoles, Goto
      <4> QED  BY <4>1 DEF MigrationIsFinished
    <3>2. CASE ~hasUserRoles
      BY <2>2, <3>2 DEF ReadUserRoles, schema, MigrationIsFinished
    <3> QED  BY <3>1, <3>2
  <2>3. ASSUME NEW p \in Procs, MigrateUserRoles(p) PROVE MigrationIsFinished'
    BY <2>3 DEF MigrateUserRoles, MigrationIsFinished
  <2>4. ASSUME NEW p \in Procs, GiveUp(p) PROVE MigrationIsFinished'
    <3> SUFFICES ASSUME dialect' = "postgresql", faults' = 0, hasUserRoles'
                 PROVE  \E q \in Procs : pc'[q] = "copy"
      BY DEF MigrationIsFinished
    <3>1. dialect = "postgresql" /\ hasUserRoles
      BY <2>4 DEF GiveUp, schema
    <3>2. faults' # faults + 1
      BY DEF MigrationTypeOK
    <3>3. Blocked(p)
      BY <2>4, <3>1, <3>2 DEF GiveUp, BindFails
    <3>4. PICK q \in Procs \ {p} : pc[q] = "copy"
      BY <3>3 DEF Blocked
    <3>5. pc'[q] = "copy"
      BY <2>4, <3>4 DEF MigrationTypeOK, GiveUp, Finish, Goto
    <3> QED  BY <3>5
  <2>5. ASSUME NEW p \in Procs, Crash(p) PROVE MigrationIsFinished'
    <3>1. faults' # 0
      BY <2>5, MigrationAssumption DEF MigrationTypeOK, Crash
    <3> QED  BY <3>1 DEF MigrationIsFinished
  <2>6. ASSUME NEW p \in Procs, Stop(p) PROVE MigrationIsFinished'
    BY <2>6 DEF Stop, schema, MigrationIsFinished
  <2>7. ASSUME NEW u \in Users, NEW r \in Roles, UpdateRoles(u, r)
        PROVE  MigrationIsFinished'
    BY <2>7 DEF UpdateRoles, schema, MigrationIsFinished
  <2>8. ASSUME Upgrade \/ Downgrade PROVE MigrationIsFinished'
    BY <2>8 DEF Upgrade, Downgrade, Stopped, MigrationIsFinished
  <2>10. ASSUME NEW p \in Procs, Fill(p) \/ FillFails(p) PROVE MigrationIsFinished'
    BY <2>10 DEF Fill, FillFails, schema, MigrationTypeOK, MigrationIsFinished
  <2>11. ASSUME \/ UpgradeAddsColumn \/ UpgradeCopies
                \/ DowngradeCreatesTable \/ DowngradeCopies
                \/ AlembicStops
         PROVE  MigrationIsFinished'
    BY <2>11 DEF UpgradeAddsColumn, UpgradeCopies, DowngradeCreatesTable, DowngradeCopies,
                 AlembicStops, MigrationTypeOK, MigrationIsFinished
  <2>9. ASSUME UNCHANGED vars PROVE MigrationIsFinished'
    BY <2>9 DEF vars, MigrationIsFinished
  <2> QED  BY <2>1, <2>2, <2>3, <2>4, <2>5, <2>6, <2>7, <2>8, <2>9, <2>10, <2>11
           DEF Next, ProcStep
<1>3. Spec => []MigrationTypeOK
  BY MigrationTypeCorrect
<1> QED  BY <1>1, <1>2, <1>3, PTL DEF Spec
=============================================================================
