---------------------------- MODULE RoleMigration ----------------------------
(***************************************************************************)
(* From several roles per user (table user_roles) to one (column           *)
(* users.role): what every start and the public bootstrap do to the schema *)
(* of the database they find (schema_sync.py), each in two transactions,   *)
(* and the Alembic revision that does and undoes the same.  Processes      *)
(* start at the same time, fail, and serve administrators meanwhile.       *)
(*                                                                         *)
(* Postgres holds the read lock of the SELECT on user_roles until the      *)
(* transaction ends, so that DROP TABLE waits for the other readers; two   *)
(* readers block each other and one of them is aborted.  SQLite's driver   *)
(* refuses the uuid.UUID that the UPDATE of a start binds, and commits a   *)
(* change of the schema at once unless rows were written before it: what   *)
(* is one transaction on Postgres is two there.                            *)
(***************************************************************************)
EXTENDS Naturals, Sequences

CONSTANTS
    Users,      \* the accounts of the old base
    Roles,      \* the roles it uses
    Procs,      \* the processes that run the server
    Dialects,   \* the databases the server may run on
    NoRole,     \* users.role where it is NULL, or before the column exists
    MaxFaults   \* how often a process dies or a statement fails

RolePriority == << "SUPER_ADMIN", "NATIONAL_ADMIN", "REGIONAL_SUPERVISOR",
                   "INSPECTOR", "HOST" >>

ASSUME MigrationAssumption ==
    /\ Roles \subseteq {RolePriority[i] : i \in 1 .. 5}
    /\ "INSPECTOR" \in Roles
    /\ NoRole \notin Roles
    /\ Dialects \subseteq {"postgresql", "sqlite"}
    /\ MaxFaults \in Nat

VARIABLES
    dialect,
    version,      \* the Alembic revision: before ("multi") or after ("single")
    hasRole,      \* whether the column users.role exists
    hasUserRoles, \* whether the table user_roles exists
    role,         \* users.role
    userRoles,    \* the rows of user_roles; once dropped, what they were
    held,         \* history: the roles each user had when the column was added
    changed,      \* history: the users whose role was set since the column exists
    serving,      \* the processes that answer requests
    pc,           \* where each process is in the two transactions
    alembic,      \* on SQLite, the half of the revision that is done
    faults

vars == << dialect, version, hasRole, hasUserRoles, role, userRoles, held, changed,
           serving, pc, alembic, faults >>

schema == << version, hasRole, hasUserRoles, userRoles, held, alembic >>

Init ==
    /\ dialect \in Dialects
    /\ version = "multi"
    /\ hasRole = FALSE
    /\ hasUserRoles = TRUE
    /\ role = [u \in Users |-> NoRole]
    /\ userRoles \in [Users -> SUBSET Roles]
    /\ held = userRoles
    /\ changed = {}
    /\ serving = {}
    /\ pc = [p \in Procs |-> "off"]
    /\ alembic = "idle"
    /\ faults = 0

-----------------------------------------------------------------------------
Rank(r) == CHOOSE i \in 1 .. 5 : RolePriority[i] = r

\* Mutant: the order is read from the wrong end.
LowestRole(values) ==
    IF values = {} THEN "INSPECTOR"
    ELSE CHOOSE r \in values : \A q \in values : Rank(q) <= Rank(r)

\* The highest of the roles a user held, INSPECTOR when there was none.
PickRole(values) ==
    IF values = {} THEN "INSPECTOR"
    ELSE CHOOSE r \in values : \A q \in values : Rank(r) <= Rank(q)

\* The value ADD COLUMN gives the rows that are there.
Default == "INSPECTOR"

\* UPDATE users SET role = 'INSPECTOR' WHERE role IS NULL
Filled(roles) == [u \in Users |-> IF roles[u] = NoRole THEN "INSPECTOR" ELSE roles[u]]

NoRows == [u \in Users |-> {}]

-----------------------------------------------------------------------------
Goto(p, label) == pc' = [pc EXCEPT ![p] = label]

\* lifespan, or the bootstrap of a process that serves; nobody starts a server
\* while Alembic undoes the revision.
Begin(p) ==
    /\ pc[p] = "off"
    /\ alembic # "downgrading"
    /\ Goto(p, "ensure")
    /\ UNCHANGED << dialect, schema, role, changed, serving, faults >>

\* ensure_users_role_column reads the columns.
EnsureColumn(p) ==
    /\ pc[p] = "ensure"
    /\ Goto(p, IF hasRole THEN "migrate" ELSE "alter")
    /\ UNCHANGED << dialect, schema, role, changed, serving, faults >>

AddColumn(p) ==
    /\ pc[p] = "alter"
    /\ ~hasRole
    /\ hasRole' = TRUE
    /\ role' = [u \in Users |-> Default]
    /\ Goto(p, "migrate")
    /\ UNCHANGED << dialect, version, hasUserRoles, userRoles, held, changed, serving,
                    alembic, faults >>

\* Another process added the column since: the start fails, or the bootstrap
\* is answered 500.
AddColumnFails(p) ==
    /\ pc[p] = "alter"
    /\ hasRole
    /\ Goto(p, "off")
    /\ UNCHANGED << dialect, schema, role, changed, serving, faults >>

\* The end of the second transaction, however it ends.
Finish(p) ==
    /\ Goto(p, "off")
    /\ serving' = serving \union {p}

\* migrate_user_roles_table returns at once, or reads user_roles.
ReadUserRoles(p) ==
    /\ pc[p] = "migrate"
    /\ IF hasUserRoles THEN Goto(p, "copy") /\ UNCHANGED serving
                       ELSE Finish(p)
    /\ UNCHANGED << dialect, schema, role, changed, faults >>

\* Mutant: Postgres' driver refuses the value too.
BindFailsAnywhere == \E u \in Users : userRoles[u] # {}

\* The UPDATE binds a uuid.UUID, which sqlite3 does not support.
BindFails == dialect = "sqlite" /\ \E u \in Users : userRoles[u] # {}

Blocked(p) ==
    /\ dialect = "postgresql"
    /\ \E q \in Procs \ {p} : pc[q] = "copy"

\* Mutant: DROP TABLE IF EXISTS, by whoever read the table.
DropsIfExists(p) == TRUE

\* DROP TABLE has the table to itself.
Drops(p) == hasUserRoles /\ ~Blocked(p)

\* Everyone with rows in user_roles gets the highest of them.
Copied == [u \in Users |-> IF userRoles[u] = {} THEN role[u] ELSE PickRole(userRoles[u])]

MigrateUserRoles(p) ==
    /\ pc[p] = "copy"
    /\ ~BindFails
    /\ Drops(p)
    /\ role' = Copied
    /\ hasUserRoles' = FALSE
    /\ IF dialect = "sqlite" THEN Goto(p, "fill") /\ UNCHANGED serving
                             ELSE Finish(p)
    /\ UNCHANGED << dialect, version, hasRole, userRoles, held, changed, alembic, faults >>

\* A statement fails and the error is logged.  On Postgres nothing more can be
\* done in the transaction, which is rolled back; on SQLite the last UPDATE is
\* still made.
GiveUp(p) ==
    /\ pc[p] = "copy"
    /\ \/ /\ BindFails \/ Blocked(p) \/ ~hasUserRoles
          /\ UNCHANGED faults
       \/ /\ faults < MaxFaults
          /\ faults' = faults + 1
    /\ IF dialect = "sqlite" THEN Goto(p, "fill") /\ UNCHANGED serving
                             ELSE Finish(p)
    /\ UNCHANGED << dialect, schema, role, changed >>

\* The last UPDATE, which on Postgres finds no role missing.
Fill(p) ==
    /\ pc[p] = "fill"
    /\ role' = Filled(role)
    /\ Finish(p)
    /\ UNCHANGED << dialect, schema, changed, faults >>

FillFails(p) ==
    /\ pc[p] = "fill"
    /\ faults < MaxFaults
    /\ faults' = faults + 1
    /\ Finish(p)
    /\ UNCHANGED << dialect, schema, role, changed >>

Crash(p) ==
    /\ pc[p] # "off" \/ p \in serving
    /\ faults < MaxFaults
    /\ faults' = faults + 1
    /\ Goto(p, "off")
    /\ serving' = serving \ {p}
    /\ UNCHANGED << dialect, schema, role, changed >>

\* A process stops, as at each deployment.
Stop(p) ==
    /\ p \in serving
    /\ pc[p] = "off"
    /\ serving' = serving \ {p}
    /\ UNCHANGED << dialect, schema, role, changed, pc, faults >>

-----------------------------------------------------------------------------
\* An administrator sets the role of an account.
UpdateRoles(u, r) ==
    /\ serving # {}
    /\ role' = [role EXCEPT ![u] = r]
    /\ changed' = changed \union {u}
    /\ UNCHANGED << dialect, schema, serving, pc, faults >>

\* `alembic upgrade head`, one transaction on Postgres.  It fails, and the
\* server does not start, when a start has added the column before.
Upgrade ==
    /\ dialect = "postgresql"
    /\ version = "multi"
    /\ ~hasRole
    /\ hasUserRoles
    /\ version' = "single"
    /\ hasRole' = TRUE
    /\ role' = Filled(Copied)
    /\ hasUserRoles' = FALSE
    /\ UNCHANGED << dialect, userRoles, held, changed, serving, pc, alembic, faults >>

\* `alembic downgrade`, with the server stopped.
Stopped == serving = {} /\ \A p \in Procs : pc[p] = "off"

Downgrade ==
    /\ dialect = "postgresql"
    /\ version = "single"
    /\ Stopped
    /\ version' = "multi"
    /\ hasUserRoles' = TRUE
    /\ userRoles' = [u \in Users |-> {role[u]}]
    /\ held' = userRoles'
    /\ hasRole' = FALSE
    /\ role' = [u \in Users |-> NoRole]
    /\ changed' = {}
    /\ UNCHANGED << dialect, serving, pc, alembic, faults >>

\* On SQLite the column is there, without roles, before they are copied; the
\* rest begins with an UPDATE and is one transaction.
UpgradeAddsColumn ==
    /\ dialect = "sqlite"
    /\ alembic = "idle"
    /\ version = "multi"
    /\ ~hasRole
    /\ hasRole' = TRUE
    /\ alembic' = "upgrading"
    /\ UNCHANGED << dialect, version, hasUserRoles, role, userRoles, held, changed,
                    serving, pc, faults >>

UpgradeCopies ==
    /\ alembic = "upgrading"
    /\ hasUserRoles
    /\ version' = "single"
    /\ role' = Filled(Copied)
    /\ hasUserRoles' = FALSE
    /\ alembic' = "idle"
    /\ UNCHANGED << dialect, hasRole, userRoles, held, changed, serving, pc, faults >>

\* Likewise the empty table is there before its rows are.
DowngradeCreatesTable ==
    /\ dialect = "sqlite"
    /\ alembic = "idle"
    /\ version = "single"
    /\ ~hasUserRoles
    /\ Stopped
    /\ hasUserRoles' = TRUE
    /\ userRoles' = NoRows
    /\ alembic' = "downgrading"
    /\ UNCHANGED << dialect, version, hasRole, role, held, changed, serving, pc, faults >>

DowngradeCopies ==
    /\ alembic = "downgrading"
    /\ version' = "multi"
    /\ userRoles' = [u \in Users |-> {role[u]}]
    /\ held' = userRoles'
    /\ hasRole' = FALSE
    /\ role' = [u \in Users |-> NoRole]
    /\ changed' = {}
    /\ alembic' = "idle"
    /\ UNCHANGED << dialect, hasUserRoles, serving, pc, faults >>

\* The second half fails, or Alembic dies before it: the first half stays.
AlembicStops ==
    /\ alembic # "idle"
    /\ \/ ~hasUserRoles /\ UNCHANGED faults
       \/ faults < MaxFaults /\ faults' = faults + 1
    /\ alembic' = "idle"
    /\ UNCHANGED << dialect, version, hasRole, hasUserRoles, role, userRoles, held,
                    changed, serving, pc >>

ProcStep(p) ==
    \/ Begin(p) \/ EnsureColumn(p) \/ AddColumn(p) \/ AddColumnFails(p)
    \/ ReadUserRoles(p) \/ MigrateUserRoles(p) \/ GiveUp(p) \/ Fill(p) \/ FillFails(p)
    \/ Crash(p) \/ Stop(p)

Next ==
    \/ \E p \in Procs : ProcStep(p)
    \/ \E u \in Users, r \in Roles : UpdateRoles(u, r)
    \/ Upgrade
    \/ Downgrade
    \/ UpgradeAddsColumn \/ UpgradeCopies
    \/ DowngradeCreatesTable \/ DowngradeCopies
    \/ AlembicStops

Spec == Init /\ [][Next]_vars

-----------------------------------------------------------------------------
\* The types; the roles of the accounts are in the table or in the column, in
\* the column alone after the revision, unless half of its downgrade created an
\* empty table; who is past the first transaction, or serves, finds the column,
\* whose roles are only ever missing on SQLite.
MigrationTypeOK ==
    /\ dialect \in Dialects
    /\ version \in {"multi", "single"}
    /\ hasRole \in BOOLEAN
    /\ hasUserRoles \in BOOLEAN
    /\ role \in [Users -> Roles \cup {NoRole}]
    /\ ~hasRole => role = [u \in Users |-> NoRole]
    /\ hasRole /\ dialect = "postgresql" => role \in [Users -> Roles]
    /\ userRoles \in [Users -> SUBSET Roles]
    /\ held \in [Users -> SUBSET Roles]
    /\ changed \subseteq Users
    /\ serving \subseteq Procs
    /\ pc \in [Procs -> {"off", "ensure", "alter", "migrate", "copy", "fill"}]
    /\ alembic \in {"idle", "upgrading", "downgrading"}
    /\ faults \in 0 .. MaxFaults
    /\ hasRole \/ hasUserRoles
    /\ version = "multi" => userRoles = held
    /\ version = "single" => hasRole /\ role \in [Users -> Roles]
    /\ version = "single" /\ hasUserRoles => dialect = "sqlite" /\ userRoles = NoRows
    /\ alembic = "upgrading" => dialect = "sqlite" /\ version = "multi" /\ hasRole
    /\ alembic = "downgrading" => version = "single" /\ hasUserRoles /\ Stopped
    /\ \A p \in Procs : p \in serving \/ pc[p] \in {"migrate", "copy", "fill"} => hasRole
    /\ \A p \in Procs : pc[p] = "fill" => dialect = "sqlite"

\* Whatever the order of starts, bootstraps, failures, upgrades and downgrades
\* (schema_sync.py, the Alembic revision), an account nobody edited has the
\* highest role it held, or INSPECTOR while user_roles waits to be copied: no
\* role is lost with the table and nobody is given another's.  A role that half
\* of an upgrade left empty is still in the table, or there was none; without
\* faults nobody serves until it is filled but beside the one that fills it.
RolesSurvive ==
    hasRole =>
        \A u \in Users \ changed :
            \/ /\ role[u] \in held[u]
               /\ \A r \in held[u] : Rank(role[u]) <= Rank(r)
            \/ /\ role[u] = "INSPECTOR"
               /\ hasUserRoles \/ held[u] = {}
            \/ /\ role[u] = NoRole
               /\ hasUserRoles \/ held[u] = {}
               /\ serving # {} /\ faults = 0 => \E p \in Procs : pc[p] = "fill"

\* Once the table is gone, no start writes roles any more, not even one that
\* read the table before another dropped it: a role changes only when an
\* administrator changes it (users.py, update_roles).
ChangesSurvive ==
    [][~hasUserRoles /\ ~hasUserRoles'
        => \A u \in Users : role[u] # NoRole /\ role'[u] # role[u]
                             => \E r \in Roles : UpdateRoles(u, r)]_vars

\* On Postgres, of the processes that block each other over user_roles one is
\* always left that copies it: without faults, a server that serves while
\* nobody is migrating has migrated (schema_sync.py:109 only logs a failure).
MigrationIsFinished ==
    /\ dialect = "postgresql"
    /\ faults = 0
    /\ serving # {}
    => \/ ~hasUserRoles
       \/ \E p \in Procs : pc[p] = "copy"

=============================================================================
