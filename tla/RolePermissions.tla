---------------------------- MODULE RolePermissions ----------------------------
(***************************************************************************)
(* The table role_permissions, and the start-up of the server that fills   *)
(* it (api/main.py, lifespan).  Administrators change the table through    *)
(* /v1/roles and anybody through /v1/admin/bootstrap; every permission     *)
(* check reads it afresh.                                                  *)
(*                                                                         *)
(* A request reads rows, decides what to insert and delete, and commits    *)
(* later: other requests may commit in between.  Start-up runs alone, in   *)
(* two transactions.                                                       *)
(***************************************************************************)
EXTENDS Naturals, FiniteSets

CONSTANTS
    Slots,        \* requests that may be in flight together
    Roles,        \* the enumeration Role
    SuperAdmin,
    Permissions,  \* the enumeration Permission: the catalogue of the code
    Names,        \* permissions that rows may name, obsolete ones included
    Defaults,     \* ROLE_DEFAULT_PERMISSIONS
    InitialRows,  \* tables an earlier version of the code may have left
    MaxFaults     \* bound on stops and database errors

ASSUME RolesAssumption ==
    /\ SuperAdmin \in Roles
    /\ Permissions \subseteq Names
    /\ Defaults \in [Roles -> SUBSET Permissions]
    /\ Defaults[SuperAdmin] = Permissions
    /\ InitialRows \subseteq SUBSET (Roles \X Names)
    /\ MaxFaults \in Nat

Row == Roles \X Names

VARIABLES
    rows,          \* table role_permissions
    req,           \* the requests in flight
    server,        \* where the process is in lifespan
    loggingBound,  \* lifespan's local name `logging` has been assigned
    expired,       \* some idempotency record is older than 30 days
    faults         \* stops and database errors so far

vars == <<rows, req, server, loggingBound, expired, faults>>

Command ==
    [op : {"add", "remove"}, role : Roles, permission : Permissions]
    \cup [op : {"set"}, role : Roles, permissions : SUBSET Permissions]
    \cup [op : {"bootstrap"}]

\* overtaken: of a replacement, the rows of its role that other transactions
\* inserted or deleted since its reads.
Idle == [pc |-> "idle"]
Request ==
    {Idle} \cup
    [pc : {"commit"}, cmd : Command, inserts : SUBSET (Roles \X Permissions),
     deletes : SUBSET Row, overtaken : SUBSET Row]

RightsTypeOK ==
    /\ rows \subseteq Row
    /\ req \in [Slots -> Request]
    /\ server \in {"down", "seeded", "up"}
    /\ loggingBound \in BOOLEAN /\ expired \in BOOLEAN
    /\ faults \in 0 .. MaxFaults

Init ==
    /\ rows \in InitialRows
    /\ req = [s \in Slots |-> Idle]
    /\ server = "down"
    /\ loggingBound = FALSE
    /\ expired = FALSE
    /\ faults = 0

-----------------------------------------------------------------------------
(* What the repository reads and decides *)

\* get_permissions_for_role: an obsolete name is ignored.
PermissionsOf(role) == {p \in Permissions : <<role, p>> \in rows}

\* Mutant: the defaults are seeded in an empty table only.
MissingWhenEmpty(table) ==
    {r \in Roles \X Permissions : r[2] \in Defaults[r[1]] /\ table = {}}

\* seed_defaults
MissingDefaults(table) ==
    {r \in Roles \X Permissions : r[2] \in Defaults[r[1]] /\ r \notin table}

\* Mutant: the catalogue of the table instead of the code's.
MissingNames(table) ==
    {SuperAdmin} \X {p \in Names : \A role \in Roles : <<role, p>> \notin table}

\* ensure_catalog_permissions_present: rows for what no role has.
MissingCatalog(table) ==
    {SuperAdmin} \X {p \in Permissions : \A role \in Roles : <<role, p>> \notin table}

Seeding(table) ==
    MissingDefaults(table) \cup MissingCatalog(table \cup MissingDefaults(table))

\* Mutants: everything is deleted, nothing is.
AllRows(role, permissions) == {r \in rows : r[1] = role}
NoRow(role, permissions) == {}

\* set_permissions: the rows of the role it does not keep, obsolete ones too.
Unwanted(role, permissions) == {r \in rows : r[1] = role /\ r[2] \notin permissions}

-----------------------------------------------------------------------------
(* Requests *)

Begin(s, cmd, inserts, deletes) ==
    /\ server = "up"
    /\ req[s].pc = "idle"
    /\ req' = [req EXCEPT ![s] =
          [pc |-> "commit", cmd |-> cmd, inserts |-> inserts, deletes |-> deletes,
           overtaken |-> {}]]
    /\ UNCHANGED <<rows, server, loggingBound, expired, faults>>

AddPermission(s, role, p) ==
    Begin(s, [op |-> "add", role |-> role, permission |-> p], {<<role, p>>} \ rows, {})

RemovePermission(s, role, p) ==
    Begin(s, [op |-> "remove", role |-> role, permission |-> p], {}, {<<role, p>>} \cap rows)

SetPermissions(s, role, permissions) ==
    Begin(s, [op |-> "set", role |-> role, permissions |-> permissions],
          ({role} \X permissions) \ rows, Unwanted(role, permissions))

BootstrapFull(s) == Begin(s, [op |-> "bootstrap"], Seeding(rows), {})

\* The rows a replacement replaces.
Replaced(cmd, r) == cmd.op = "set" /\ r[1] = cmd.role

\* The rows are deleted by id: a row that another transaction deleted is gone
\* for this one, even if the same pair is inserted again.
Overtaken(q, inserted, deleted) ==
    IF q.pc = "idle" THEN q
    ELSE [q EXCEPT !.deletes = @ \ deleted,
                   !.overtaken = @ \cup {r \in inserted \cup deleted : Replaced(q.cmd, r)}]

Commit(s) ==
    LET q == req[s]
    IN  /\ q.pc = "commit"
        /\ q.inserts \cap rows = {}
        /\ rows' = (rows \ q.deletes) \cup q.inserts
        /\ req' = [t \in Slots |-> IF t = s THEN Idle
                                           ELSE Overtaken(req[t], q.inserts, q.deletes)]
        /\ UNCHANGED <<server, loggingBound, expired, faults>>

\* The request ends without effect: (role, permission) is unique and a row it
\* inserts was inserted meanwhile, or the session fails.
RollBack(s) ==
    /\ req[s].pc = "commit"
    /\ req' = [req EXCEPT ![s] = Idle]
    /\ UNCHANGED <<rows, server, loggingBound, expired, faults>>

-----------------------------------------------------------------------------
(* Start-up *)

\* First transaction of lifespan.  `import logging` is under the condition
\* that rows were inserted, which makes `logging` a local name of lifespan.
Seed ==
    /\ server = "down"
    /\ rows' = rows \cup Seeding(rows)
    /\ loggingBound' = (Seeding(rows) # {})
    /\ server' = "seeded"
    /\ UNCHANGED <<req, expired, faults>>

\* Second transaction: the purge logs what it deleted; when the name is not
\* bound, that fails, the handler that logs the failure fails as well, and
\* lifespan ends with the purge rolled back.
Purge ==
    /\ server = "seeded"
    /\ IF expired /\ ~loggingBound
       THEN server' = "down" /\ UNCHANGED expired
       ELSE server' = "up" /\ expired' = FALSE
    /\ UNCHANGED <<rows, req, loggingBound, faults>>

\* The purge meets a database error, which the handler logs.
PurgeError ==
    /\ server = "seeded"
    /\ faults < MaxFaults
    /\ faults' = faults + 1
    /\ server' = IF loggingBound THEN "up" ELSE "down"
    /\ UNCHANGED <<rows, req, loggingBound, expired>>

\* The process ends, with the requests in flight.
Stop ==
    /\ server # "down"
    /\ faults < MaxFaults
    /\ faults' = faults + 1
    /\ server' = "down"
    /\ req' = [s \in Slots |-> Idle]
    /\ UNCHANGED <<rows, loggingBound, expired>>

\* Thirty days pass after a visit.
RecordExpires ==
    /\ ~expired
    /\ expired' = TRUE
    /\ UNCHANGED <<rows, req, server, loggingBound, faults>>

Next ==
    \/ \E s \in Slots :
          \/ \E role \in Roles :
                \/ \E p \in Permissions :
                      AddPermission(s, role, p) \/ RemovePermission(s, role, p)
                \/ \E permissions \in SUBSET Permissions :
                      SetPermissions(s, role, permissions)
          \/ BootstrapFull(s) \/ Commit(s) \/ RollBack(s)
    \/ Seed \/ Purge \/ PurgeError \/ Stop \/ RecordExpires

Spec == Init /\ [][Next]_vars

\* The platform restarts a process that ended, and a started process runs.
LiveSpec == Spec /\ WF_vars(Seed) /\ WF_vars(Purge)

-----------------------------------------------------------------------------
(* Properties *)

\* Whatever table an earlier version left and whatever administrators did
\* before, a server that comes up gives every role its defaults (lifespan).
StartGivesDefaults ==
    [][server # "up" /\ server' = "up" =>
          \A role \in Roles : Defaults[role] \subseteq PermissionsOf(role)']_vars

\* The step in which a request ends.
Ends(s) == req[s].pc = "commit" /\ req'[s].pc = "idle"

\* What a command asks to give and to take.
Gives(cmd, r) ==
    \/ cmd.op = "add" /\ r = <<cmd.role, cmd.permission>>
    \/ cmd.op = "set" /\ r \in {cmd.role} \X cmd.permissions
    \/ cmd.op = "bootstrap" /\ r[2] \in Defaults[r[1]]

Takes(cmd, r) ==
    \/ cmd.op = "remove" /\ r = <<cmd.role, cmd.permission>>
    \/ cmd.op = "set" /\ r[1] = cmd.role /\ r[2] \notin cmd.permissions

\* With stale reads and overlapping commits, a permission is given to a role
\* or taken from it only at the end of a request that asks for that change
\* (set_permissions works on a difference it read earlier), or given by a start;
\* what a start gives back, of all an administrator withdrew, are defaults.
ChangesAreAskedFor ==
    [][\A r \in Row :
          /\ r \in rows' \ rows =>
                \/ server = "down" /\ r[2] \in Defaults[r[1]]
                \/ \E s \in Slots : Ends(s) /\ Gives(req[s].cmd, r)
          /\ r \in rows \ rows' =>
                \E s \in Slots : Ends(s) /\ Takes(req[s].cmd, r)]_vars

\* A replacement leaves the role the permissions it asked for and no other, not
\* even an obsolete name, but for the rows that another transaction inserted or
\* deleted since its reads: two that overlap leave a mixture, of these rows only
\* (set_permissions, role_permission_repo.py:99).
ReplacementReplaces ==
    [][\A s \in Slots :
          /\ Ends(s) /\ rows' # rows
          /\ req[s].cmd.op = "set"
          => {r \in rows' : r[1] = req[s].cmd.role} \ req[s].overtaken
                = ({req[s].cmd.role} \X req[s].cmd.permissions) \ req[s].overtaken]_vars

\* The server comes back whenever it went down: the clean-up never prevents
\* the start (api/main.py:80).
ComesBack == server = "down" ~> server = "up"
=============================================================================
