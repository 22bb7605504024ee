# SIGIS backend: TLA+ models, checks and proofs

SIGIS is the back end of a school-inspection service: inspectors are sent on
missions to establishments, check in on the spot, the establishment's host
confirms the co-presence, the inspector checks out. It is a FastAPI
application over SQLAlchemy; a unit of work (one session, one transaction) is
opened for each HTTP request, and the state lives in one database. Nothing is
locked: what a request read may change before it commits, and the only
serialisation is that of the unique constraints. That is what these
specifications are about.

Run everything from this directory:

    tlc -workers 2 -config FieldVisits_race.cfg MCFieldVisits
    tlapm FieldVisits_proofs.tla

## 1. Inventory

| Component | State | Operations | What makes it correct |
|---|---|---|---|
| Field visits (`api/v1/site_visits.py`, `check_in_inspector.py`, `confirm_host_presence.py`, `check_out_visit.py`, `domain/site_visit`, `domain/shared`) | tables `site_visits`, `presence_proofs`, `copresence_events` | check-in, host confirmation by GPS, QR or SMS, check-out | one visit per mission; forward only; evidence precedes status, is timely and near; a replay has one effect and one answer |
| Unit of work and idempotency (`uow.py`, `extra_repos.py`, `api/deps.py`) | one session per request; `idempotency_records`, `used_qr_jti` | read, save, commit, roll back; look up and record an answer; consume a token | all of a request's writes or none; a key has one record; a token is spent once |
| Start-up (`api/main.py`, `schema_sync.py`) | a process, the schema, `role_permissions`, `idempotency_records` | create tables, align schema, seed permissions, purge records older than 30 days | the server always comes back, complete |
| From several roles to one (`schema_sync.py`, `alembic/versions/..._single_role_per_user.py`) | table `user_roles`, column `users.role`, the Alembic revision | add the column, copy and drop the table; upgrade, downgrade | no role is lost, none is written twice, the migration is finished |
| Role permissions (`role_permission_repo.py`, `api/v1/roles.py`, `role_defaults.py`) | `role_permissions`, unique (role, permission) | add, remove, replace, bootstrap; read at every permission check | the table is what administrators asked for |
| Missions (`api/v1/missions.py`, `create_mission.py`, `mission_workflow.py`) | `missions`, `mission_outcomes` | create, approve, cancel, reassign, edit, outcome, QR token | a mission is planned with its approval and cancelled with a trace, or a PATCH says so; one outcome; a cancelled or completed mission is reopened only by a PATCH or by a request that read it before; the lineage is fixed |
| Accounts (`api/v1/auth.py`, `users.py`, `use_cases/auth`, `auth_repos.py`) | `users`, `password_reset_tokens`, access tokens of 60 minutes | register, log in, change or reset the password, edit, change the role, seed demonstration accounts | addresses and numbers unique; an update undoes nothing but what changed since its read; a link is spent once; a withdrawn right ends |
| Telephone numbers (`phone_number.py`) | – | normalise, refuse, name the operator | one number has one form |
| Establishments (`establishments.py`) | `establishments` with `geometry_version` | create, edit, list | each change of geometry has its version |
| Exception requests (`exception_requests.py`) | `exception_requests`, `audit_logs` | create, change status, edit, list | an edit changes what it names; the audit entry is true |
| Mobile batch and audit chain (`api/v1/mobile.py`) | `mobile_devices`, `mobile_events`, `audit_chain_entries` | ingest a batch | an event is stored and chained once; what was answered RECEIVED is kept; a batch can be sent again |
| Rate limiter, access log, telemetry (`rate_limit.py`, `access_log.py`, `telemetry.py`) | attempts per host, a circular buffer, in memory | log in, post events, read statistics | the limit holds in every minute; nobody is shut out for good; statistics keep something to count |
| Audit log, reports, listings | `audit_logs`, read-only queries | insert in the request's transaction; count and page | the entry tells what was done; a walk over the pages misses nothing |
| E-mail (`email_service.py`) | – | send | only of what is committed |
| GPS quality, client time, anomalies | – | pure functions | nothing calls them but tests |
| Notifications, settings, other migrations, demonstration data | – | input/output | – |

Interactions: the routes call the use cases, which share the unit of work of
the request; the mission a visit belongs to is read by each of the three visit
requests and may be replaced by a mission route between two of their steps;
every route checks `role_permissions` in a transaction of its own, with the role
that the access token was given at login; start-up and the public bootstrap
write the schema, the permissions and the accounts that requests read.

Hard behaviours: stale reads followed by saves of whole rows; races decided by a
unique constraint at commit; retries that overlap their first attempt, or that
arrive after their record was purged; a crash between two steps, and between the
answer and a commit that comes after it; a start that fails half-way, or together with another.
`PROJECT.json` lists each with its line and the properties that watch it.

## 2. Modules

| Module | Models | Instances | Proofs |
|---|---|---|---|
| `VisitRules` | the pure rules: windows, geofence, co-presence, QR and SMS checks, the guards and effects of the visit's transitions. A rule that raises is an operator that returns the code of the error | – | – |
| `FieldVisits` | the three requests on the database, split where the code awaits it; tokens, mission edits, purge, crash | `MCFieldVisits` | `FieldVisits_proofs` |
| `VisitLifecycle` | the abstract promise: a mission's visit goes forward, one atomic step per accepted request, each with its evidence | `MCFieldVisits` | `FieldVisits_proofs` |
| `RolePermissions` | the permission table: administrators, bootstrap, the two transactions of start-up | `MCRolePermissions` | `RolePermissions_proofs` |
| `RoleMigration` | what starts, bootstraps and Alembic do to the schema and the roles of an old database | `MCRoleMigration` | `RoleMigration_proofs` |
| `Missions` | the mission workflow: creation, approval, cancellation, reassignment, edition, report | `MCMissions` | `Missions_proofs` |
| `PhoneRules` | telephone numbers: normal form, validity, operator | `MCAccounts` | `Accounts_proofs` |
| `Accounts` | accounts, access tokens, reset links, messages | `MCAccounts` | `Accounts_proofs` |
| `MobileChain` | uploads of offline events, devices, the chain of hashes | `MCMobileChain` | `MobileChain_proofs` |
| `Records` | establishments and exception requests, and a client that reads their lists | `MCRecords` | `Records_proofs` |
| `Observability` | login attempts and the buffer of events, in memory | `MCObservability` | `Observability_proofs` |

A module that extends another composes it: `FieldVisits` extends `VisitRules`,
`Accounts` extends `PhoneRules`. In every model of requests, `req[s]` is the
request in flight in slot `s`; a slot serves any number of requests one after
the other. An operation that the code refuses (400, 401, 403, 404, 409) changes
nothing and has no action, except in `FieldVisits`, where refusals race with
replays. Operators marked "Mutant" are faults the properties must notice; no
specification uses them.

### FieldVisits: state and actions

`visits`, `proofs`, `events`, `idem`, `usedJti` and `missions` are the committed
tables. `req[s]` is a request in flight: its command, where it is (`pc`), the
instant `datetime.now()` gave it, the domain object it computed and the row that
`save` read again. `acks` is a history variable: the successes that clients
received. `issued` holds the QR tokens handed out.

| Action | Code |
|---|---|
| `Receive` | `idempotency.get_response`; a recorded answer is returned at once |
| `LoadCheckIn`, `LoadConfirmHost`, `LoadCheckOut` | the rest of the reads, the checks in their order, and the transition of the domain object in memory; a domain error ends the request (`Refuse`) |
| `Save` | `SiteVisitRepositoryImpl.save` reads the row again; `apply_site_visit_to_row` assigns every column |
| `Commit` | flush and commit: the ORM updates the columns that differ from the row `save` read (`Merge`), inserts proof, event, token and record |
| `RollBack` | a unique constraint fails: (scope, client_key), `site_visits.mission_id`, or `jti` |
| `Reply`, `Drop` | the answer arrives, or connection, session or process is lost |
| `IssueHostQrJwt`, `MissionSaved`, `Restart`, `Tick` | token route, mission routes, purge at start-up, time |

`ReplyFirst` says when the framework answers. `get_uow` commits when the
dependency exits; fastapi from 0.106 to 0.117 exits it before the response is
sent, 0.118 and later after, and `pyproject.toml` accepts both
(`fastapi>=0.109.0`); the `Dockerfile` installs the latest. In `VisitRules`,
`StartCheckInVerdict` keeps the guard of `start_check_in` (`transitions.py:24`),
which no check-in fails: its caller has just tested the same.

Granularity. A `Load` action merges the reads of a request with its checks: its
reads are of rows that other actions replace atomically, and the stale data that
matter (the visit, until `Save` and `Commit`) stay split. `session.get` in `save`
does read again: the session keeps only weak references to the rows it loaded
and the mapper drops them. Foreign keys are left out (SQLite, the default
database, does not enforce them unless told to), and so are the answers for an
unknown mission or establishment. Position is a point of a line, since only
distances are compared. A mission's row keeps what the visit reads of it.

### RolePermissions: state and actions

`rows` is the committed table; a pending request carries the rows it will insert
and delete, decided on what it read. `AddPermission`, `RemovePermission`,
`SetPermissions` and `BootstrapFull` are the four handlers, `Commit` and
`RollBack` end them. Rows are deleted by id, so that a row another transaction
deleted is gone for this one even if the same pair came back (`Overtaken`).
`overtaken`, in a request, is a history variable: the rows of the role it
replaces that others inserted or deleted since its reads.
`Seed` and `Purge` are the two transactions of `lifespan`, run alone by one
process; `loggingBound` is whether its local name `logging` has been assigned.

The requests that `RequireRolesDep` refuses change nothing and are left out.
`POST /roles/{role}/permissions/reset` is never reached: the route
`/{role}/permissions/{perm}` (`api/v1/roles.py:135`) is declared before it
(`:216`), matches it with `perm = "reset"` and answers 404, whatever
`roles.py:221` says; it has therefore no action.

### Missions: state and actions

`missions` keeps of a row its status, inspector, need of an approval and origin;
`outcomes` counts the reports of a mission, `audit` holds who did what
(`write_audit`). The six operations read, check and compute their object in
memory; `Save` reads the row again and `Commit` writes the columns that differ
from it, the clone of a reassignment, the report and the audit entry together.
`overlapped`, in a request, is a history variable: another transaction changed
its mission since its reads. An edition of the window, the codes or the
objective is an edition whose status is `None`: it saves the other columns all
the same. An edition that gives a status may give any, from any
(`missions.py:296`), and writes no audit entry: it is the operation "set_status",
and `said` (history) tells which statuses it gave to which missions. The reason, the author and the date of a cancellation are left out, and so are the
requests the code refuses, which change nothing.
Who creates, approves, cancels or hands over is an operator of its own
(`NewMission`, `Approvable`, `Approved`, `Cancellable`, `Cancelled`,
`Reassignable`, `Heir`, `Reportable`), each from the use case of its name.

### RoleMigration: state and actions

`hasRole` and `hasUserRoles` are the schema, `role` and `userRoles` the data,
`version` the Alembic revision; `pc[p]` is where process `p` is in the two
transactions of `lifespan` (or of `admin_full_bootstrap`), `serving` who answers
requests, `alembic` which half of the revision SQLite has kept. Two variables are
histories: `changed`, the accounts an administrator edited, and `held`, the roles
each account had in the old table.

| Action | Code |
|---|---|
| `Begin`, `EnsureColumn`, `AddColumn`, `AddColumnFails` | `ensure_users_role_column`: the columns are read, then `ALTER TABLE`, which fails when another process added the column meanwhile: that start fails |
| `ReadUserRoles`, `MigrateUserRoles`, `GiveUp` | `migrate_user_roles_table`: read, update each user, drop the table; `main.py` and `schema_sync.py:109` log a failure and go on |
| `Fill`, `FillFails` | the last UPDATE, of the roles that are missing, which SQLite reaches also when the copy failed |
| `Crash`, `Stop` | the process dies, or is stopped |
| `UpdateRoles` | `PATCH /users/{id}/roles`, while somebody serves |
| `Upgrade`, `Downgrade` | the revision b2c3d4e5f6a7 on Postgres, one transaction |
| `UpgradeAddsColumn`, `UpgradeCopies`, `DowngradeCreatesTable`, `DowngradeCopies`, `AlembicStops` | the revision on SQLite, whose driver commits a change of the schema at once when no row was written before it: two halves, of which the second may fail |

Postgres keeps the read lock of a SELECT until the transaction ends: `DROP TABLE`
waits for the other readers, two readers block each other, and the one that is
aborted gives up (`Blocked`). Facts the model keeps: on SQLite no start or
bootstrap migrates a table that has rows, since the driver refuses the
`uuid.UUID` that the UPDATE binds (`main.py:39` and `schema_sync.py:75` say that
it does), while the revision, whose SQL binds nothing, does; a column added by a
start makes a later `alembic upgrade head` fail, so that `Upgrade` and
`UpgradeAddsColumn` ask for `~hasRole`; after half an upgrade on SQLite the
column is empty and the revision cannot be run again; nobody starts a server
while a downgrade is half-way (`Begin`); a process whose migration was aborted serves, with every role at
INSPECTOR until another copies the table.

### Accounts and PhoneRules: state and actions

`users` and `resetTokens` are the tables, `sessions` the access token each
browser keeps, `mailed` the messages sent, `held` (history) when each account
was last active with a role. `overlapped` and `overtaken`, in a request, are
histories: whether another transaction wrote an account it read, and which
columns of its own account others changed. A request reads and computes its rows
in one step; `Save` is `UserAuthRepositoryImpl.update`, which reads the row again
and assigns every column; `Commit` updates the columns that differ from that
second read and tests the two unique constraints; `SendMail` comes after the
commit; `RollBack` ends a request anywhere.

| Action | Code |
|---|---|
| `Login` | `login.py`: the token carries the role of that instant |
| `RegisterUser`, `UpdateUser`, `UpdateRoles` | `POST /auth/register`, `PATCH /users/{id}`, `PATCH /users/{id}/roles`; the permission is that of the role in the token (`deps.py:45`) |
| `ChangePassword`, `RequestPasswordReset`, `ResetPassword` | the use cases of the same names |
| `SeedDemoUsers` | `admin_seed_demo_users.py`, by the bootstrap that is open to everybody |

`PhoneRules` gives what is stored for what was typed. Facts the model keeps: the
docstring of `CameroonPhoneNumber` speaks of 8 or 9 digits while the code refuses
8; "237" is removed also without "+"; a message that cannot be sent makes a
committed request fail (500), and so does a constraint that fails at flush; older
reset links stay valid when a new one is sent; `users.py:224` and the default of
USER_MANAGE_ROLES name different roles; a seeding that finds no number free
fails (`admin_seed_demo_users.py:69`) and has then no step. Left out: names, the
notice of a changed password, the development header `X-User-Id`, and digits of
other scripts, which `\d` accepts too.

### MobileChain: state and actions

`devices`, `events` and `chain` are the tables, `received` what telephones were
told, `undone` (history) what an upload told before it was rolled back.
`replyFirst` says, as in `FieldVisits`, whether the answer leaves before the
commit (fastapi 0.118 and later, which the `Dockerfile` installs) or after it; it
is chosen once, in `Init`, so that each run and each theorem is about both.

`IngestEventsBatch` is everything up to the flush: events of others are rejected,
the first own event of an unknown device binds its key, events signed with
another key are rejected, each accepted one follows the one before it in the
chain, and the first follows `get_last_hash`. `Commit` tests the five
constraints, `Refuse` rolls the whole batch back, `Reply` tells the telephone
what was accepted (`Told`), before `Commit` or after it, `Fail` loses the request
or the answer. Where the answer comes first the model is a little wider than the
code: of a batch of several events, rows that a later SELECT of the same batch
flushes are refused before the answer. `get_last_hash` orders the entries but
does not limit them to one; `scalar_one_or_none` raises when there are two or
more: the guard of `IngestEventsBatch` says that all entries are one. sha256 is
taken to be injective: the hash of an entry is the sequence of the events it
covers.

### Records: state and actions

`db` holds both tables, `audit` the entries `exception.patch`, `walk` a client
that reads a list page by page. `CreateEstablishment`, `UpdateEstablishment`,
`CreateExceptionRequest`, `UpdateExceptionStatus` and `PatchExceptionRequest` are
the routes; `Save` reads again and assigns (`update` every column,
`update_status` the status), `Commit` writes what differs. `StartWalk`, `Count`
and `FetchPage` are the list: the count and the page are two statements of one
request, and the client goes on while the total is not covered. `FetchPage` may
return rows of one name in any order, as an ORDER BY without a tie-break does.
A name stands for its place in the list's order (`Names` is a set of numbers).
Facts the model keeps: a value that is given counts as a change of geometry, were
it the same; the route `/status` neither audits nor sets a date; any status may
follow any other. Histories: `overtaken`, the columns that others changed since a
request read its row; `shapes`, the geometries with their versions; `blurred`, the
establishments that were saved by a request over a geometry it had not read;
`moved` and `late`, of a reader.

### Observability: state and actions

`buckets` and `buf` are `_Bucket` and the circular buffer, `admitted` (history)
the attempts let through in the last minute, which `LastMinute` measures without
the limiter's own test (`Younger`); `answered` (history) says that some request was.
A post whose events are in the buffer is "posted" until its own request is logged
(`Posting`). `Arrive`, then `Login`,
`PushFrontendEvents`, `GetStats` or `Handle`, then `Log` are the life of a
request: the access log appends to the buffer when the handler has ended, and
other requests come in between. Times are ages, which `Tick` increases. Facts the
model keeps: statistics over a buffer without a request fail with 500, because
the answer lacks a field; a request whose handler raised is logged and not
stored; the front end may say "http" of its own events.

## 3. What the runs check

Passing runs:

| Run | Instance | Shows |
|---|---|---|
| `race` | `FieldVisits`: 2 requests in flight, 1 mission, 2 visits' ids, 2 keys, all three operations, GPS mode, 2 instants | `OneVisitPerMission`, `AnswersAgree`, `EffectsMatchRecords`, `EvidenceBacksStatus`, `ArrivalIsFinal` under every interleaving |
| `replay` | 2 confirmations in flight by QR token, 3 tokens, answered before the commit, retention 0, 2 instants (162 033 states) | a token is consumed by exactly one committed confirmation (`TokensMatchEvents`); after a purge, replays do not repeat the evidence (`EffectsBoundedByKeys`) |
| `serial` | 1 request, 3 modes, 3 positions, right and wrong secrets, designated host, draft mission, token expiry, 3 instants, 2 missions | `TypeOK`, `EvidenceIsTimely`, and `LifecycleRefined`: the transactions implement `VisitLifecycle` |
| `rights` | `RolePermissions`: 2 administrators, 2 roles, 2 permissions and an obsolete name, 3 databases of earlier versions, 1 fault (618 804 states) | `RightsTypeOK`, `StartGivesDefaults`, `ChangesAreAskedFor`, `ReplacementReplaces` |
| `workflow` | `Missions`: 2 requests in flight, 2 missions, 2 inspectors, editions of other fields, and one of the status, to planned, completed or cancelled (3 369 416 states) | `MissionsTypeOK`, `OneOutcome`, `PlannedWasApproved`, `CancelledIsExplained`, `LineageIsFixed`, `FinalUnlessOverlapped` |
| `accounts` | `Accounts`: 2 requests in flight, 1 browser, 3 accounts, 2 links, 3 writes, tokens and links that live one tick (588 234 states) | `IdentitiesAreUnique`, `MailsFollowCommits`, `OnlyWhatWasAsked`, `AuthorityIsRecent`, `SpentOnceUnlessOverlapped`, `NoSecondDemoAccount` |
| `uploads` | `MobileChain`: 2 uploads in flight, 9 batches, 2 devices, 2 keys, answers before the commit and after it (207 067 states) | `EventsAreStoredOnce`, `ReceivedIsKept`, `ChainIsLinked`, `ForkNeedsOverlap` |
| `records` | `Records`: 2 requests in flight and a reader, 2 rows per table, pages of one row, 3 writes, 2 radii (865 300 states) | `OneGeometryPerVersion`, `WalkMissesNothing`, `OnlyWhatWasAsked`, `AuditTellsTheStatus` |
| `observe` | `Observability`: 3 requests in flight, 1 host, a limit of 2 in a minute of 3 ticks, a buffer of 4, lists cut to 2 (109 250 states) | `AtMostTheLimit`, `NoLockOut`, `StatsFailOnlyWhenFlooded` |
| `migration` | `RoleMigration`: 3 processes, 2 accounts, 3 roles, Postgres and SQLite, 1 fault (1 313 768 states) | `RolesSurvive`, `ChangesSurvive`, `MigrationIsFinished` |

Runs that TLC refutes, each a disagreement between the code and what it says of
itself (`findings` in `PROJECT.json` quotes the lines):

| Run | Property | What happens |
|---|---|---|
| `restart` | `ComesBack` | a start that inserts no permission and purges a record fails on an unbound local name, at every restart |
| `stuck` | `EveryBatchIsStored` | once the chain holds two entries every upload fails, and a telephone that goes on sending never has its event stored |

### What the code does not prevent

The properties say what holds under every interleaving. What the code does not
prevent, and the models reach, is:

- two confirmations overlap, the first one commits, the inspector checks out, the
  second one commits its stale object: the visit is `copresence_validated` again,
  with its `checked_out_at`. `EvidenceBacksStatus` and `ArrivalIsFinal` hold, and
  while no two confirmations or check-outs of one visit overlap the life cycle
  holds whole (`LifecycleWithoutOverlaps`);
- with a framework that answers before the commit (fastapi 0.106 to 0.117 does
  not, 0.118 does, `pyproject.toml` accepts both), an answered check-in may never
  be committed, and its replay creates another visit: `AnswersAgree` is checked,
  and proved, for `~ReplyFirst`;
- a start gives back a permission of the defaults that an administrator removed
  (`role_permission_repo.py:132`, called at `main.py:51`);
- an approval reads a draft, a cancellation commits, the approval commits: the
  cancelled mission is planned. `FinalUnlessOverlapped` says that it takes a
  request that read the mission before another changed it, or a PATCH;
- a PATCH gives any status (`missions.py:258-311`): it plans a mission that needs
  an approval, cancels one (which its docstring offers) or reopens a completed
  one (which its docstring answers with 409, to be strengthened in a V2), and
  leaves no audit entry, although `docs/GAP_IMPLEMENTATION.md:17` has the
  cancellation audited. `PlannedWasApproved`, `CancelledIsExplained` and
  `FinalUnlessOverlapped` name these editions and exclude every other way;
- with the same frameworks (the `Dockerfile` installs one), a telephone is
  answered RECEIVED (`mobile.py:113`) for events whose batch then fails to
  commit: it need not send them again, and they are lost. `ReceivedIsKept` says
  that nothing else loses one, `CommitFirstLosesNothing` that none is lost where
  the commit comes first;
- two reassignments of a mission overlap: two planned clones of it;
- two resets with one link overlap and both succeed; `SpentOnceUnlessOverlapped`;
- two editions of a geometry overlap and share a version: `OneGeometryPerVersion`
  says that it takes a save over a geometry the request had not read;
- an edition of a profile that read the account before a change of password puts
  the old password back, and an edition of an exception request undoes a status:
  `OnlyWhatWasAsked`, of `Accounts` and of `Records`, bounds what is undone to the
  columns that others changed since the read;
- two replacements of a role's permissions overlap and leave a mixture, where
  `role_permission_repo.py:89` says « Remplace entièrement »: `ReplacementReplaces`
  confines it to the rows that the other one inserted or deleted;
- while as many posts of events are in flight as it takes to fill the buffer (20,
  of 100 events each), the statistics fail: nothing bounds their number;
- while `user_roles` remains, the next start that copies it overwrites the role
  an administrator chose; `ChangesSurvive` says when it no longer can;
- two uploads that overlap fork the chain; `ForkNeedsOverlap`, and without them the
  chain is one line (`ChainStaysALine`).

One disagreement needs no run, since one request shows it: `check_out` tests the
status before `checked_out_at` (`transitions.py:38`), so that a second check-out
is refused as `INVARIANT_VIOLATION` and `ALREADY_CHECKED_OUT`
(`site_visits.py:221`) is never answered. `CheckOutVerdict` keeps the order.

### Bounds

Two requests in flight are enough for the races named above: each is between one
stale request and what committed since, and the second slot serves any number of
requests one after the other.

- `race`, `replay`, `serial`: two keys give the same and different
  `client_request_id`; two visit ids, two competing check-ins. In `race`,
  `MaxDelay = 0` and two instants put a confirmation before and after its
  deadline; in `serial`, position 0 is inside the strict radius, 2 inside the
  relaxed one, 3 outside, and three instants lie in the window, at its end and
  after it. The rows of a mission have the same window there: an edition of the
  window is not meant to invalidate an arrival made before it. In `replay`,
  three tokens are two in flight and one replayed later; retention 0 lets a
  restart purge a record one tick after it was made. `MaxTime` bounds the clock.
- `rights`: `MaxFaults` bounds the stops and database errors; one of them can
  happen at any step, and starts follow one another without bound.
- `workflow`: an edition may give three statuses, those that the properties tell
  apart, from any status; `MaxSaid` = 1 lets one edition give one in a behaviour,
  before, between or after any other requests (an edition that is rolled back is
  not counted). Two missions are a reassigned one and its clone, or two that
  compete for the slots.
- `accounts`: three accounts are the two demonstration ones and a registered
  one that takes an address or a number of theirs; a third write can act on what
  two others did, or race with the second over what the first did (`MaxWrites`
  counts the requests that have begun to write). Two links are one sent before the
  other was used. A token of one tick expires within `MaxTime`. The registrations
  spell one number in two ways, one of another country and one of eight digits.
  `OperatorsAreKnown`, an assumption TLC evaluates, checks the operators of all
  numbers by their first three digits.
- `uploads`: the batches repeat an event alone and with another, an event under a
  new id, another key before the first event of a device, a foreign event before
  an own one, and two devices under one key. Once two entries are chained nothing
  more is read, so that the state space is finite without a bound. Answers come
  before the commit in half of the initial states, after it in the other.
- `records`: three writes are a creation and two editions that overlap; two rows
  and pages of one need a second page; an edition gives or leaves each column, and
  the radius is the half of the geometry that takes two values. Creation instants
  differ (`Now`).
- `observe`: the limit, the minute, the buffer and the lists are small but each is
  reached and exceeded. Three requests are two posts, which fill the buffer of
  four with their lists of two, and the statistics that then fail; with one post
  in flight they must not.
- `migration`: three processes are two that block each other and one that comes
  after; three roles have a highest, INSPECTOR and a lower one. `MaxFaults` = 1 is
  a process that dies, a statement that fails, or a revision that stops half-way.

Deadlock is checked in every run but `accounts`, where time and writes end, and
`uploads` and `stuck`, where the chain comes to hold two entries and no batch is
accepted any more.

Symmetry is used in runs that check invariants or action properties only.

### Fairness

The safety runs need none.

- `LiveSpec` of `RolePermissions` (`restart`): weak fairness of the two start-up
  transactions. The platform restarts a process that ended (`fly.toml`), and a
  start that runs takes its next step. Nothing is assumed of requests, of time or
  of faults.
- `Spec` of `Observability`: weak fairness of `Tick`: time passes. Nothing is
  assumed of requests.
- `FairSpec` of `MobileChain` (`stuck`): every batch is sent again and again
  whenever the server would take it, what can be committed or answered again and
  again is in the end, and a refusal is carried out. It excludes a server that
  fails in the instant of every commit. The single slot of `stuck` leaves no
  overlap to blame.

## 4. What is proved

With TLAPS, for any sets of slots, missions, visits, users, keys, tokens,
commands, roles, permissions, inspectors, processes, devices, events, batches,
accounts, links, names and hosts, and any bounds, under the named assumptions on
constants (`RadiiAssumption`, `ConstantsAssumption`, `NoneAssumption`,
`RolesAssumption`, `MissionsAssumption`, `MigrationAssumption`,
`MobileAssumption`, `AccountsAssumption`, `RecordsAssumption`,
`ObservabilityAssumption`). These say that `None` is no value of the tables, that
bounds are numbers, that what clients send is well formed and, in
`Observability`, that the requests in flight are finitely many; none limits what
may happen. Every invariant, every
action property and the refinement that a run checks is a theorem; what a row
states after "implies" are its further hypotheses.

| Theorem | Statement | Argument |
|---|---|---|
| `TypeCorrect` | `Spec => []TypeOK` | `TypeInv` adds that each request past its reads has a command, an object and, when it updates, the row read again |
| `OneVisit` | `Spec => []OneVisitPerMission` | only a commit creates a visit, and it tests the unique constraint; a stale save never changes the mission of a row |
| `EvidenceBeforeStatus` | `Spec => []EvidenceBacksStatus` | `EvidenceInv` strengthens it: a pending check-out read a validated visit, whose event is in the table and is never deleted, so that the status a late commit writes has its event |
| `AnswersNeverDisagree` | `~ReplyFirst`, `Retention >= MaxTime` imply `Spec => []AnswersAgree` | `AnswerInv`: a key has one record, every success answered is recorded, every success about to be answered too; the two hypotheses are what an answer before the commit and a purge would break |
| `ArrivalNeverChanges` | `Spec => ArrivalIsFinal` | `ArrivalInv`, below: what a pending request read of an arrival is still the row's, and a confirmation or a check-out never writes that the host is awaited |
| `EffectsAreRecorded` | `Retention >= MaxTime` implies `Spec => []EffectsMatchRecords` | `EffectsInv`: events and proofs are counted by the records of their visit; a commit that passes the unique key adds one record and its evidence. A purge, excluded by the hypothesis, would leave evidence without record |
| `AnswersHaveEffects` | `Spec => []RecordsHaveEffects`: a visit has at least the evidence of the records that are kept | `KeptInv`: the half of the above that a purge cannot break, for any `Retention` |
| `EvidenceIsBounded` | `Keys` finite implies `Spec => []EffectsBoundedByKeys` | `BoundedInv`: no record is counted, since they may be purged: the events of a visit that a confirmation is pending on are at most the keys that confirmed it while it waited |
| `TokensAreSpentOnce` | `Jtis` finite and every confirmation carries a token imply `Spec => []TokensMatchEvents` | `TokensInv`: the events of a visit have its mode, and the unique `jti` makes the tokens spent on its mission grow with them. A confirmation by the static secret of the mission, which `qr_static` also accepts, leaves an event and spends nothing, hence the hypothesis |
| `NoTokenIsWasted` | `Jtis` finite implies `Spec => []SpentTokensLeaveEvents`: a mission spends at most as many tokens as its visit has QR events, and none if the visit is confirmed by GPS or SMS | `TokensInv`, which holds without the hypothesis on what confirmations carry |
| `EvidenceStaysTimely` | `Spec /\ [][WindowsKept]_vars => []EvidenceIsTimely` | `TimelyInv`: what a request checked stays true of the object and of the instant it will store. `WindowsKept` says that no mission route moves a window: evidence is tested against the window of its day |
| `EvidenceStaysSigned` | `Spec /\ [][PartiesKept]_vars => []EvidenceIsSigned`: the first proof of a visit is the inspector's, made at the arrival, and each event has one proof of the same instant by a host the mission admits | `SignedInv`: whom a request was checked to come from is still who the mission admits when it commits. `PartiesKept` says that a mission keeps its inspector, as `LineageNeverChanges` proves of the mission routes, and its designated host, which only an edition can change |
| `OnlyTheNextIsAccepted` | `Spec => AcceptsOnlyTheNext`: of the requests on a visit that is there, only the one its status waits for passes its checks | `ArrivalInv`: a row is never stored `scheduled`, so that the branch of `check_in` that takes such a visit again is never reached |
| `LifecycleWithoutOverlaps` | `Spec /\ []FollowUpsApart => LifecycleRefined`: for any number of slots, as long as no two confirmations or check-outs of one visit are pending together | `SerialInv`: the row that such a request read is still the visit's when it commits. Two check-ins may overlap (the unique constraint stops the second), and so may requests on other visits; each commit is a step of `VisitLifecycle`, every other step a stutter. Without the condition the refinement does not hold (see the first overlap above) |
| `LifecycleIsRefined` | one slot implies `Spec => LifecycleRefined` | the previous one: a request alone overlaps nobody |
| `LifecyclePromises` | `VL!Lifecycle`, and so `Spec /\ []FollowUpsApart`, implies `[]EvidenceFollowsStage /\ CompletedIsFinal`: a validated or completed visit has two proofs and one event, one that waits for its host one proof, and a completed one is never touched again | each step of `VisitLifecycle` moves one mission one stage on and adds the evidence of that stage |
| `RightsTypeCorrect` | `Spec => []RightsTypeOK` | `RightsInv`, below |
| `StartsComplete` | `Spec => StartGivesDefaults` | `RightsInv`: no request is in flight while the server starts, and the defaults are in the table from the first transaction to the second |
| `NothingUnasked` | `Spec => ChangesAreAskedFor` | `RightsInv`: the pending inserts and deletes of a request are always some its command asks for, since a commit of another can only shrink them; SUPER_ADMIN's defaults being the catalogue, the bootstrap inserts defaults only |
| `ReplacementsReplace` | `Spec => ReplacementReplaces` | `ReplacementsInv` adds to `RightsInv` that for a pending replacement, the table less its deletes and with its inserts is what it asks for, on the rows of its role that are not in `overtaken` (`Replaces`) |
| `MissionsTypeCorrect` | `Spec => []MissionsTypeOK` | `MissionsInv` adds that a request knows its mission (a row of the lineage of its object, or no row yet for a creation and a clone) and that an id given by one request is no other's |
| `OneOutcomeEach` | `Spec => []OneOutcome` | the unique constraint is tested in the instant of the commit |
| `ApprovalPrecedesPlanning` | `Spec => []PlannedWasApproved`, for any `EditStatuses` | an object that is planned and needs an approval is an approval's, an edition's that says so, or was read from a mission already approved or already said to be planned; the log and `said` only grow |
| `CancellationIsExplained` | `Spec => []CancelledIsExplained`, for any `EditStatuses` | a pending object that is cancelled is a cancellation's, a reassignment's, an edition's that says so, or was read from a row already explained; the log, `said` and the lineages only grow |
| `FinalStaysFinal` | `Spec => FinalUnlessOverlapped` | while nobody changes the mission of a pending request, what its operation demanded of the mission's status (`Allowed`) still holds, whatever is committed about other missions |
| `LineageNeverChanges` | `Spec => LineageIsFixed` | `MissionsInv`: a stale object has the lineage of its row, so `Merge` writes nothing there; rows are never deleted |
| `MigrationTypeCorrect` | `Spec => []MigrationTypeOK` | inductive: it says that the roles are in the table or in the column, in the column alone after the revision but for the empty table of half a downgrade, that who is past the first transaction finds the column, and that roles are missing from it on SQLite only |
| `RolesAreNotLost` | `Spec => []RolesSurvive` | `RolesInv`, below: a copy gives each account the highest of its rows, whatever an earlier copy wrote; `Downgrade` and `DowngradeCopies` make the rows from the column |
| `LaterChangesStay` | `Spec => ChangesSurvive` | without the table, `MigrateUserRoles`, `Upgrade` and `UpgradeCopies` are disabled, `Fill` writes only what is missing, `AddColumn` and `Downgrade` contradict `MigrationTypeOK` |
| `MigrationSucceeds` | `Spec => []MigrationIsFinished` | inductive: on Postgres without faults, who gives up was blocked by a process that still copies, or found the table gone |
| `MobileTypeCorrect` | `Spec => []MobileTypeOK` | `MobileInv`, below, and that the recursive function that hashes a batch exists, is typed and grows |
| `StoredOnce` | `Spec => []EventsAreStoredOnce` | `MobileInv` |
| `NothingReceivedIsLost` | `Spec => []ReceivedIsKept` | `MobileInv`: an upload that answers after its commit has its events and entries in the tables, which only grow; one that answers before it has its events in `req` until it commits, or in `undone` |
| `CommitFirstLosesNothing` | `Spec /\ ~replyFirst => []ReceivedIsStored`: every event a telephone was told of is stored and chained | the previous one: `replyFirst` never changes |
| `ChainStaysLinked` | `Spec => []ChainIsLinked` | `MobileInv`: the parent of an entry in a batch is the entry of the last accepted event before it, or the one that was read |
| `ForksNeedOverlaps` | `Spec => ForkNeedsOverlap` | `MobileInv`: while nobody overlapped a pending upload, the chain with its entries has no fork; hashes in a batch grow, so that no two of its entries have one parent |
| `ChainStaysALine` | `Spec /\ [][~OverlappedCommit]_vars => []ChainIsALine`: one entry at most at each distance from the start, and the whole history of each entry before it | the chain is linked and has no fork. Of two entries as far from the start, take the nearest such pair: they follow two others that are as far, or the start; of the entries whose history is not whole, the nearest follows one whose history is |
| `IdentitiesStayUnique` | `Spec => []IdentitiesAreUnique` | `AccountsInv`: a pending request knows the accounts it read; a commit tests both unique constraints, and what it stores is a number the rules accept |
| `NoMailBeforeItsCommit` | `Spec => []MailsFollowCommits` | `AccountsInv`: who is about to send a message has committed what it speaks of, and no row is deleted |
| `UpdatesAreNarrow` | `Spec => OnlyWhatWasAsked` | `AccountsInv`: the object of a pending request differs from its row in the columns it was asked to set and those that others changed since it read it (`overtaken`); nobody changes an address |
| `LinksAreSpentOnce` | `Spec => SpentOnceUnlessOverlapped` | `AccountsInv`: the link of a pending reset is unused until another transaction on the account overlaps it |
| `TokensCarryRecentRoles` | `Spec => AuthorityIsRecent` | `AuthorityInv`: an active account has its role now, and a session ends within `AccessLife` of an instant when its account had its role |
| `OneDemoAccountPerRole` | the addresses of the roles and their variants all differ (they do in `_SEED_ROWS`) implies `Spec => NoSecondDemoAccount` | a seeding stops at the first variant that suits; the rows it read are still there when nobody overlapped it |
| `OneNumberTwoSpellings`, `EveryNumberHasAnOperator` | lemmas of `PhoneRules` for every number and spelling | by the blocks of the first three digits |
| `EditionsAreNarrow` | `Spec => OnlyWhatWasAsked` | `RecordsInv`: the object of a pending edition differs from its row in the columns it was asked to set and those that others changed since it read it (`overtaken`) |
| `AuditIsTrue` | `Spec => AuditTellsTheStatus` | `RecordsInv`: the entry is made of the object that `update` writes whole |
| `VersionsNameGeometries` | `Spec => []OneGeometryPerVersion` | `ShapesInv`: the version of a row that no request saved over a geometry it had not read is at least every version its geometries had; such a request leaves the geometry or takes the next version (`NextVersion`) |
| `PagesMissNothing` | `Spec => []WalkMissesNothing` | `WalkInv`, below |
| `LoginsAreLimited` | `Spec => []AtMostTheLimit` | `LimitInv`: a host's attempts are kept oldest first, and those of the last minute are the ones let through in it (`LastMinuteIsYounger`), so that what `popleft` drops no longer counts |
| `StatsHaveRequests` | `Spec => StatsFailOnlyWhenFlooded`, for any finite number of requests in flight and any lists | `StatsInv`: as long as the posts on the way cannot fill the buffer, a request of it has at most `MaxBatch` events behind it for each of them; a request that was logged since comes last |
| `MemoryIsBounded` | a host's attempts never exceed `MaxPerMinute`, nor the buffer `MaxLen` | `LimitInv` and `StatsInv` |

`ArrivalInv` is the core of the proofs about visits. It adds to `TypeInv` that a
row has an arrival (`Arrived`), that a pending request knows the row it will
update (`Knows`: the same mission, mode, position and instant of arrival, and
when the row it read again no longer waited for its host, nor does the row), and
that no pending check-in shares its new id with another pending request. Each of
the other invariants of `FieldVisits` extends it by one fact about the rows and
one about the pending requests: what a stale commit writes has to be justified
by what was committed before it.

`RightsInv` is `RightsTypeOK` with what a pending request will write (`PendingAsked`),
that none is in flight while the server starts (`QuietStart`), and that the
defaults are in the table between the two transactions of a start (`Seeded`).

`MobileInv` is `MobileTypeOK`, the three state properties of `MobileChain`
(of `ReceivedIsKept` the half about events, `ReceivedStored`, suffices) and
facts about these: where the commit comes first, one that is about to answer has
its rows in the tables (`CommittedFirst`); what a pending one will insert is
accepted, linked and mutually consistent (`Pending`), and does not fork the chain
it read (`Unforked`).

`RolesInv` adds to `RolesSurvive` that once the revision is applied everyone has
the highest role he held (`Settled`), so that a downgrade makes rows of roles that
are right, and that without faults a role that is missing where the table is gone
is about to be filled.

`WalkInv` counts. Of the rows that were there when a reader began and that he has
not seen, each is listed with more than `skip` rows up to it in the order of the
list (`StillAhead`): a row that is added comes before it, and pushes it further,
or after it. While no row was added since the last count, the total is the number
of rows (`TotalHolds`). Where two rows of the list have one name nothing is claimed
(`Tied`). `PlaceInOrder` gives a row its place from the bijection between the sequence fetched and its set;
`PageSeen` says that a row whose place is on the page is seen. A reader who stops
has skipped as many rows as the total, which leaves no such row.

Induction over the length of a sequence is needed for `HashesUpTo` and for the
attempts that `popleft` drops, and over a set of variants for `First`; the prover
does not instantiate the library's induction theorems. The proofs argue by the
smallest counterexample instead: `Smallest` (`MobileChain_proofs`) and
`LeastNatural` (`Accounts_proofs`, `Observability_proofs`) take it from the
well-ordering of the naturals, and each fact supposes a first place where it
fails.

Only model-checked: `NoLockOut`, `ComesBack` and `EveryBatchIsStored`, which are
liveness properties and need fairness, out of the prover's reach (the last two
are refuted).

## 5. Plan

Done: the models of every component that keeps state, proofs of every safety
invariant, action property and refinement that the runs check, and beyond them
what the life cycle implies and what holds without the hypotheses of
`TokensAreSpentOnce`, `EffectsAreRecorded` and `LifecycleIsRefined`. Left:

1. A composition of `Missions` and `FieldVisits`, where `MissionSaved` becomes the
   mission routes: what becomes of a visit whose mission is cancelled or
   reassigned. `MissionSaved` lets a mission row become any other, so that what
   is checked of visits holds for whatever the mission routes do; the two
   theorems that need more say so (`WindowsKept`, `PartiesKept`).
2. Overlaps of two confirmations of one visit: `LifecycleWithoutOverlaps` needs
   them apart, while only those that the check-out falls between do harm; how far
   the condition can be weakened is not explored.

### Not modelled

- GPS quality, client time and anomaly detection: pure functions that nothing
  under `src/` calls but their tests.
- `create_all` at start-up, which adds missing tables; the other Alembic
  revisions, which are DDL; settings and notifications (a log line).
- `scripts/seed_massive_fake.py`: random demonstration data written directly to
  the tables, which no request could write (visits `CANCELLED`, a validated visit
  without co-presence). It also writes more than one entry of the chain, after
  which no upload succeeds (`stuck`). `scripts/seed_role_users.py` calls the use
  case that the bootstrap calls, which is modelled.
- Reports and `GET /mobile/sync`, which only read; the figures and filters of
  telemetry; the wording of messages.
- Comments, attachments, names, addresses and other columns that are copied like
  one the models keep.
