------------------------------ MODULE Accounts ------------------------------
(***************************************************************************)
(* The accounts: registration, login, change and reset of a password,      *)
(* edition of a profile, change of a role, demonstration accounts          *)
(* (api/v1/auth.py, api/v1/users.py, use_cases/auth, auth_repos.py,        *)
(* admin_seed_demo_users.py), run by concurrent requests.                  *)
(*                                                                         *)
(* A request reads rows, computes rows (the actions of the operations),    *)
(* reads again the row it updates (Save), commits (Commit), and for a     *)
(* registration or a forgotten password sends its e-mail after the commit  *)
(* (SendMail).  A refused operation changes nothing and has no step.       *)
(* Names and the notices of a changed password are left out: the edition   *)
(* of a name alone is an edition that asks for no column.                  *)
(***************************************************************************)
EXTENDS PhoneRules, FiniteSets

CONSTANTS
    Slots,          \* requests that may be in flight together
    Browsers,       \* each keeps the last access token it was given
    Ids,            \* uuid4() values an account may be given
    Emails,
    Registrations,  \* bodies of registrations
    Edits,          \* bodies of editions
    Passwords, NewPasswords,  \* hashes; those a change or a reset may set
    Roles, AdminRoles,
    Registrars,     \* roles with AUTH_REGISTER_USER
    RoleManagers,   \* roles with USER_MANAGE_ROLES
    Tokens,         \* secrets.token_urlsafe() values of reset links
    DemoRoles,      \* _SEED_ROWS: a sequence of roles, and for each of them
    DemoEmails,     \* the variants of its address
    DemoPhones,     \* and the numbers it may be given
    DemoPassword,
    AccessLife, ResetLife,   \* ACCESS_TOKEN_ and RESET_TOKEN_EXPIRE_MINUTES
    MaxTime, MaxWrites,     \* bounds
    None

\* What a registration and an edition carry; None leaves a column alone.
RegisterBody == [email : Emails, typed : Typed, password : Passwords, role : Roles]
UpdateUserBody ==
    [typed : Typed \cup {None}, active : BOOLEAN \cup {None}, role : Roles \cup {None}]

User ==
    [email : Emails, phone : PhoneNumber, password : Passwords, active : BOOLEAN, role : Roles]
Column == {"phone", "password", "active", "role"}

ResetToken == [user : Ids, used : BOOLEAN, expires : Nat]
Session == [user : Ids, role : Roles, expires : Nat]

ASSUME AccountsAssumption ==
    /\ None \notin User \cup ResetToken \cup Session \cup Ids \cup Tokens \cup Nat
                   \cup PhoneNumber \cup Passwords \cup Roles \cup BOOLEAN \cup Typed
    /\ Tokens \cap Ids = {}
    /\ AdminRoles \subseteq Roles /\ Registrars \subseteq Roles /\ RoleManagers \subseteq Roles
    /\ AccessLife \in Nat /\ ResetLife \in Nat /\ MaxTime \in Nat /\ MaxWrites \in Nat
    /\ Registrations \subseteq RegisterBody /\ Edits \subseteq UpdateUserBody
    /\ DemoRoles \in Seq(Roles) /\ DemoPassword \in Passwords /\ NewPasswords \subseteq Passwords
    /\ DOMAIN DemoEmails = DOMAIN DemoRoles /\ DOMAIN DemoPhones = DOMAIN DemoRoles
    /\ \A i \in DOMAIN DemoRoles :
          DemoEmails[i] \in Seq(Emails) /\ DemoPhones[i] \in Seq(PhoneNumber)

VARIABLES
    users,        \* table users; None where there is no row
    resetTokens,  \* table password_reset_tokens
    sessions,     \* the access token a browser keeps
    mailed,       \* accounts welcomed and reset links sent by e-mail
    req,          \* the requests in flight
    now,          \* the clock
    writes,       \* transactions that wrote accounts
    held          \* history: when an account last was active with a role

vars == <<users, resetTokens, sessions, mailed, req, now, writes, held>>

\* A request in flight: the session it came with, the rows it computed and the
\* columns it was asked to set, the account it is about, the row it read again,
\* the reset token it uses or, with its new row (link), issues.
\* overlapped: another transaction wrote, since this request's reads, a row
\* that it read; overtaken: the columns it changed of the account.
Idle == [pc |-> "idle"]

Init ==
    /\ users = [u \in Ids |-> None]
    /\ resetTokens = [t \in Tokens |-> None]
    /\ sessions = [b \in Browsers |-> None]
    /\ mailed = {}
    /\ req = [s \in Slots |-> Idle]
    /\ now = 0
    /\ writes = 0
    /\ held = [u \in Ids |-> [r \in Roles |-> None]]

Accounts == {u \in Ids : users[u] # None}

-----------------------------------------------------------------------------
(* Access tokens *)

\* Mutants: the expiry is not looked at; an inactive account may log in.
NeverExpires(expires) == TRUE
Exists(user) == TRUE

Unexpired(expires) == now < expires
MayLogIn(user) == user.active

\* The role in the token is the role at login, whatever it becomes.
AccessToken(u) == [user |-> u, role |-> users[u].role, expires |-> now + AccessLife]

\* With the right password.
Login(b, u) ==
    /\ u \in Accounts
    /\ MayLogIn(users[u])
    /\ sessions' = [sessions EXCEPT ![b] = AccessToken(u)]
    /\ UNCHANGED <<users, resetTokens, mailed, req, now, writes, held>>

\* _decode_token: the signature and the expiry, and nothing of the account.
SignedIn(session) == session # None /\ Unexpired(session.expires)

-----------------------------------------------------------------------------
(* The operations: reads, checks, and the rows in memory *)

\* Only an update reads its row again.
Updates == {"edit", "roles", "change", "reset"}

FirstStep(op) == IF op \in Updates THEN "save" ELSE "commit"

Touched(q) == {u \in Ids : q.rows[u] # None}

\* The requests that have begun and not yet written.
Writing == {s \in Slots : req[s].pc \in {"save", "commit"} /\ Touched(req[s]) # {}}

Begin(s, op, by, rows, asked, user, token, link) ==
    /\ req[s].pc = "idle"
    /\ writes + Cardinality(Writing) < MaxWrites
    /\ req' = [req EXCEPT ![s] =
          [pc |-> FirstStep(op), op |-> op, by |-> by, rows |-> rows, base |-> None,
           asked |-> asked, user |-> user, token |-> token, link |-> link,
           overlapped |-> FALSE, overtaken |-> {}]]
    /\ UNCHANGED <<users, resetTokens, sessions, mailed, now, writes, held>>

NoRows == [v \in Ids |-> None]

Only(u, user) == [NoRows EXCEPT ![u] = user]

\* uuid4(): an id no row and no request in flight has.
FreshIds ==
    {u \in Ids \ Accounts : \A s \in Slots : req[s].pc # "idle" => u \notin Touched(req[s])}

FreshTokens ==
    {t \in Tokens : /\ resetTokens[t] = None
                    /\ \A s \in Slots : req[s].pc # "idle" => req[s].token # t}

PhoneTaken(phone, others) == \E v \in others : users[v].phone = phone

Registrable(body) ==
    /\ PhoneValid(body.typed)
    /\ \A v \in Accounts : users[v].email # body.email
    /\ ~PhoneTaken(National(body.typed), Accounts)

NewUser(body) ==
    [email |-> body.email, phone |-> National(body.typed), password |-> body.password,
     active |-> TRUE, role |-> body.role]

RegisterUser(s, b, u, body) ==
    /\ SignedIn(sessions[b]) /\ sessions[b].role \in Registrars
    /\ Registrable(body)
    /\ u \in FreshIds
    /\ Begin(s, "register", sessions[b], Only(u, NewUser(body)), {}, None, None, None)

\* Mutant: what is reserved to administrators is not.
AnybodyMay(session, u, body) == TRUE

MayEdit(session, u, body) ==
    \/ session.role \in AdminRoles
    \/ session.user = u /\ body.active = None /\ body.role = None

Provided(given) == {c \in DOMAIN given : given[c] # None}

\* Mutant: a flag that is not given is taken for false.
FlagFromBody(user, given) == [user EXCEPT !.active = (given.active = TRUE)]

Edited(user, given) ==
    [c \in DOMAIN user |-> IF c \in Provided(given) THEN given[c] ELSE user[c]]

\* update_user; its last read flushes the row, which Save and Commit stand for.
UpdateUser(s, b, u, body) ==
    LET phone == IF body.typed = None THEN None ELSE National(body.typed)
        given == [phone |-> phone, active |-> body.active, role |-> body.role]
    IN  /\ SignedIn(sessions[b])
        /\ MayEdit(sessions[b], u, body)
        /\ u \in Accounts
        /\ phone # None => PhoneValid(body.typed) /\ ~PhoneTaken(phone, Accounts \ {u})
        /\ Begin(s, "edit", sessions[b],
                 Only(u, Edited(users[u], given)), Provided(given), u, None, None)

UpdateRoles(s, b, u, role) ==
    /\ SignedIn(sessions[b]) /\ sessions[b].role \in RoleManagers
    /\ u \in Accounts
    /\ Begin(s, "roles", sessions[b], Only(u, [users[u] EXCEPT !.role = role]),
             {"role"}, u, None, None)

WithPassword(u, new) == [users[u] EXCEPT !.password = new]

CurrentPassword(u, current) == u \in Accounts /\ users[u].password = current

ChangePassword(s, b, current, new) ==
    LET u == sessions[b].user
    IN  /\ SignedIn(sessions[b])
        /\ CurrentPassword(u, current)
        /\ Begin(s, "change", sessions[b], Only(u, WithPassword(u, new)),
                 {"password"}, u, None, None)

NewLink(u) == [user |-> u, used |-> FALSE, expires |-> now + ResetLife]

\* Nobody has to be logged in; the links sent before stay as they are.
RequestPasswordReset(s, u, token) ==
    /\ u \in Accounts
    /\ token \in FreshTokens
    /\ Begin(s, "forgot", None, NoRows, {}, u, token, NewLink(u))

\* Mutant: a used link is accepted.
AnyLink(token) == Unexpired(token.expires)

LinkValid(token) == ~token.used /\ Unexpired(token.expires)

\* The link is known from the e-mail only.
ResetPassword(s, token, new) ==
    LET u == resetTokens[token].user
    IN  /\ token \in mailed
        /\ resetTokens[token] # None
        /\ LinkValid(resetTokens[token])
        /\ Begin(s, "reset", None, Only(u, WithPassword(u, new)),
                 {"password"}, u, token, None)

-----------------------------------------------------------------------------
(* Demonstration accounts *)

EmailTaken(email) == \E u \in Accounts : users[u].email = email

\* Mutant: the role of the account that has the address is not compared.
FirstFreeOnly(i, k) == ~EmailTaken(DemoEmails[i][k])

\* The variant where the search stops: a free one, or one that has the role.
Suits(i, k) ==
    \A u \in Accounts :
        users[u].email = DemoEmails[i][k] => users[u].role = DemoRoles[i]

First(K) == CHOOSE k \in K : \A j \in K : k <= j

Stop(i) == First({k \in DOMAIN DemoEmails[i] : Suits(i, k)})

Missing ==
    {i \in DOMAIN DemoRoles :
        /\ \E k \in DOMAIN DemoEmails[i] : Suits(i, k)
        /\ ~EmailTaken(DemoEmails[i][Stop(i)])}

\* Which of its numbers each missing account is given: the first one that no
\* account has, those created just before included.  When one finds no number
\* there is none, and the seeding fails.
Free(i, k, number) ==
    /\ ~PhoneTaken(DemoPhones[i][k], Accounts)
    /\ \A j \in Missing : j < i => DemoPhones[j][number[j]] # DemoPhones[i][k]

DemoNumbers ==
    {number \in [Missing -> UNION {DOMAIN DemoPhones[i] : i \in Missing}] :
        /\ \A i \in Missing : number[i] \in DOMAIN DemoPhones[i]
        /\ \A i \in Missing :
              /\ Free(i, number[i], number)
              /\ \A k \in DOMAIN DemoPhones[i] : k < number[i] => ~Free(i, k, number)}

DemoAccount(i, phone) ==
    [email |-> DemoEmails[i][Stop(i)], phone |-> phone, password |-> DemoPassword,
     active |-> TRUE, role |-> DemoRoles[i]]

DemoRows(idOf, number) ==
    [u \in Ids |->
        IF \E i \in Missing : idOf[i] = u
          THEN LET i == CHOOSE i \in Missing : idOf[i] = u
               IN  DemoAccount(i, DemoPhones[i][number[i]])
          ELSE None]

\* The bootstrap route is open to everybody (see RolePermissions).
SeedDemoUsers(s, idOf) ==
    /\ Missing # {}
    /\ \A i, j \in Missing : i # j => idOf[i] # idOf[j]
    /\ \E number \in DemoNumbers :
          Begin(s, "seed", None, DemoRows(idOf, number), {}, None, None, None)

-----------------------------------------------------------------------------
(* Writing *)

\* UserAuthRepositoryImpl.update reads the row again before it assigns it.
Save(s) ==
    /\ req[s].pc = "save"
    /\ req' = [req EXCEPT ![s] = [@ EXCEPT !.pc = "commit", !.base = users[req[s].user]]]
    /\ UNCHANGED <<users, resetTokens, sessions, mailed, now, writes, held>>

\* update assigns every column but the address, and the UPDATE sets those that
\* differ from the row it read.  A new password has a new salt: its hash always
\* differs.
Merge(stored, q, object) ==
    [c \in DOMAIN stored |->
        IF object[c] = q.base[c] /\ ~(c = "password" /\ c \in q.asked)
          THEN stored[c] ELSE object[c]]

Written(q) ==
    [u \in Ids |->
        IF q.rows[u] = None THEN users[u]
        ELSE IF users[u] = None THEN q.rows[u]
        ELSE Merge(users[u], q, q.rows[u])]

\* Mutant: users.email and users.phone_number are not unique.
Unconstrained(table) == FALSE

Clash(table) ==
    \E u, v \in Ids :
        /\ u # v /\ table[u] # None /\ table[v] # None
        /\ table[u].email = table[v].email \/ table[u].phone = table[v].phone

TokensAfter(q) ==
    [t \in Tokens |->
        IF t # q.token THEN resetTokens[t]
        ELSE IF q.op = "forgot" THEN q.link
        ELSE [resetTokens[t] EXCEPT !.used = TRUE]]

\* Mutant: the message leaves before the transaction is committed.
MailFirst(q) == {"commit", "mail"}

MailStep(q) == {"mail"}

AfterCommit(q) ==
    IF q.op \in {"register", "forgot"} THEN [q EXCEPT !.pc = "mail"] ELSE Idle

\* What the other requests read that q writes: registrations and seedings
\* read the whole table.
Overlaps(q, other) ==
    Touched(q) # {} /\ (other.op \in {"register", "seed"} \/ other.user \in Touched(q))

Altered(u, table) == {c \in Column : u \in Accounts /\ table[u][c] # users[u][c]}

Seen(table, time) ==
    [u \in Ids |-> [r \in Roles |->
        IF table[u] # None /\ table[u].active /\ table[u].role = r THEN time ELSE held[u][r]]]

Commit(s) ==
    LET q == req[s]
        table == Written(q)
    IN  /\ q.pc = "commit"
        /\ ~Clash(table)
        /\ users' = table
        /\ resetTokens' = TokensAfter(q)
        /\ held' = Seen(table, now)
        /\ writes' = writes + IF Touched(q) = {} THEN 0 ELSE 1
        /\ req' = [t \in Slots |->
              IF t = s THEN AfterCommit(q)
              ELSE IF req[t].pc \in {"save", "commit"} /\ Overlaps(q, req[t])
                THEN [req[t] EXCEPT !.overlapped = TRUE,
                                    !.overtaken = @ \cup Altered(req[t].user, table)]
              ELSE req[t]]
        /\ UNCHANGED <<sessions, mailed, now>>

SendMail(s) ==
    /\ req[s].pc \in MailStep(req[s])
    /\ req[s].op \in {"register", "forgot"}
    /\ mailed' = mailed \cup IF req[s].op = "forgot" THEN {req[s].token} ELSE Touched(req[s])
    /\ req' = [req EXCEPT ![s] = IF @.pc = "mail" THEN Idle ELSE @]
    /\ UNCHANGED <<users, resetTokens, sessions, now, writes, held>>

\* The constraint fails, or the session or the process does; after the commit,
\* the message is not sent and the request fails although it is committed.
RollBack(s) ==
    /\ req[s].pc # "idle"
    /\ req' = [req EXCEPT ![s] = Idle]
    /\ UNCHANGED <<users, resetTokens, sessions, mailed, now, writes, held>>

Tick ==
    /\ now < MaxTime
    /\ now' = now + 1
    /\ held' = Seen(users, now + 1)
    /\ UNCHANGED <<users, resetTokens, sessions, mailed, req, writes>>

Next ==
    \/ \E b \in Browsers, u \in Ids : Login(b, u)
    \/ \E s \in Slots, b \in Browsers, u \in Ids :
          \/ \E body \in Registrations : RegisterUser(s, b, u, body)
          \/ \E body \in Edits : UpdateUser(s, b, u, body)
          \/ \E role \in Roles : UpdateRoles(s, b, u, role)
    \/ \E s \in Slots, b \in Browsers, current \in Passwords, new \in NewPasswords :
          ChangePassword(s, b, current, new)
    \/ \E s \in Slots, t \in Tokens :
          \/ \E u \in Ids : RequestPasswordReset(s, u, t)
          \/ \E new \in NewPasswords : ResetPassword(s, t, new)
    \/ \E s \in Slots, idOf \in [DOMAIN DemoRoles -> FreshIds] : SeedDemoUsers(s, idOf)
    \/ \E s \in Slots : Save(s) \/ Commit(s) \/ SendMail(s) \/ RollBack(s)
    \/ Tick

Spec == Init /\ [][Next]_vars

-----------------------------------------------------------------------------
(* Properties *)

\* Every account has a number in use in the country, however it was spelled,
\* and no two have one address or one number, however many registrations,
\* editions and seedings found it free at the same time (register_user.py:57,
\* users.py:184, phone_number.py:125).
IdentitiesAreUnique ==
    \A u, v \in Accounts :
        /\ users[u].phone \in PhoneNumber
        /\ u # v => users[u].email # users[v].email /\ users[u].phone # users[v].phone

\* A link that was mailed is one the server knows, and an account that was
\* welcomed exists: no message speaks of a transaction that was rolled back.
MailsFollowCommits ==
    /\ \A t \in Tokens \cap mailed : resetTokens[t] # None
    /\ Ids \cap mailed \subseteq Accounts

Commits(s) == req[s].pc = "commit" /\ req'[s].pc # "commit" /\ writes' # writes

\* A request changes no account but the one it is about, never its address, and
\* of it what it was asked to change, although update writes the whole row
\* (auth_repos.py:126): it undoes at most what others changed since it read it.
OnlyWhatWasAsked ==
    [][\A s \in Slots : Commits(s) =>
          \A u \in Accounts :
              /\ users'[u].email = users[u].email
              /\ \A c \in Column : users'[u][c] # users[u][c] =>
                    u = req[s].user /\ c \in req[s].asked \cup req[s].overtaken]_vars

\* The roles that allow what a request does to other accounts or to rights.
Allowing(q) ==
    CASE q.op = "register" -> Registrars
      [] q.op = "roles" -> RoleManagers
      [] q.op = "edit" /\ (q.user # q.by.user \/ q.asked \cap {"active", "role"} # {}) ->
            AdminRoles
      [] OTHER -> Roles

\* A role or an account that is taken away acts for the life of an access
\* token at most: who registers, edits or promotes another was active with a
\* role that allows it less than AccessLife ago (deps.py:45, login.py:51).
AuthorityIsRecent ==
    [][\A s \in Slots :
          /\ req[s].pc = "idle" /\ req'[s].pc # "idle"
          /\ req'[s].op \in {"register", "roles", "edit"}
          => \E r \in Allowing(req'[s]) :
                LET last == held[req'[s].by.user][r]
                IN  last # None /\ now < last + AccessLife]_vars

\* A link is spent once, or by resets that overlapped (reset_password.py:35).
SpentOnceUnlessOverlapped ==
    [][\A s \in Slots :
          Commits(s) /\ req[s].op = "reset" /\ resetTokens[req[s].token].used
          => req[s].overlapped]_vars

\* A seeding that nobody overlapped gives a role no second account: before a
\* variant is used, every earlier one belongs to an account of another role
\* (admin_seed_demo_users.py:4).
NoSecondDemoAccount ==
    [][\A s \in Slots : Commits(s) /\ req[s].op = "seed" /\ ~req[s].overlapped =>
          \A u \in Touched(req[s]), i \in DOMAIN DemoRoles :
          \A k \in DOMAIN DemoEmails[i], j \in DOMAIN DemoEmails[i] :
              /\ users'[u].role = DemoRoles[i] /\ users'[u].email = DemoEmails[i][k]
              /\ j < k
              => \E v \in Accounts : /\ users[v].email = DemoEmails[i][j]
                                     /\ users[v].role # DemoRoles[i]]_vars
=============================================================================
