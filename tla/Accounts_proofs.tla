---------------------------- MODULE Accounts_proofs ----------------------------
(***************************************************************************)
(* Proofs about Accounts, for any accounts, sessions and requests in       *)
(* flight: identities, messages, what an edition changes, how long a role  *)
(* that was taken away acts, links that are spent once, and the            *)
(* demonstration accounts.                                                 *)
(***************************************************************************)
EXTENDS Accounts, SequenceTheorems, WellFoundedInduction, TLAPS

-----------------------------------------------------------------------------
(* Numbers, rows and positions *)

\* A set of naturals has a smallest element.
LEMMA LeastNatural ==
    ASSUME NEW K \in SUBSET Nat, K # {}
    PROVE  \E k \in K : \A j \in K : k <= j
<1>1. \A i, j \in Nat : j < i => <<j, i>> \in OpToRel(<, Nat)
  BY DEF OpToRel
<1>2. \E R : IsWellFoundedOn(R, Nat) /\ \A i, j \in Nat : j < i => <<j, i>> \in R
  BY <1>1, NatLessThanWellFounded, Zenon
<1>3. PICK R : IsWellFoundedOn(R, Nat) /\ \A i, j \in Nat : j < i => <<j, i>> \in R
  BY <1>2
<1>4. PICK k \in K : \A j \in K : ~ (<<j, k>> \in R)
  BY <1>3, WFMin
<1>5. \A j \in K : ~ (j < k)
  BY <1>3, <1>4
<1> QED BY <1>4, <1>5

LEMMA FirstIsLeast ==
    ASSUME NEW K \in SUBSET Nat, K # {}
    PROVE  First(K) \in K /\ \A j \in K : First(K) <= j
BY LeastNatural DEF First

\* What the constructor accepts is stored as a number of the country.
LEMMA ValidNumber ==
    ASSUME NEW typed \in Typed, PhoneValid(typed)
    PROVE  National(typed) \in PhoneNumber
<1> DEFINE digits == National(typed)
<1>1. typed.digits \in Seq(Digits)
  BY DEF Typed
<1>2. digits \in Seq(Digits)
  BY <1>1 DEF National, StripCountryCode
<1>3. Len(digits) = 9
  BY DEF PhoneValid, NationalNumber, National
<1> HIDE DEF digits
<1>4. digits \in [1 .. 9 -> Digits]
  <2>1. digits \in [1 .. Len(digits) -> Digits]
    BY <1>2
  <2> QED BY <1>3, <2>1
<1> QED BY <1>4 DEF PhoneNumber, digits

\* An edition changes the columns that it is given, and never the address.
LEMMA EditedUser ==
    ASSUME NEW user \in User, NEW body \in UpdateUserBody,
           NEW phone \in PhoneNumber \cup {None}
    PROVE  LET given == [phone |-> phone, active |-> body.active, role |-> body.role]
           IN  /\ Edited(user, given) \in User
               /\ Edited(user, given).email = user.email
               /\ Provided(given) \in SUBSET Column
               /\ \A c \in Column :
                     Edited(user, given)[c] # user[c] => c \in Provided(given)
               /\ Provided(given) \cap {"active", "role"} # {} =>
                     body.active # None \/ body.role # None
<1> DEFINE given == [phone |-> phone, active |-> body.active, role |-> body.role]
           new == Edited(user, given)
<1>1. /\ DOMAIN user = {"email", "phone", "password", "active", "role"}
      /\ user.email \in Emails /\ user.phone \in PhoneNumber
      /\ user.password \in Passwords /\ user.active \in BOOLEAN /\ user.role \in Roles
  BY DEF User
<1>2. /\ DOMAIN given = {"phone", "active", "role"}
      /\ given.phone = phone /\ given.active = body.active /\ given.role = body.role
      /\ body.active \in BOOLEAN \cup {None} /\ body.role \in Roles \cup {None}
  BY DEF UpdateUserBody
<1> HIDE DEF given
<1>3. \A c \in DOMAIN user : new[c] = IF c \in Provided(given) THEN given[c] ELSE user[c]
  BY DEF Edited
<1>4. Provided(given) \in SUBSET {"phone", "active", "role"}
  BY <1>2 DEF Provided
<1>5. /\ new.email = user.email /\ new.phone \in PhoneNumber
      /\ new.password \in Passwords /\ new.role \in Roles
  BY <1>1, <1>2, <1>3, <1>4 DEF Provided
<1>6. new.active \in BOOLEAN
  BY <1>1, <1>2, <1>3 DEF Provided
<1>7. new = [email |-> new.email, phone |-> new.phone, password |-> new.password,
             active |-> new.active, role |-> new.role]
  BY <1>1 DEF Edited
<1> HIDE DEF new
<1>8. new \in User
  BY <1>1, <1>5, <1>6, <1>7 DEF User
<1>9. \A c \in Column : new[c] # user[c] => c \in Provided(given)
  BY <1>1, <1>3 DEF Column
<1>10. Provided(given) \cap {"active", "role"} # {} => body.active # None \/ body.role # None
  BY <1>2 DEF Provided
<1> QED BY <1>4, <1>5, <1>8, <1>9, <1>10 DEF given, new, Column

-----------------------------------------------------------------------------
(* The inductive invariant: the types, and what a request in flight knows  *)
(* of the rows it will write.                                              *)

Operations == {"register", "edit", "roles", "change", "forgot", "reset", "seed"}

Flight ==
    [pc : {"save", "commit", "mail"}, op : Operations, by : Session \cup {None},
     rows : [Ids -> User \cup {None}], base : User \cup {None}, asked : SUBSET Column,
     user : Ids \cup {None}, token : Tokens \cup {None}, link : ResetToken \cup {None},
     overlapped : BOOLEAN, overtaken : SUBSET Column]

\* A row that is saved over another keeps its address, and what it changes is as
\* in the row saved.
LEMMA MergedUser ==
    ASSUME NEW stored \in User, NEW object \in User, NEW q \in Flight,
           object.email = stored.email
    PROVE  /\ Merge(stored, q, object) \in User
           /\ Merge(stored, q, object).email = stored.email
           /\ \A c \in Column : Merge(stored, q, object)[c] # stored[c] =>
                 Merge(stored, q, object)[c] = object[c]
<1> DEFINE new == Merge(stored, q, object)
<1>1. DOMAIN stored = {"email", "phone", "password", "active", "role"}
  BY DEF User
<1>2. /\ stored.phone \in PhoneNumber /\ object.phone \in PhoneNumber
      /\ stored.password \in Passwords /\ object.password \in Passwords
      /\ stored.active \in BOOLEAN /\ object.active \in BOOLEAN
      /\ stored.role \in Roles /\ object.role \in Roles /\ stored.email \in Emails
  BY DEF User
<1>3. \A c \in DOMAIN stored : new[c] = stored[c] \/ new[c] = object[c]
  BY DEF Merge
<1>4. /\ new.email = stored.email /\ new.phone \in PhoneNumber
      /\ new.password \in Passwords /\ new.role \in Roles
  BY <1>1, <1>2, <1>3
<1>5. new.active \in BOOLEAN
  BY <1>1, <1>2, <1>3
<1>6. new = [email |-> new.email, phone |-> new.phone, password |-> new.password,
             active |-> new.active, role |-> new.role]
  BY <1>1 DEF Merge
<1>7. \A c \in Column : new[c] # stored[c] => new[c] = object[c]
  BY <1>1 DEF Merge, Column
<1> HIDE DEF new
<1>8. new \in User
  BY <1>2, <1>4, <1>5, <1>6 DEF User
<1> QED BY <1>4, <1>7, <1>8 DEF new

AccountsTypes ==
    /\ users \in [Ids -> User \cup {None}]
    /\ resetTokens \in [Tokens -> ResetToken \cup {None}]
    /\ sessions \in [Browsers -> Session \cup {None}]
    /\ req \in [Slots -> {Idle} \cup Flight]
    /\ now \in Nat /\ writes \in Nat
    /\ held \in [Ids -> [Roles -> Nat \cup {None}]]

\* A request that updates an account has its row, with its address.  That row
\* differs from the account in what was asked and in what others changed since.
KnowsItsAccount(q, table) ==
    LET row == table[q.user]
    IN  /\ q.user \in Ids /\ row # None /\ Touched(q) = {q.user}
        /\ q.rows[q.user].email = row.email
        /\ \A c \in Column :
              q.rows[q.user][c] # row[c] => c \in q.asked \cup q.overtaken

\* A request that creates accounts has ids for them that no account has, until
\* its commit.
KnowsItsIds(q, table) ==
    /\ q.pc \in {"commit", "mail"}
    /\ \A u \in Touched(q) : q.pc = "commit" <=> table[u] = None

\* A link that is issued is for an account, and stored by its commit.
KnowsItsNewLink(q, table, links) ==
    /\ q.link.user = q.user /\ q.user \in Ids /\ table[q.user] # None
    /\ q.pc \in {"commit", "mail"} /\ q.rows = NoRows
    /\ q.token \in Tokens /\ q.link \in ResetToken
    /\ q.pc = "commit" <=> links[q.token] = None

\* A link that is used belongs to the account, and is unused as long as nobody
\* overlapped.
KnowsItsLink(q, links) ==
    /\ q.token \in Tokens /\ links[q.token] # None
    /\ links[q.token].user = q.user
    /\ ~q.overlapped => ~links[q.token].used

\* The address that a seeding chose is the first that suits its role.
KnowsItsVariants(q, table) ==
    \A u \in Touched(q) :
    \E i \in DOMAIN DemoRoles : \E k \in DOMAIN DemoEmails[i] :
        /\ q.rows[u].role = DemoRoles[i] /\ q.rows[u].email = DemoEmails[i][k]
        /\ \A j \in DOMAIN DemoEmails[i] : j < k =>
              \E v \in Ids : /\ table[v] # None /\ table[v].email = DemoEmails[i][j]
                             /\ table[v].role # DemoRoles[i]

Knows(q, table, links) ==
    /\ q.op \in Updates => q.pc # "mail" /\ KnowsItsAccount(q, table)
    /\ q.op \in {"register", "seed"} => KnowsItsIds(q, table)
    /\ q.op = "forgot" => KnowsItsNewLink(q, table, links)
    /\ q.op = "reset" => KnowsItsLink(q, links)
    /\ q.op \notin {"forgot", "reset"} => q.token = None
    /\ q.op = "seed" => q.pc = "commit" /\ (~q.overlapped => KnowsItsVariants(q, table))

\* Two creations never have one id, nor two new links one token.
CreationsApart ==
    \A s, t \in Slots :
        /\ s # t /\ req[s].pc = "commit" /\ req[t].pc = "commit"
        => /\ req[s].op \in {"register", "seed"} /\ req[t].op \in {"register", "seed"}
                => Touched(req[s]) \cap Touched(req[t]) = {}
           /\ req[s].op = "forgot" /\ req[t].op = "forgot" => req[s].token # req[t].token

\* What was mailed was committed, and every link is an account's.
Mailed ==
    /\ \A t \in Tokens : resetTokens[t] # None => resetTokens[t].user \in Accounts
    /\ \A t \in Tokens \cap mailed : resetTokens[t] # None
    /\ Ids \cap mailed \subseteq Accounts

AccountsInv ==
    /\ AccountsTypes
    /\ \A s \in Slots : req[s].pc # "idle" => Knows(req[s], users, resetTokens)
    /\ CreationsApart
    /\ Mailed
    /\ ~Clash(users)

\* An account that is active has its role now; a session has a role that its
\* account had when it began, which is less than AccessLife ago while it lasts.
AuthorityInv ==
    /\ \A u \in Accounts : users[u].active => held[u][users[u].role] = now
    /\ \A u \in Ids, r \in Roles : held[u][r] # None => held[u][r] <= now
    /\ \A b \in Browsers : sessions[b] # None =>
          LET last == held[sessions[b].user][sessions[b].role]
          IN  last # None /\ sessions[b].expires <= last + AccessLife

LEMMA InFlight ==
    ASSUME AccountsTypes, NEW s \in Slots
    PROVE  /\ req[s].pc # "idle" <=> req[s] \in Flight
           /\ req[s].pc = "idle" <=> req[s] = Idle
<1>1. req[s] \in {Idle} \cup Flight /\ Idle.pc = "idle"
  BY DEF AccountsTypes, Idle
<1>2. req[s] \in Flight => req[s].pc \in {"save", "commit", "mail"}
  BY DEF Flight
<1> QED BY <1>1, <1>2

LEMMA AccountsInit == Init => AccountsInv /\ AuthorityInv
<1> SUFFICES ASSUME Init PROVE AccountsInv /\ AuthorityInv
  OBVIOUS
<1>1. Idle.pc = "idle"
  BY DEF Idle
<1>2. AccountsTypes
  BY DEF Init, AccountsTypes
<1>3. \A u \in Ids : users[u] = None
  BY DEF Init
<1>4. AccountsInv
  BY <1>1, <1>2, <1>3 DEF Init, AccountsInv, CreationsApart, Mailed, Clash, Accounts
<1>5. AuthorityInv
  BY <1>3 DEF Init, AuthorityInv, Accounts
<1> QED BY <1>4, <1>5

\* A request that begins.
LEMMA BeginKeeps ==
    ASSUME AccountsInv, NEW s \in Slots, NEW q \in Flight, req[s].pc = "idle",
           req' = [req EXCEPT ![s] = q],
           UNCHANGED <<users, resetTokens, sessions, mailed, now, writes, held>>,
           Knows(q, users, resetTokens),
           q.op \in {"register", "seed"} => Touched(q) \subseteq FreshIds,
           q.op = "forgot" => q.token \in FreshTokens
    PROVE  AccountsInv'
<1>1. AccountsTypes'
  BY DEF AccountsInv, AccountsTypes
<1>2. /\ req'[s] = q
      /\ \A t \in Slots : t # s => req'[t] = req[t]
  BY DEF AccountsInv, AccountsTypes
<1>3. \A t \in Slots : req'[t].pc # "idle" => Knows(req'[t], users', resetTokens')
  BY <1>2 DEF AccountsInv
<1>4. ASSUME NEW t \in Slots, t # s, req[t].pc # "idle"
      PROVE  /\ q.op \in {"register", "seed"} => Touched(q) \cap Touched(req[t]) = {}
             /\ q.op = "forgot" => q.token # req[t].token
  BY <1>4 DEF FreshIds, FreshTokens
<1>5. CreationsApart'
  BY <1>2, <1>4 DEF CreationsApart, AccountsInv
<1>6. Mailed' /\ ~Clash(users)'
  BY DEF AccountsInv, Mailed, Accounts, Clash
<1> QED BY <1>1, <1>3, <1>5, <1>6 DEF AccountsInv

\* What Begin puts in flight.
Begun(op, by, rows, asked, user, token, link) ==
    [pc |-> FirstStep(op), op |-> op, by |-> by, rows |-> rows, base |-> None,
     asked |-> asked, user |-> user, token |-> token, link |-> link,
     overlapped |-> FALSE, overtaken |-> {}]

LEMMA BeginStep ==
    ASSUME AccountsInv, NEW s \in Slots, NEW op \in Operations,
           NEW by \in Session \cup {None}, NEW rows \in [Ids -> User \cup {None}],
           NEW asked \in SUBSET Column, NEW user \in Ids \cup {None},
           NEW token \in Tokens \cup {None}, NEW link \in ResetToken \cup {None},
           Begin(s, op, by, rows, asked, user, token, link),
           Knows(Begun(op, by, rows, asked, user, token, link), users, resetTokens),
           op \in {"register", "seed"} => {u \in Ids : rows[u] # None} \subseteq FreshIds,
           op = "forgot" => token \in FreshTokens
    PROVE  AccountsInv'
<1> DEFINE q == Begun(op, by, rows, asked, user, token, link)
<1>1. /\ req[s].pc = "idle" /\ req' = [req EXCEPT ![s] = q]
      /\ UNCHANGED <<users, resetTokens, sessions, mailed, now, writes, held>>
  BY DEF Begin, Begun
<1>2. /\ q \in Flight /\ q.op = op /\ q.token = token
      /\ Touched(q) = {u \in Ids : rows[u] # None}
  BY DEF Flight, Begun, FirstStep, Touched
<1> HIDE DEF q
<1> QED BY <1>1, <1>2, BeginKeeps DEF q

\* An update of one account: what it computes.
LEMMA UpdateStep ==
    ASSUME AccountsInv, NEW s \in Slots, NEW op \in {"edit", "roles", "change"},
           NEW by \in Session, NEW u \in Accounts, NEW new \in User,
           NEW asked \in SUBSET Column, new.email = users[u].email,
           \A c \in Column : new[c] # users[u][c] => c \in asked,
           Begin(s, op, by, Only(u, new), asked, u, None, None)
    PROVE  AccountsInv'
<1> DEFINE q == Begun(op, by, Only(u, new), asked, u, None, None)
<1>1. u \in Ids /\ users[u] # None /\ new # None
  BY AccountsAssumption DEF Accounts
<1>2. /\ Only(u, new) \in [Ids -> User \cup {None}] /\ Only(u, new)[u] = new
      /\ {v \in Ids : Only(u, new)[v] # None} = {u}
  BY <1>1 DEF Only, NoRows
<1>3. /\ q.op = op /\ q.pc = "save" /\ q.user = u /\ q.rows = Only(u, new)
      /\ q.asked = asked /\ q.token = None /\ ~q.overlapped /\ Touched(q) = {u}
  BY <1>2 DEF Begun, FirstStep, Updates, Touched
<1> HIDE DEF q
<1>4. KnowsItsAccount(q, users)
  BY <1>1, <1>2, <1>3 DEF KnowsItsAccount
<1>5. Knows(q, users, resetTokens)
  BY <1>3, <1>4 DEF Knows
<1>6. op \in Operations /\ op \notin {"register", "seed", "forgot"}
  BY DEF Operations
<1> QED BY <1>1, <1>2, <1>5, <1>6, BeginStep DEF q

LEMMA RegisterKeeps ==
    ASSUME AccountsInv, NEW s \in Slots, NEW b \in Browsers, NEW u \in Ids,
           NEW body \in Registrations, RegisterUser(s, b, u, body)
    PROVE  AccountsInv'
<1> DEFINE new == NewUser(body)
           q == Begun("register", sessions[b], Only(u, new), {}, None, None, None)
<1>1. body \in RegisterBody /\ PhoneValid(body.typed) /\ u \in FreshIds
  BY AccountsAssumption DEF RegisterUser, Registrable
<1>2. new \in User
  <2>1. National(body.typed) \in PhoneNumber
    BY <1>1, ValidNumber DEF RegisterBody
  <2> QED BY <1>1, <2>1 DEF NewUser, User, RegisterBody
<1>3. sessions[b] \in Session
  BY DEF RegisterUser, SignedIn, AccountsInv, AccountsTypes
<1>4. Begin(s, "register", sessions[b], Only(u, new), {}, None, None, None)
  BY DEF RegisterUser
<1> HIDE DEF new
<1>5. new # None /\ users[u] = None
  BY <1>1, <1>2, AccountsAssumption DEF FreshIds, Accounts
<1>6. /\ Only(u, new) \in [Ids -> User \cup {None}]
      /\ {v \in Ids : Only(u, new)[v] # None} = {u}
  BY <1>2, <1>5 DEF Only, NoRows
<1>7. q.op = "register" /\ q.pc = "commit" /\ q.token = None /\ Touched(q) = {u}
  BY <1>6 DEF Begun, FirstStep, Updates, Touched
<1> HIDE DEF q
<1>8. Knows(q, users, resetTokens)
  BY <1>5, <1>7 DEF Knows, KnowsItsIds, Updates
<1> QED BY <1>1, <1>3, <1>4, <1>6, <1>8, BeginStep DEF q, Operations

LEMMA UpdateUserKeeps ==
    ASSUME AccountsInv, NEW s \in Slots, NEW b \in Browsers, NEW u \in Ids,
           NEW body \in Edits, UpdateUser(s, b, u, body)
    PROVE  AccountsInv'
<1> DEFINE phone == IF body.typed = None THEN None ELSE National(body.typed)
           given == [phone |-> phone, active |-> body.active, role |-> body.role]
           new == Edited(users[u], given)
<1>1. /\ body \in UpdateUserBody /\ u \in Accounts /\ sessions[b] \in Session
      /\ phone # None => PhoneValid(body.typed)
      /\ Begin(s, "edit", sessions[b], Only(u, new), Provided(given), u, None, None)
  BY AccountsAssumption DEF UpdateUser, SignedIn, AccountsInv, AccountsTypes
<1>2. phone \in PhoneNumber \cup {None}
  <2>1. CASE body.typed = None
    BY <2>1
  <2>2. CASE body.typed # None
    BY <1>1, <2>2, ValidNumber DEF UpdateUserBody
  <2> QED BY <2>1, <2>2
<1>3. users[u] \in User
  BY <1>1 DEF AccountsInv, AccountsTypes, Accounts
<1> HIDE DEF phone
<1>4. /\ new \in User /\ new.email = users[u].email /\ Provided(given) \in SUBSET Column
      /\ \A c \in Column : new[c] # users[u][c] => c \in Provided(given)
  BY <1>1, <1>2, <1>3, EditedUser
<1> HIDE DEF new, given
<1> QED BY <1>1, <1>4, UpdateStep

LEMMA UpdateRolesKeeps ==
    ASSUME AccountsInv, NEW s \in Slots, NEW b \in Browsers, NEW u \in Ids,
           NEW role \in Roles, UpdateRoles(s, b, u, role)
    PROVE  AccountsInv'
<1> DEFINE new == [users[u] EXCEPT !.role = role]
<1>1. /\ u \in Accounts /\ sessions[b] \in Session /\ users[u] \in User
      /\ Begin(s, "roles", sessions[b], Only(u, new), {"role"}, u, None, None)
  BY DEF UpdateRoles, SignedIn, AccountsInv, AccountsTypes, Accounts
<1>2. /\ new \in User /\ new.email = users[u].email /\ {"role"} \in SUBSET Column
      /\ \A c \in Column : new[c] # users[u][c] => c \in {"role"}
  BY <1>1 DEF User, Column
<1> HIDE DEF new
<1> QED BY <1>1, <1>2, UpdateStep

LEMMA NewPassword ==
    ASSUME AccountsInv, NEW u \in Accounts, NEW new \in NewPasswords
    PROVE  /\ WithPassword(u, new) \in User
           /\ WithPassword(u, new).email = users[u].email
           /\ \A c \in Column : WithPassword(u, new)[c] # users[u][c] => c \in {"password"}
<1>1. users[u] \in User /\ new \in Passwords
  BY AccountsAssumption DEF AccountsInv, AccountsTypes, Accounts
<1> QED BY <1>1 DEF WithPassword, User, Column

LEMMA ChangePasswordKeeps ==
    ASSUME AccountsInv, NEW s \in Slots, NEW b \in Browsers, NEW current \in Passwords,
           NEW new \in NewPasswords, ChangePassword(s, b, current, new)
    PROVE  AccountsInv'
<1> DEFINE u == sessions[b].user
<1>1. /\ u \in Accounts /\ sessions[b] \in Session
      /\ Begin(s, "change", sessions[b], Only(u, WithPassword(u, new)), {"password"},
               u, None, None)
  BY DEF ChangePassword, CurrentPassword, SignedIn, AccountsInv, AccountsTypes
<1> HIDE DEF u
<1>2. {"password"} \in SUBSET Column
  BY DEF Column
<1> QED BY <1>1, <1>2, NewPassword, UpdateStep

LEMMA RequestResetKeeps ==
    ASSUME AccountsInv, NEW s \in Slots, NEW u \in Ids, NEW token \in Tokens,
           RequestPasswordReset(s, u, token)
    PROVE  AccountsInv'
<1> DEFINE q == Begun("forgot", None, NoRows, {}, u, token, NewLink(u))
<1>1. /\ users[u] # None /\ token \in FreshTokens
      /\ Begin(s, "forgot", None, NoRows, {}, u, token, NewLink(u))
  BY DEF RequestPasswordReset, Accounts
<1>2. /\ NewLink(u) \in ResetToken /\ NewLink(u).user = u
      /\ NoRows \in [Ids -> User \cup {None}]
  BY AccountsAssumption DEF NewLink, ResetToken, NoRows, AccountsInv, AccountsTypes
<1>3. /\ q.op = "forgot" /\ q.pc = "commit" /\ q.token = token /\ q.user = u
      /\ q.rows = NoRows /\ q.link = NewLink(u)
  BY DEF Begun, FirstStep, Updates
<1> HIDE DEF q
<1>4. Knows(q, users, resetTokens)
  BY <1>1, <1>2, <1>3 DEF Knows, KnowsItsNewLink, Updates, FreshTokens
<1> QED BY <1>1, <1>2, <1>4, BeginStep DEF q, Operations

LEMMA ResetPasswordKeeps ==
    ASSUME AccountsInv, NEW s \in Slots, NEW token \in Tokens,
           NEW new \in NewPasswords, ResetPassword(s, token, new)
    PROVE  AccountsInv'
<1> DEFINE u == resetTokens[token].user
           object == WithPassword(u, new)
           q == Begun("reset", None, Only(u, object), {"password"}, u, token, None)
<1>1. /\ resetTokens[token] # None /\ ~resetTokens[token].used
      /\ Begin(s, "reset", None, Only(u, object), {"password"}, u, token, None)
  BY DEF ResetPassword, LinkValid
<1>2. u \in Accounts /\ u \in Ids /\ users[u] # None
  BY <1>1 DEF AccountsInv, Mailed, Accounts
<1>3. /\ object \in User /\ object.email = users[u].email /\ object # None
      /\ \A c \in Column : object[c] # users[u][c] => c \in {"password"}
  BY <1>2, NewPassword, AccountsAssumption
<1> HIDE DEF object
<1>4. /\ Only(u, object) \in [Ids -> User \cup {None}] /\ Only(u, object)[u] = object
      /\ {v \in Ids : Only(u, object)[v] # None} = {u} /\ {"password"} \in SUBSET Column
  BY <1>2, <1>3 DEF Only, NoRows, Column
<1>5. /\ q.op = "reset" /\ q.pc = "save" /\ q.user = u /\ q.rows = Only(u, object)
      /\ q.asked = {"password"} /\ q.token = token /\ ~q.overlapped /\ Touched(q) = {u}
  BY <1>4 DEF Begun, FirstStep, Updates, Touched
<1> HIDE DEF q
<1>6. KnowsItsAccount(q, users)
  BY <1>2, <1>3, <1>4, <1>5 DEF KnowsItsAccount
<1>7. KnowsItsLink(q, resetTokens)
  BY <1>1, <1>5 DEF KnowsItsLink
<1>8. Knows(q, users, resetTokens)
  BY <1>5, <1>6, <1>7 DEF Knows
<1> QED BY <1>1, <1>2, <1>4, <1>8, BeginStep DEF q, Operations

\* Where the search for an address stops: at the first variant that suits.
LEMMA StopIsFirst ==
    ASSUME NEW i \in Missing
    PROVE  /\ i \in DOMAIN DemoRoles /\ DemoRoles[i] \in Roles
           /\ Stop(i) \in DOMAIN DemoEmails[i] /\ DemoEmails[i][Stop(i)] \in Emails
           /\ \A j \in DOMAIN DemoEmails[i] : j < Stop(i) => ~Suits(i, j)
<1> DEFINE K == {k \in DOMAIN DemoEmails[i] : Suits(i, k)}
<1>1. /\ i \in DOMAIN DemoRoles /\ DemoEmails[i] \in Seq(Emails) /\ K # {}
      /\ DemoRoles \in Seq(Roles)
  BY AccountsAssumption DEF Missing
<1>2. DOMAIN DemoEmails[i] \in SUBSET Nat
  BY <1>1
<1>3. Stop(i) \in K /\ \A j \in K : Stop(i) <= j
  BY <1>1, <1>2, FirstIsLeast DEF Stop
<1>4. DemoRoles[i] \in Roles
  BY <1>1
<1>5. ASSUME NEW j \in DOMAIN DemoEmails[i], j < Stop(i) PROVE ~Suits(i, j)
  <2>1. Stop(i) \in Nat /\ j \in Nat
    BY <1>2, <1>3
  <2>2. j \notin K
    BY <1>3, <1>5, <2>1
  <2> QED BY <2>2
<1> QED BY <1>1, <1>3, <1>4, <1>5

LEMMA SeedKeeps ==
    ASSUME AccountsInv, NEW s \in Slots, NEW idOf \in [DOMAIN DemoRoles -> FreshIds],
           SeedDemoUsers(s, idOf)
    PROVE  AccountsInv'
<1>1. PICK number \in DemoNumbers :
         Begin(s, "seed", None, DemoRows(idOf, number), {}, None, None, None)
  BY DEF SeedDemoUsers
<1> DEFINE rows == DemoRows(idOf, number)
           q == Begun("seed", None, rows, {}, None, None, None)
<1>2. ASSUME NEW u \in Ids, rows[u] # None
      PROVE  \E i \in Missing :
                idOf[i] = u /\ rows[u] = DemoAccount(i, DemoPhones[i][number[i]])
  BY <1>2 DEF DemoRows
<1>3. \A u \in Ids : (\E i \in Missing : idOf[i] = u) \/ rows[u] = None
  BY DEF DemoRows
<1>4. ASSUME NEW i \in Missing
      PROVE  LET new == DemoAccount(i, DemoPhones[i][number[i]])
             IN  /\ new \in User /\ new.role = DemoRoles[i]
                 /\ new.email = DemoEmails[i][Stop(i)]
  <2>1. DemoPhones[i] \in Seq(PhoneNumber) /\ number[i] \in DOMAIN DemoPhones[i]
    BY StopIsFirst, AccountsAssumption DEF DemoNumbers
  <2>2. DemoPhones[i][number[i]] \in PhoneNumber
    BY <2>1
  <2> QED BY <2>2, StopIsFirst, AccountsAssumption DEF DemoAccount, User
<1>5. rows \in [Ids -> User \cup {None}]
  <2>1. \A u \in Ids : rows[u] \in User \cup {None}
    BY <1>2, <1>4
  <2> QED BY <2>1 DEF DemoRows
<1>6. {u \in Ids : rows[u] # None} \subseteq FreshIds
  BY <1>3, StopIsFirst
<1>7. \A u \in FreshIds : users[u] = None
  BY DEF FreshIds, Accounts
<1>8. /\ q.op = "seed" /\ q.pc = "commit" /\ q.rows = rows /\ q.token = None
      /\ Touched(q) = {u \in Ids : rows[u] # None}
  BY DEF Begun, FirstStep, Updates, Touched
<1>9. KnowsItsIds(q, users)
  BY <1>6, <1>7, <1>8 DEF KnowsItsIds
<1>10. KnowsItsVariants(q, users)
  <2> SUFFICES ASSUME NEW u \in Ids, rows[u] # None
               PROVE  \E i \in DOMAIN DemoRoles : \E k \in DOMAIN DemoEmails[i] :
                        /\ rows[u].role = DemoRoles[i] /\ rows[u].email = DemoEmails[i][k]
                        /\ \A j \in DOMAIN DemoEmails[i] : j < k =>
                              \E v \in Ids :
                                  /\ users[v] # None /\ users[v].email = DemoEmails[i][j]
                                  /\ users[v].role # DemoRoles[i]
    BY <1>8 DEF KnowsItsVariants
  <2> HIDE DEF rows
  <2>1. PICK i \in Missing : rows[u] = DemoAccount(i, DemoPhones[i][number[i]])
    BY <1>2
  <2>2. rows[u].role = DemoRoles[i] /\ rows[u].email = DemoEmails[i][Stop(i)]
    BY <1>4, <2>1
  <2>3. \A j \in DOMAIN DemoEmails[i] : j < Stop(i) =>
           \E v \in Ids : /\ users[v] # None /\ users[v].email = DemoEmails[i][j]
                          /\ users[v].role # DemoRoles[i]
    BY StopIsFirst DEF Suits, Accounts
  <2> QED BY <2>2, <2>3, StopIsFirst
<1> HIDE DEF q, rows
<1>11. Knows(q, users, resetTokens)
  BY <1>8, <1>9, <1>10 DEF Knows, Updates
<1>12. Begin(s, "seed", None, rows, {}, None, None, None)
  BY <1>1 DEF rows
<1> QED BY <1>5, <1>6, <1>11, <1>12, BeginStep DEF q, Operations

\* Reading the row again.
LEMMA SaveKeeps ==
    ASSUME AccountsInv, NEW s \in Slots, Save(s)
    PROVE  AccountsInv'
<1> DEFINE q == req[s]
           new == [q EXCEPT !.pc = "commit", !.base = users[q.user]]
<1>1. /\ AccountsTypes /\ q \in Flight /\ q.pc = "save" /\ Knows(q, users, resetTokens)
      /\ req' = [req EXCEPT ![s] = new]
      /\ UNCHANGED <<users, resetTokens, sessions, mailed, now, writes, held>>
  BY InFlight DEF AccountsInv, Save
<1>2. /\ q.op \in Updates /\ KnowsItsAccount(q, users) /\ q.user \in Ids
      /\ users[q.user] \in User /\ users[q.user] # None
  <2>1. q.op \in Updates
    BY <1>1 DEF Knows, KnowsItsIds, KnowsItsNewLink, Flight, Operations, Updates
  <2> QED BY <1>1, <2>1 DEF Knows, KnowsItsAccount, AccountsTypes
<1>3. /\ new \in Flight /\ new.pc = "commit" /\ new.base = users[q.user]
      /\ new.op = q.op /\ new.user = q.user /\ new.rows = q.rows /\ new.asked = q.asked
      /\ new.token = q.token /\ new.overlapped = q.overlapped
      /\ new.overtaken = q.overtaken
      /\ Touched(new) = Touched(q)
  BY <1>1, <1>2 DEF Flight, Touched
<1> HIDE DEF new
<1>4. Knows(new, users, resetTokens)
  <2>1. KnowsItsAccount(new, users)
    BY <1>2, <1>3 DEF KnowsItsAccount
  <2>2. q.op = "reset" => KnowsItsLink(new, resetTokens)
    BY <1>1, <1>3 DEF Knows, KnowsItsLink
  <2> QED BY <1>1, <1>2, <1>3, <2>1, <2>2 DEF Knows, Updates
<1>5. /\ req'[s] = new /\ \A t \in Slots : t # s => req'[t] = req[t]
      /\ AccountsTypes'
  BY <1>1, <1>3 DEF AccountsTypes
<1>6. \A t \in Slots : req'[t].pc # "idle" => Knows(req'[t], users', resetTokens')
  BY <1>1, <1>4, <1>5 DEF AccountsInv
<1>7. CreationsApart'
  BY <1>2, <1>3, <1>5 DEF AccountsInv, CreationsApart, Updates
<1>8. Mailed' /\ ~Clash(users)'
  BY <1>1 DEF AccountsInv, Mailed, Accounts, Clash
<1> QED BY <1>5, <1>6, <1>7, <1>8 DEF AccountsInv

\* What a commit does to the accounts: it creates the new ones, changes the one
\* that is updated but not its address, and leaves the others.
LEMMA CommittedUsers ==
    ASSUME AccountsInv, NEW s \in Slots, Commit(s)
    PROVE  LET q == req[s]
           IN  /\ q \in Flight /\ q.pc = "commit" /\ Knows(q, users, resetTokens)
               /\ users' \in [Ids -> User \cup {None}] /\ ~Clash(users')
               /\ \A u \in Ids \ Touched(q) : users'[u] = users[u]
               /\ \A u \in Touched(q) : users'[u] # None
               /\ \A u \in Ids : users[u] # None =>
                     users'[u] # None /\ users'[u].email = users[u].email
               /\ q.op \notin Updates => \A u \in Touched(q) : users[u] = None
               /\ \A u \in Ids : users[u] = None => users'[u] = q.rows[u]
               /\ q.op \in Updates =>
                     \A c \in Column : users'[q.user][c] # users[q.user][c] =>
                        users'[q.user][c] = q.rows[q.user][c]
<1> DEFINE q == req[s]
<1>1. /\ AccountsTypes /\ q \in Flight /\ q.pc = "commit" /\ Knows(q, users, resetTokens)
      /\ users' = Written(q) /\ ~Clash(users')
  BY InFlight DEF AccountsInv, Commit
<1> HIDE DEF q
<1>2. \A u \in Ids : u \in Touched(q) <=> q.rows[u] # None
  BY DEF Touched
<1>3. \A u \in Ids : users'[u] =
         IF q.rows[u] = None THEN users[u]
         ELSE IF users[u] = None THEN q.rows[u]
         ELSE Merge(users[u], q, q.rows[u])
  BY <1>1 DEF Written
<1>4. q.op \in Updates => KnowsItsAccount(q, users)
  BY <1>1 DEF Knows
<1>5. q.op \notin Updates => \A u \in Touched(q) : users[u] = None
  <2>1. q.op \in {"register", "seed"} => KnowsItsIds(q, users)
    BY <1>1 DEF Knows
  <2>2. q.op = "forgot" => Touched(q) = {}
    BY <1>1 DEF Knows, KnowsItsNewLink, NoRows, Touched
  <2>3. q.op \in Operations
    BY <1>1 DEF Flight
  <2> QED BY <1>1, <2>1, <2>2, <2>3 DEF KnowsItsIds, Operations, Updates
<1>6. ASSUME NEW u \in Ids, q.rows[u] # None, users[u] # None
      PROVE  /\ users'[u] \in User /\ users'[u].email = users[u].email
             /\ q.op \in Updates /\ u = q.user
             /\ \A c \in Column : users'[u][c] # users[u][c] => users'[u][c] = q.rows[u][c]
  <2>1. q.op \in Updates /\ u = q.user /\ KnowsItsAccount(q, users)
    BY <1>2, <1>4, <1>5, <1>6 DEF KnowsItsAccount
  <2>2. users[u] \in User /\ q.rows[u] \in User /\ q.rows[u].email = users[u].email
    BY <1>1, <1>6, <2>1 DEF AccountsTypes, Flight, KnowsItsAccount
  <2>3. users'[u] = Merge(users[u], q, q.rows[u])
    BY <1>3, <1>6
  <2>4. /\ Merge(users[u], q, q.rows[u]) \in User
        /\ Merge(users[u], q, q.rows[u]).email = users[u].email
        /\ \A c \in Column : Merge(users[u], q, q.rows[u])[c] # users[u][c] =>
              Merge(users[u], q, q.rows[u])[c] = q.rows[u][c]
    BY <1>1, <2>2, MergedUser
  <2> QED BY <2>1, <2>2, <2>3, <2>4
<1>7. /\ \A u \in Ids : users[u] \in User \cup {None} /\ q.rows[u] \in User \cup {None}
      /\ None \notin User
  BY <1>1, AccountsAssumption DEF AccountsTypes, Flight
<1>8. \A u \in Ids : users'[u] \in User \cup {None}
  BY <1>3, <1>6, <1>7
<1>9. users' \in [Ids -> User \cup {None}]
  BY <1>1, <1>8 DEF Written
<1>10. \A u \in Touched(q) : users'[u] # None
  BY <1>2, <1>3, <1>6, <1>7 DEF Touched
<1>11. \A u \in Ids : users[u] # None => users'[u] # None /\ users'[u].email = users[u].email
  BY <1>3, <1>6, <1>7
<1>12. \A u \in Ids : users[u] = None => users'[u] = q.rows[u]
  BY <1>3
<1>13. q.op \in Updates =>
          \A c \in Column : users'[q.user][c] # users[q.user][c] =>
             users'[q.user][c] = q.rows[q.user][c]
  BY <1>2, <1>4, <1>6 DEF KnowsItsAccount
<1>14. \A u \in Ids \ Touched(q) : users'[u] = users[u]
  BY <1>2, <1>3
<1> QED BY <1>1, <1>5, <1>9, <1>10, <1>11, <1>12, <1>13, <1>14 DEF q

\* What a commit does to the links: it stores the new one, spends the one that
\* is used, and leaves the others.
LEMMA CommittedLinks ==
    ASSUME AccountsInv, NEW s \in Slots, Commit(s)
    PROVE  LET q == req[s]
           IN  /\ resetTokens' \in [Tokens -> ResetToken \cup {None}]
               /\ \A t \in Tokens : t # q.token => resetTokens'[t] = resetTokens[t]
               /\ q.token \in Tokens => resetTokens'[q.token] # None
               /\ \A t \in Tokens : resetTokens[t] # None =>
                     resetTokens'[t] # None /\ resetTokens'[t].user = resetTokens[t].user
               /\ \A t \in Tokens : resetTokens[t] = None /\ resetTokens'[t] # None =>
                     q.op = "forgot" /\ t = q.token /\ resetTokens'[t] = q.link
<1> DEFINE q == req[s]
<1>1. /\ AccountsTypes /\ q \in Flight /\ Knows(q, users, resetTokens)
      /\ resetTokens' = TokensAfter(q) /\ None \notin ResetToken /\ None \notin Tokens
  BY InFlight, AccountsAssumption DEF AccountsInv, Commit
<1> HIDE DEF q
<1>2. \A t \in Tokens : t # q.token => resetTokens'[t] = resetTokens[t]
  BY <1>1 DEF TokensAfter
<1>3. CASE q.op = "forgot"
  <2>1. /\ q.token \in Tokens /\ q.link \in ResetToken
        /\ q.pc = "commit" => resetTokens[q.token] = None
    BY <1>1, <1>3 DEF Knows, KnowsItsNewLink
  <2>2. q.pc = "commit"
    BY DEF Commit, q
  <2>3. resetTokens'[q.token] = q.link
    BY <1>1, <1>3, <2>1 DEF TokensAfter
  <2> QED BY <1>1, <1>2, <1>3, <2>1, <2>2, <2>3 DEF AccountsTypes, TokensAfter, q
<1>4. CASE q.op = "reset"
  <2>1. q.token \in Tokens /\ resetTokens[q.token] \in ResetToken
    BY <1>1, <1>4 DEF Knows, KnowsItsLink, AccountsTypes
  <2>2. resetTokens'[q.token] = [resetTokens[q.token] EXCEPT !.used = TRUE]
    BY <1>1, <1>4, <2>1 DEF TokensAfter
  <2>3. /\ resetTokens'[q.token] \in ResetToken
        /\ resetTokens'[q.token].user = resetTokens[q.token].user
    BY <2>1, <2>2 DEF ResetToken
  <2> QED BY <1>1, <1>2, <2>1, <2>3 DEF AccountsTypes, TokensAfter, q
<1>5. CASE q.op \notin {"forgot", "reset"}
  BY <1>1, <1>2, <1>5 DEF AccountsTypes, TokensAfter, Knows, q
<1> QED BY <1>3, <1>4, <1>5

\* What a commit does to the requests: its own ends or sends its message, and
\* those that read what it wrote are overlapped.
LEMMA CommittedRequests ==
    ASSUME AccountsInv, NEW s \in Slots, Commit(s)
    PROVE  LET q == req[s]
           IN  /\ req'[s] = AfterCommit(q)
               /\ req' \in [Slots -> {Idle} \cup Flight]
               /\ \A t \in Slots : t # s =>
                     /\ req'[t].pc = req[t].pc
                     /\ req[t].pc = "idle" => req'[t] = req[t]
                     /\ req[t].pc # "idle" =>
                           /\ req'[t] \in Flight
                           /\ req'[t].op = req[t].op /\ req'[t].rows = req[t].rows
                           /\ req'[t].base = req[t].base /\ req'[t].asked = req[t].asked
                           /\ req'[t].user = req[t].user /\ req'[t].token = req[t].token
                           /\ req'[t].link = req[t].link
                           /\ Touched(req'[t]) = Touched(req[t])
                           /\ req[t].pc # "mail" /\ ~req'[t].overlapped =>
                                 ~req[t].overlapped /\ ~Overlaps(q, req[t])
                           /\ req[t].overtaken \subseteq req'[t].overtaken
                           /\ req[t].pc # "mail" /\ Overlaps(q, req[t]) =>
                                 Altered(req[t].user, users') \subseteq req'[t].overtaken
<1> DEFINE q == req[s]
<1>1. AccountsTypes /\ q \in Flight
  BY InFlight DEF AccountsInv, Commit
<1>2. req' = [t \in Slots |->
              IF t = s THEN AfterCommit(q)
              ELSE IF req[t].pc \in {"save", "commit"} /\ Overlaps(q, req[t])
                THEN [req[t] EXCEPT !.overlapped = TRUE,
                                    !.overtaken = @ \cup Altered(req[t].user, users')]
              ELSE req[t]]
  BY DEF Commit
<1> HIDE DEF q
<1>3. AfterCommit(q) \in {Idle} \cup Flight
  BY <1>1 DEF AfterCommit, Flight
<1>4. ASSUME NEW t \in Slots, t # s, req[t].pc = "idle"
      PROVE  req'[t] = req[t] /\ req'[t] \in {Idle} \cup Flight
  BY <1>1, <1>2, <1>4 DEF AccountsTypes
<1>5. ASSUME NEW t \in Slots, t # s, req[t].pc # "idle"
      PROVE  /\ req'[t].pc = req[t].pc /\ req'[t] \in Flight
             /\ req'[t].op = req[t].op /\ req'[t].rows = req[t].rows
             /\ req'[t].base = req[t].base /\ req'[t].asked = req[t].asked
             /\ req'[t].user = req[t].user /\ req'[t].token = req[t].token
             /\ req'[t].link = req[t].link
             /\ req[t].pc # "mail" /\ ~req'[t].overlapped =>
                   ~req[t].overlapped /\ ~Overlaps(q, req[t])
             /\ req[t].overtaken \subseteq req'[t].overtaken
             /\ req[t].pc # "mail" /\ Overlaps(q, req[t]) =>
                   Altered(req[t].user, users') \subseteq req'[t].overtaken
  <2>1. req[t] \in Flight /\ req[t].pc \in {"save", "commit", "mail"}
    BY <1>1, <1>5, InFlight DEF Flight
  <2>2. CASE req[t].pc \in {"save", "commit"} /\ Overlaps(q, req[t])
    <3> DEFINE altered == Altered(req[t].user, users')
    <3>1. req'[t] = [req[t] EXCEPT !.overlapped = TRUE, !.overtaken = @ \cup altered]
      BY <1>2, <1>5, <2>2
    <3>2. altered \in SUBSET Column
      BY DEF Altered
    <3> HIDE DEF altered
    <3>3. /\ req'[t].pc = req[t].pc /\ req'[t] \in Flight
          /\ req'[t].op = req[t].op /\ req'[t].rows = req[t].rows
          /\ req'[t].base = req[t].base /\ req'[t].asked = req[t].asked
          /\ req'[t].user = req[t].user /\ req'[t].token = req[t].token
          /\ req'[t].link = req[t].link /\ req'[t].overlapped
          /\ req'[t].overtaken = req[t].overtaken \cup altered
      BY <2>1, <3>1, <3>2 DEF Flight
    <3> QED BY <3>3 DEF altered
  <2>3. CASE ~(req[t].pc \in {"save", "commit"} /\ Overlaps(q, req[t]))
    <3>1. req'[t] = req[t]
      BY <1>2, <1>5, <2>3
    <3>2. CASE req[t].pc = "mail"
      BY <2>1, <3>1, <3>2
    <3>3. CASE req[t].pc # "mail"
      BY <2>1, <2>3, <3>1, <3>3
    <3> QED BY <3>2, <3>3
  <2> QED BY <2>2, <2>3
<1>6. req' \in [Slots -> {Idle} \cup Flight]
  BY <1>2, <1>3, <1>4, <1>5
<1>7. req'[s] = AfterCommit(q)
  BY <1>2
<1> QED BY <1>4, <1>5, <1>6, <1>7 DEF Touched, q

\* What another request knows outlives a commit.
LEMMA OthersStillKnow ==
    ASSUME AccountsInv, NEW s \in Slots, Commit(s), NEW t \in Slots, t # s,
           req[t].pc # "idle"
    PROVE  Knows(req'[t], users', resetTokens')
<1> DEFINE q == req[s]
           r == req[t]
           new == req'[t]
<1> SUFFICES Knows(new, users', resetTokens')
  OBVIOUS
<1>1. /\ q \in Flight /\ q.pc = "commit" /\ r \in Flight /\ AccountsTypes
      /\ Knows(q, users, resetTokens) /\ Knows(r, users, resetTokens)
  BY CommittedUsers, InFlight DEF AccountsInv
<1>2. /\ new.pc = r.pc /\ new.op = r.op /\ new.rows = r.rows /\ new.base = r.base
      /\ new.asked = r.asked /\ new.user = r.user /\ new.token = r.token
      /\ new.link = r.link /\ Touched(new) = Touched(r)
      /\ r.pc # "mail" /\ ~new.overlapped => ~r.overlapped /\ ~Overlaps(q, r)
      /\ r.overtaken \subseteq new.overtaken
      /\ r.pc # "mail" /\ Overlaps(q, r) =>
            Altered(r.user, users') \subseteq new.overtaken
  BY CommittedRequests
<1>3. /\ \A u \in Ids \ Touched(q) : users'[u] = users[u]
      /\ \A u \in Ids : users[u] # None =>
            users'[u] # None /\ users'[u].email = users[u].email
      /\ q.op \notin Updates => \A u \in Touched(q) : users[u] = None
  BY CommittedUsers
<1>4. /\ \A k \in Tokens : k # q.token => resetTokens'[k] = resetTokens[k]
      /\ \A k \in Tokens : resetTokens[k] # None =>
            resetTokens'[k] # None /\ resetTokens'[k].user = resetTokens[k].user
      /\ \A k \in Tokens : resetTokens[k] = None /\ resetTokens'[k] # None =>
            q.op = "forgot" /\ k = q.token
  BY CommittedLinks
<1>5. /\ r.pc = "commit" /\ q.op \in {"register", "seed"} /\ r.op \in {"register", "seed"}
            => Touched(q) \cap Touched(r) = {}
      /\ r.pc = "commit" /\ q.op = "forgot" /\ r.op = "forgot" => q.token # r.token
  BY <1>1 DEF AccountsInv, CreationsApart
<1> HIDE DEF q, r, new
<1>6. r.op \in Operations /\ q.op \in Operations
  BY <1>1 DEF Flight
<1>7. CASE r.op \in Updates
  <2>1. KnowsItsAccount(r, users) /\ r.pc # "mail"
    BY <1>1, <1>7 DEF Knows
  <2>2. \A c \in Column : c \notin new.overtaken => users'[r.user][c] = users[r.user][c]
    <3>1. CASE r.user \in Touched(q)
      BY <1>2, <2>1, <3>1 DEF Overlaps, KnowsItsAccount, Altered, Accounts
    <3>2. CASE r.user \notin Touched(q)
      BY <1>3, <2>1, <3>2 DEF KnowsItsAccount
    <3> QED BY <3>1, <3>2
  <2>3. KnowsItsAccount(new, users')
    <3>1. /\ r.user \in Ids /\ users[r.user] # None /\ Touched(r) = {r.user}
          /\ r.rows[r.user].email = users[r.user].email
      BY <2>1 DEF KnowsItsAccount
    <3>2. /\ users'[r.user] # None /\ users'[r.user].email = users[r.user].email
      BY <1>3, <3>1
    <3>3. \A c \in Column : r.rows[r.user][c] # users'[r.user][c] =>
             c \in r.asked \cup new.overtaken
      BY <1>2, <2>1, <2>2 DEF KnowsItsAccount
    <3> QED BY <1>2, <3>1, <3>2, <3>3 DEF KnowsItsAccount
  <2>4. CASE r.op = "reset"
    <3>1. KnowsItsLink(r, resetTokens)
      BY <1>1, <2>4 DEF Knows
    <3>2. ~new.overlapped => resetTokens'[r.token] = resetTokens[r.token]
      <4> SUFFICES ASSUME ~new.overlapped, r.token = q.token PROVE FALSE
        BY <1>4, <3>1 DEF KnowsItsLink
      <4>1. q.token \in Tokens /\ resetTokens[q.token] # None
        BY <3>1 DEF KnowsItsLink
      <4>2. q.op = "reset"
        BY <1>1, <4>1, AccountsAssumption DEF Knows, KnowsItsNewLink
      <4>3. q.user = r.user /\ Touched(q) = {q.user}
        BY <1>1, <3>1, <4>2 DEF Knows, KnowsItsLink, KnowsItsAccount, Updates
      <4> QED BY <1>2, <2>1, <4>3 DEF Overlaps
    <3>3. KnowsItsLink(new, resetTokens')
      BY <1>2, <1>4, <2>1, <3>1, <3>2 DEF KnowsItsLink
    <3> QED BY <1>2, <2>1, <2>3, <2>4, <3>3 DEF Knows, Updates
  <2>5. CASE r.op # "reset"
    BY <1>1, <1>2, <1>7, <2>1, <2>3, <2>5 DEF Knows, Updates
  <2> QED BY <2>4, <2>5
<1>8. CASE r.op \in {"register", "seed"}
  <2>1. KnowsItsIds(r, users) /\ r.token = None
    BY <1>1, <1>8 DEF Knows
  <2>2. ASSUME NEW u \in Touched(r), r.pc = "commit" PROVE u \notin Touched(q)
    <3>1. users[u] = None
      BY <2>1, <2>2 DEF KnowsItsIds
    <3>2. CASE q.op \in Updates
      BY <1>1, <3>1, <3>2 DEF Knows, KnowsItsAccount
    <3>3. CASE q.op = "forgot"
      BY <1>1, <3>3 DEF Knows, KnowsItsNewLink, NoRows, Touched
    <3>4. CASE q.op \in {"register", "seed"}
      BY <1>5, <1>8, <2>2, <3>4
    <3> QED BY <1>6, <3>2, <3>3, <3>4 DEF Operations, Updates
  <2>3. KnowsItsIds(new, users')
    BY <1>2, <1>3, <2>1, <2>2 DEF KnowsItsIds, Touched
  <2>4. r.op = "seed" /\ ~new.overlapped => KnowsItsVariants(new, users')
    <3> SUFFICES ASSUME r.op = "seed", ~new.overlapped PROVE KnowsItsVariants(new, users')
      OBVIOUS
    <3>1. r.pc = "commit"
      BY <1>1 DEF Knows
    <3>2. Touched(q) = {} /\ KnowsItsVariants(r, users)
      BY <1>1, <1>2, <3>1 DEF Knows, Overlaps
    <3>3. \A u \in Ids : users'[u] = users[u]
      BY <1>3, <3>2
    <3> QED BY <1>2, <3>2, <3>3 DEF KnowsItsVariants
  <2> QED BY <1>1, <1>2, <1>8, <2>1, <2>3, <2>4 DEF Knows, Updates
<1>9. CASE r.op = "forgot"
  <2>1. KnowsItsNewLink(r, users, resetTokens)
    BY <1>1, <1>9 DEF Knows
  <2>2. r.pc = "commit" => resetTokens'[r.token] = None
    BY <1>4, <1>5, <1>9, <2>1 DEF KnowsItsNewLink
  <2>3. KnowsItsNewLink(new, users', resetTokens')
    BY <1>2, <1>3, <1>4, <2>1, <2>2 DEF KnowsItsNewLink
  <2> QED BY <1>2, <1>9, <2>3 DEF Knows, Updates
<1> QED BY <1>6, <1>7, <1>8, <1>9 DEF Operations, Updates

LEMMA CommitKeeps ==
    ASSUME AccountsInv, NEW s \in Slots, Commit(s)
    PROVE  AccountsInv'
<1> DEFINE q == req[s]
           new == req'[s]
<1>1. /\ AccountsTypes /\ q \in Flight /\ q.pc = "commit" /\ Knows(q, users, resetTokens)
      /\ UNCHANGED <<sessions, mailed, now>>
  BY CommittedUsers DEF AccountsInv, Commit
<1>2. new = AfterCommit(q)
  BY CommittedRequests
<1>3. AccountsTypes'
  <2>1. writes' \in Nat
    <3>1. writes' = writes + (IF Touched(q) = {} THEN 0 ELSE 1)
      BY DEF Commit
    <3> QED BY <1>1, <3>1 DEF AccountsTypes
  <2>2. held' \in [Ids -> [Roles -> Nat \cup {None}]]
    BY <1>1 DEF Commit, Seen, AccountsTypes
  <2>3. /\ users' \in [Ids -> User \cup {None}]
        /\ resetTokens' \in [Tokens -> ResetToken \cup {None}]
        /\ req' \in [Slots -> {Idle} \cup Flight]
    BY CommittedUsers, CommittedLinks, CommittedRequests
  <2> QED BY <1>1, <2>1, <2>2, <2>3 DEF AccountsTypes
<1>4. new.pc # "idle" => Knows(new, users', resetTokens')
  <2> HIDE DEF q, new
  <2> SUFFICES ASSUME new.pc # "idle" PROVE Knows(new, users', resetTokens')
    OBVIOUS
  <2>1. q.op \in {"register", "forgot"} /\ new = [q EXCEPT !.pc = "mail"]
    BY <1>2 DEF AfterCommit, Idle
  <2>2. /\ new.pc = "mail" /\ new.op = q.op /\ new.rows = q.rows /\ new.user = q.user
        /\ new.token = q.token /\ new.link = q.link /\ Touched(new) = Touched(q)
    BY <1>1, <2>1 DEF Flight, Touched
  <2>3. CASE q.op = "register"
    <3>1. q.token = None /\ \A u \in Touched(q) : users'[u] # None
      BY <1>1, <2>3, CommittedUsers DEF Knows, q
    <3> QED BY <2>2, <2>3, <3>1 DEF Knows, KnowsItsIds, Updates
  <2>4. CASE q.op = "forgot"
    <3>1. KnowsItsNewLink(q, users, resetTokens)
      BY <1>1, <2>4 DEF Knows
    <3>2. users'[q.user] # None /\ resetTokens'[q.token] # None
      BY <3>1, CommittedUsers, CommittedLinks DEF KnowsItsNewLink, q
    <3>3. KnowsItsNewLink(new, users', resetTokens')
      BY <2>2, <3>1, <3>2 DEF KnowsItsNewLink
    <3> QED BY <2>2, <2>4, <3>3 DEF Knows, Updates
  <2> QED BY <2>1, <2>3, <2>4
<1>5. \A t \in Slots : req'[t].pc # "idle" => Knows(req'[t], users', resetTokens')
  <2> SUFFICES ASSUME NEW t \in Slots, req'[t].pc # "idle"
               PROVE  Knows(req'[t], users', resetTokens')
    OBVIOUS
  <2>1. CASE t = s
    BY <1>4, <2>1
  <2>2. CASE t # s
    BY <2>2, CommittedRequests, OthersStillKnow
  <2> QED BY <2>1, <2>2
<1>6. new.pc # "commit"
  BY <1>1, <1>2 DEF AfterCommit, Idle, Flight
<1>7. CreationsApart'
  <2> SUFFICES ASSUME NEW t \in Slots, NEW u \in Slots, t # u,
                      req'[t].pc = "commit", req'[u].pc = "commit"
               PROVE  /\ req'[t].op \in {"register", "seed"}
                         /\ req'[u].op \in {"register", "seed"}
                           => Touched(req'[t]) \cap Touched(req'[u]) = {}
                      /\ req'[t].op = "forgot" /\ req'[u].op = "forgot"
                           => req'[t].token # req'[u].token
    BY DEF CreationsApart
  <2>1. t # s /\ u # s
    BY <1>6
  <2>2. /\ req[t].pc = "commit" /\ req'[t].op = req[t].op /\ req'[t].token = req[t].token
        /\ Touched(req'[t]) = Touched(req[t])
        /\ req[u].pc = "commit" /\ req'[u].op = req[u].op /\ req'[u].token = req[u].token
        /\ Touched(req'[u]) = Touched(req[u])
    BY <2>1, CommittedRequests
  <2> QED BY <2>2 DEF AccountsInv, CreationsApart
<1>8. Mailed'
  <2>1. \A u \in Ids : u \in Accounts => u \in Accounts'
    BY CommittedUsers DEF Accounts
  <2>2. ASSUME NEW k \in Tokens, resetTokens'[k] # None
        PROVE  resetTokens'[k].user \in Accounts'
    <3>1. CASE resetTokens[k] # None
      BY <2>1, <3>1, CommittedLinks DEF AccountsInv, Mailed, Accounts
    <3>2. CASE resetTokens[k] = None
      <4>1. q.op = "forgot" /\ resetTokens'[k] = q.link
        BY <2>2, <3>2, CommittedLinks
      <4>2. q.link.user \in Accounts
        BY <1>1, <4>1 DEF Knows, KnowsItsNewLink, Accounts
      <4> QED BY <2>1, <4>1, <4>2 DEF Accounts
    <3> QED BY <3>1, <3>2
  <2>3. \A k \in Tokens \cap mailed' : resetTokens'[k] # None
    BY <1>1, CommittedLinks DEF AccountsInv, Mailed
  <2>4. Ids \cap mailed' \subseteq Accounts'
    BY <1>1, <2>1 DEF AccountsInv, Mailed
  <2> QED BY <2>2, <2>3, <2>4 DEF Mailed
<1>9. ~Clash(users)'
  BY CommittedUsers
<1> QED BY <1>3, <1>5, <1>7, <1>8, <1>9 DEF AccountsInv

\* A request that ends without touching a table.
LEMMA EndKeeps ==
    ASSUME AccountsInv, NEW s \in Slots, req' = [req EXCEPT ![s] = Idle],
           UNCHANGED <<users, resetTokens, sessions, now, writes, held>>, Mailed'
    PROVE  AccountsInv'
<1>1. /\ req'[s] = Idle /\ Idle.pc = "idle"
      /\ \A t \in Slots : t # s => req'[t] = req[t]
      /\ AccountsTypes'
  BY DEF AccountsInv, AccountsTypes, Idle
<1>2. \A t \in Slots : req'[t].pc # "idle" => Knows(req'[t], users', resetTokens')
  BY <1>1 DEF AccountsInv
<1>3. CreationsApart'
  BY <1>1 DEF AccountsInv, CreationsApart
<1>4. ~Clash(users)'
  BY DEF AccountsInv, Clash
<1> QED BY <1>1, <1>2, <1>3, <1>4 DEF AccountsInv

LEMMA RollBackKeeps ==
    ASSUME AccountsInv, NEW s \in Slots, RollBack(s)
    PROVE  AccountsInv'
<1>1. Mailed'
  BY DEF RollBack, AccountsInv, Mailed, Accounts
<1> QED BY <1>1, EndKeeps DEF RollBack

LEMMA SendMailKeeps ==
    ASSUME AccountsInv, NEW s \in Slots, SendMail(s)
    PROVE  AccountsInv'
<1> DEFINE q == req[s]
<1>1. /\ q.pc = "mail" /\ q.op \in {"register", "forgot"}
      /\ UNCHANGED <<users, resetTokens, sessions, now, writes, held>>
      /\ mailed' = mailed \cup IF q.op = "forgot" THEN {q.token} ELSE Touched(q)
  BY DEF SendMail, MailStep
<1>2. Knows(q, users, resetTokens)
  BY <1>1 DEF AccountsInv
<1>3. req' = [req EXCEPT ![s] = Idle]
  BY <1>1 DEF SendMail
<1> HIDE DEF q
<1>4. Mailed'
  <2>1. CASE q.op = "forgot"
    <3>1. q.token \in Tokens /\ resetTokens[q.token] # None /\ q.token \notin Ids
      BY <1>1, <1>2, <2>1, AccountsAssumption DEF Knows, KnowsItsNewLink
    <3> QED BY <1>1, <2>1, <3>1 DEF AccountsInv, Mailed, Accounts
  <2>2. CASE q.op = "register"
    <3>1. Touched(q) \subseteq Accounts /\ Touched(q) \cap Tokens = {}
      BY <1>1, <1>2, <2>2, AccountsAssumption DEF Knows, KnowsItsIds, Touched, Accounts
    <3> QED BY <1>1, <2>2, <3>1 DEF AccountsInv, Mailed, Accounts
  <2> QED BY <1>1, <2>1, <2>2
<1> QED BY <1>1, <1>3, <1>4, EndKeeps

\* Neither a login nor the clock touches the accounts or the requests.
LEMMA OthersKeep ==
    ASSUME AccountsInv, UNCHANGED <<users, resetTokens, mailed, req, writes>>,
           sessions' \in [Browsers -> Session \cup {None}], now' \in Nat,
           held' \in [Ids -> [Roles -> Nat \cup {None}]]
    PROVE  AccountsInv'
BY DEF AccountsInv, AccountsTypes, CreationsApart, Mailed, Accounts, Clash

LEMMA LoginKeeps ==
    ASSUME AccountsInv, NEW b \in Browsers, NEW u \in Ids, Login(b, u)
    PROVE  AccountsInv'
<1>1. users[u] \in User /\ AccountsTypes
  BY DEF Login, Accounts, AccountsInv, AccountsTypes
<1>2. AccessToken(u) \in Session
  BY <1>1, AccountsAssumption DEF AccessToken, Session, User, AccountsTypes
<1>3. /\ sessions' \in [Browsers -> Session \cup {None}]
      /\ UNCHANGED <<users, resetTokens, mailed, req, now, writes, held>>
  BY <1>1, <1>2 DEF Login, AccountsTypes
<1> QED BY <1>1, <1>3, OthersKeep DEF AccountsTypes

LEMMA TickKeeps ==
    ASSUME AccountsInv, Tick
    PROVE  AccountsInv'
<1>1. AccountsTypes /\ now' \in Nat /\ held' \in [Ids -> [Roles -> Nat \cup {None}]]
  BY DEF AccountsInv, AccountsTypes, Tick, Seen
<1> QED BY <1>1, OthersKeep DEF Tick, AccountsTypes

LEMMA AccountsStep == AccountsInv /\ [Next]_vars => AccountsInv'
<1> SUFFICES ASSUME AccountsInv, [Next]_vars PROVE AccountsInv'
  OBVIOUS
<1>1. CASE UNCHANGED vars
  BY <1>1, OthersKeep DEF vars, AccountsInv, AccountsTypes
<1> QED BY <1>1, LoginKeeps, RegisterKeeps, UpdateUserKeeps, UpdateRolesKeeps,
           ChangePasswordKeeps, RequestResetKeeps, ResetPasswordKeeps, SeedKeeps,
           SaveKeeps, CommitKeeps, SendMailKeeps, RollBackKeeps, TickKeeps DEF Next

LEMMA AccountsInvariant == Spec => []AccountsInv
BY AccountsInit, AccountsStep, PTL DEF Spec

\* What the steps other than a commit leave alone.
LEMMA OnlyCommitWrites ==
    ASSUME [Next]_vars
    PROVE  \/ UNCHANGED <<users, resetTokens, writes>>
           \/ \E s \in Slots : Commit(s)
<1>1. CASE \E b \in Browsers, u \in Ids : Login(b, u)
  BY <1>1 DEF Login
<1>2. CASE \E s \in Slots, b \in Browsers, u \in Ids :
              \/ \E body \in Registrations : RegisterUser(s, b, u, body)
              \/ \E body \in Edits : UpdateUser(s, b, u, body)
              \/ \E role \in Roles : UpdateRoles(s, b, u, role)
  <2>1. CASE \E s \in Slots, b \in Browsers, u \in Ids, body \in Registrations :
                RegisterUser(s, b, u, body)
    BY <2>1 DEF RegisterUser, Begin
  <2>2. CASE \E s \in Slots, b \in Browsers, u \in Ids, body \in Edits :
                UpdateUser(s, b, u, body)
    BY <2>2 DEF UpdateUser, Begin
  <2>3. CASE \E s \in Slots, b \in Browsers, u \in Ids, role \in Roles :
                UpdateRoles(s, b, u, role)
    BY <2>3 DEF UpdateRoles, Begin
  <2> QED BY <1>2, <2>1, <2>2, <2>3
<1>3. CASE \/ \E s \in Slots, b \in Browsers, current \in Passwords, new \in NewPasswords :
                 ChangePassword(s, b, current, new)
           \/ \E s \in Slots, t \in Tokens :
                 \/ \E u \in Ids : RequestPasswordReset(s, u, t)
                 \/ \E new \in NewPasswords : ResetPassword(s, t, new)
           \/ \E s \in Slots, idOf \in [DOMAIN DemoRoles -> FreshIds] :
                 SeedDemoUsers(s, idOf)
  BY <1>3 DEF ChangePassword, RequestPasswordReset, ResetPassword, SeedDemoUsers, Begin
<1>4. CASE \E s \in Slots : Save(s) \/ SendMail(s) \/ RollBack(s)
  BY <1>4 DEF Save, SendMail, RollBack
<1>5. CASE Tick \/ UNCHANGED vars
  BY <1>5 DEF Tick, vars
<1> QED BY <1>1, <1>2, <1>3, <1>4, <1>5 DEF Next

\* The request whose commit is seen is the one that commits.
LEMMA Committer ==
    ASSUME AccountsInv, [Next]_vars, NEW s \in Slots, Commits(s)
    PROVE  Commit(s)
<1>1. PICK t \in Slots : Commit(t)
  BY OnlyCommitWrites DEF Commits
<1>2. s = t
  <2> SUFFICES ASSUME s # t PROVE FALSE
    OBVIOUS
  <2>1. req'[s].pc = req[s].pc
    BY <1>1, CommittedRequests
  <2> QED BY <2>1 DEF Commits
<1> QED BY <1>1, <1>2

-----------------------------------------------------------------------------
(* Sessions *)

\* The history of roles, brought up to date, tells of no less than before.
LEMMA SeenGrows ==
    ASSUME AccountsTypes, AuthorityInv, NEW table \in [Ids -> User \cup {None}],
           NEW time \in Nat, now <= time
    PROVE  LET after == Seen(table, time)
           IN  /\ \A u \in Ids : table[u] # None /\ table[u].active =>
                     after[u][table[u].role] = time
               /\ \A u \in Ids, r \in Roles :
                     /\ after[u][r] # None => after[u][r] \in Nat /\ after[u][r] <= time
                     /\ held[u][r] # None =>
                           after[u][r] # None /\ held[u][r] <= after[u][r]
<1> DEFINE after == Seen(table, time)
<1>1. \A u \in Ids, r \in Roles : after[u][r] =
         IF table[u] # None /\ table[u].active /\ table[u].role = r THEN time ELSE held[u][r]
  BY DEF Seen
<1>2. \A u \in Ids, r \in Roles :
         /\ held[u][r] \in Nat \cup {None}
         /\ held[u][r] # None => held[u][r] <= now
  BY DEF AccountsTypes, AuthorityInv
<1>3. \A u \in Ids : table[u] # None => table[u].role \in Roles
  BY DEF User
<1>4. time # None /\ now \in Nat
  BY AccountsAssumption DEF AccountsTypes
<1> HIDE DEF after
<1>5. \A u \in Ids : table[u] # None /\ table[u].active => after[u][table[u].role] = time
  BY <1>1, <1>3
<1>6. ASSUME NEW u \in Ids, NEW r \in Roles
      PROVE  /\ after[u][r] # None => after[u][r] \in Nat /\ after[u][r] <= time
             /\ held[u][r] # None => after[u][r] # None /\ held[u][r] <= after[u][r]
  <2>1. after[u][r] = time \/ after[u][r] = held[u][r]
    BY <1>1
  <2> QED BY <1>2, <1>4, <2>1
<1> QED BY <1>5, <1>6 DEF after

\* With a later clock, sessions stay within the life of a token.
LEMMA SessionsStay ==
    ASSUME AccountsTypes, AuthorityInv, users' \in [Ids -> User \cup {None}],
           now' \in Nat, now <= now', held' = Seen(users', now'), sessions' = sessions
    PROVE  AuthorityInv'
<1>1. /\ \A u \in Ids : users'[u] # None /\ users'[u].active =>
            held'[u][users'[u].role] = now'
      /\ \A u \in Ids, r \in Roles :
            /\ held'[u][r] # None => held'[u][r] \in Nat /\ held'[u][r] <= now'
            /\ held[u][r] # None => held'[u][r] # None /\ held[u][r] <= held'[u][r]
  BY SeenGrows
<1>2. ASSUME NEW b \in Browsers, sessions[b] # None
      PROVE  LET last == held'[sessions[b].user][sessions[b].role]
             IN  last # None /\ sessions[b].expires <= last + AccessLife
  <2> DEFINE u == sessions[b].user
             r == sessions[b].role
  <2>1. /\ u \in Ids /\ r \in Roles /\ sessions[b].expires \in Nat
        /\ held[u][r] # None /\ held[u][r] \in Nat
        /\ sessions[b].expires <= held[u][r] + AccessLife
    BY <1>2 DEF AccountsTypes, AuthorityInv, Session
  <2> HIDE DEF u, r
  <2>2. held'[u][r] # None /\ held'[u][r] \in Nat /\ held[u][r] <= held'[u][r]
    BY <1>1, <2>1
  <2>3. sessions[b].expires <= held'[u][r] + AccessLife
    BY <2>1, <2>2, AccountsAssumption
  <2> QED BY <2>2, <2>3 DEF u, r
<1> QED BY <1>1, <1>2 DEF AuthorityInv, Accounts

LEMMA AuthorityStep == AccountsInv /\ AuthorityInv /\ [Next]_vars => AuthorityInv'
<1> SUFFICES ASSUME AccountsInv, AuthorityInv, [Next]_vars PROVE AuthorityInv'
  OBVIOUS
<1>1. AccountsTypes
  BY DEF AccountsInv
<1>2. CASE UNCHANGED <<users, sessions, held, now>>
  BY <1>2 DEF AuthorityInv, Accounts
<1>3. ASSUME NEW b \in Browsers, NEW u \in Ids, Login(b, u) PROVE AuthorityInv'
  <2>1. /\ u \in Accounts /\ users[u].active /\ UNCHANGED <<users, held, now>>
        /\ sessions' = [sessions EXCEPT ![b] = AccessToken(u)]
    BY <1>3 DEF Login, MayLogIn
  <2>2. held[u][users[u].role] = now /\ now # None
    BY <1>1, <2>1, AccountsAssumption DEF AuthorityInv, AccountsTypes
  <2>3. \A c \in Browsers : sessions'[c] = IF c = b THEN AccessToken(u) ELSE sessions[c]
    BY <1>1, <2>1 DEF AccountsTypes
  <2>4. /\ AccessToken(u).user = u /\ AccessToken(u).role = users[u].role
        /\ AccessToken(u).expires <= now + AccessLife
    BY <1>1, AccountsAssumption DEF AccessToken, AccountsTypes
  <2> QED BY <2>1, <2>2, <2>3, <2>4 DEF AuthorityInv, Accounts
<1>4. ASSUME NEW s \in Slots, Commit(s) PROVE AuthorityInv'
  <2>1. /\ users' \in [Ids -> User \cup {None}] /\ held' = Seen(users', now)
        /\ UNCHANGED <<sessions, now>>
    BY <1>4, CommittedUsers DEF Commit
  <2> QED BY <1>1, <2>1, SessionsStay DEF AccountsTypes
<1>5. CASE Tick
  BY <1>1, <1>5, SessionsStay DEF Tick, AccountsTypes
<1>6. ASSUME NEW s \in Slots, NEW b \in Browsers, NEW u \in Ids,
             \/ \E body \in Registrations : RegisterUser(s, b, u, body)
             \/ \E body \in Edits : UpdateUser(s, b, u, body)
             \/ \E role \in Roles : UpdateRoles(s, b, u, role)
      PROVE  AuthorityInv'
  <2>1. UNCHANGED <<users, sessions, held, now>>
    <3>1. CASE \E body \in Registrations : RegisterUser(s, b, u, body)
      BY <3>1 DEF RegisterUser, Begin
    <3>2. CASE \E body \in Edits : UpdateUser(s, b, u, body)
      BY <3>2 DEF UpdateUser, Begin
    <3>3. CASE \E role \in Roles : UpdateRoles(s, b, u, role)
      BY <3>3 DEF UpdateRoles, Begin
    <3> QED BY <1>6, <3>1, <3>2, <3>3
  <2> QED BY <1>2, <2>1
<1>7. CASE \/ \E s \in Slots, b \in Browsers, current \in Passwords, new \in NewPasswords :
                 ChangePassword(s, b, current, new)
           \/ \E s \in Slots, t \in Tokens :
                 \/ \E u \in Ids : RequestPasswordReset(s, u, t)
                 \/ \E new \in NewPasswords : ResetPassword(s, t, new)
           \/ \E s \in Slots, idOf \in [DOMAIN DemoRoles -> FreshIds] :
                 SeedDemoUsers(s, idOf)
  BY <1>2, <1>7 DEF ChangePassword, RequestPasswordReset, ResetPassword, SeedDemoUsers, Begin
<1>8. CASE (\E s \in Slots : Save(s) \/ SendMail(s) \/ RollBack(s)) \/ UNCHANGED vars
  BY <1>2, <1>8 DEF Save, SendMail, RollBack, vars
<1> QED BY <1>3, <1>4, <1>5, <1>6, <1>7, <1>8 DEF Next

LEMMA AuthorityInvariant == Spec => []AuthorityInv
BY AccountsInit, AccountsInvariant, AuthorityStep, PTL DEF Spec

\* Who is signed in was active with the role of the session recently.
LEMMA SignedInRecently ==
    ASSUME AccountsTypes, AuthorityInv, NEW b \in Browsers, SignedIn(sessions[b])
    PROVE  LET last == held[sessions[b].user][sessions[b].role]
           IN  /\ sessions[b].role \in Roles
               /\ last # None /\ now < last + AccessLife
<1>1. sessions[b] \in Session /\ sessions[b] # None /\ now < sessions[b].expires
  BY DEF SignedIn, Unexpired, AccountsTypes
<1> DEFINE u == sessions[b].user
           r == sessions[b].role
<1>2. /\ u \in Ids /\ r \in Roles /\ sessions[b].expires \in Nat
      /\ held[u][r] # None /\ held[u][r] \in Nat /\ now \in Nat
      /\ sessions[b].expires <= held[u][r] + AccessLife
  BY <1>1 DEF AccountsTypes, AuthorityInv, Session
<1> HIDE DEF u, r
<1>3. now < held[u][r] + AccessLife
  BY <1>1, <1>2, AccountsAssumption
<1> QED BY <1>2, <1>3 DEF u, r

\* What begins in an idle slot.
LEMMA Beginning ==
    ASSUME AccountsInv, [Next]_vars, NEW s \in Slots,
           req[s].pc = "idle", req'[s].pc # "idle",
           req'[s].op \in {"register", "roles", "edit"}
    PROVE  \E b \in Browsers, u \in Ids :
              \/ \E body \in Registrations : RegisterUser(s, b, u, body)
              \/ \E body \in Edits : UpdateUser(s, b, u, body)
              \/ \E role \in Roles : UpdateRoles(s, b, u, role)
<1>1. AccountsTypes /\ Idle.pc = "idle"
  BY DEF AccountsInv, Idle
<1>2. ASSUME NEW t \in Slots, NEW op \in Operations, NEW by, NEW rows, NEW asked,
             NEW user, NEW token, NEW link,
             Begin(t, op, by, rows, asked, user, token, link)
      PROVE  s = t /\ op \in {"register", "roles", "edit"}
  BY <1>1, <1>2 DEF Begin, AccountsTypes
<1>3. CASE \E t \in Slots, b \in Browsers, u \in Ids :
              \/ \E body \in Registrations : RegisterUser(t, b, u, body)
              \/ \E body \in Edits : UpdateUser(t, b, u, body)
              \/ \E role \in Roles : UpdateRoles(t, b, u, role)
  <2>1. ASSUME NEW t \in Slots, NEW b \in Browsers, NEW u \in Ids,
               \/ \E body \in Registrations : RegisterUser(t, b, u, body)
               \/ \E body \in Edits : UpdateUser(t, b, u, body)
               \/ \E role \in Roles : UpdateRoles(t, b, u, role)
        PROVE  s = t
    <3>1. CASE \E body \in Registrations : RegisterUser(t, b, u, body)
      BY <1>2, <3>1 DEF RegisterUser, Operations
    <3>2. CASE \E body \in Edits : UpdateUser(t, b, u, body)
      BY <1>2, <3>2 DEF UpdateUser, Operations
    <3>3. CASE \E role \in Roles : UpdateRoles(t, b, u, role)
      BY <1>2, <3>3 DEF UpdateRoles, Operations
    <3> QED BY <2>1, <3>1, <3>2, <3>3
  <2> QED BY <1>3, <2>1
<1>4. CASE \/ \E t \in Slots, b \in Browsers, current \in Passwords, new \in NewPasswords :
                 ChangePassword(t, b, current, new)
           \/ \E t \in Slots, token \in Tokens :
                 \/ \E u \in Ids : RequestPasswordReset(t, u, token)
                 \/ \E new \in NewPasswords : ResetPassword(t, token, new)
           \/ \E t \in Slots, idOf \in [DOMAIN DemoRoles -> FreshIds] :
                 SeedDemoUsers(t, idOf)
  <2>1. {"change", "forgot", "reset", "seed"} \subseteq Operations
    BY DEF Operations
  <2> QED BY <1>2, <1>4, <2>1
          DEF ChangePassword, RequestPasswordReset, ResetPassword, SeedDemoUsers
<1>5. ASSUME NEW t \in Slots, Commit(t) PROVE FALSE
  <2>1. req[t].pc = "commit"
    BY <1>5 DEF Commit
  <2> QED BY <1>5, <2>1, CommittedRequests
<1>6. CASE \E t \in Slots : Save(t) \/ SendMail(t) \/ RollBack(t)
  <2>1. PICK t \in Slots : Save(t) \/ SendMail(t) \/ RollBack(t)
    BY <1>6
  <2>2. req[t].pc # "idle"
    BY <2>1 DEF Save, SendMail, MailStep, RollBack
  <2>3. \E new : req' = [req EXCEPT ![t] = new]
    BY <2>1 DEF Save, SendMail, RollBack
  <2> QED BY <1>1, <2>2, <2>3 DEF AccountsTypes
<1>7. CASE (\E b \in Browsers, u \in Ids : Login(b, u)) \/ Tick \/ UNCHANGED vars
  BY <1>7 DEF Login, Tick, vars
<1> QED BY <1>3, <1>4, <1>5, <1>6, <1>7 DEF Next

-----------------------------------------------------------------------------
(* The theorems *)

\* No two accounts ever have one address or one number, and every number is one
\* of the country, however many registrations, editions and seedings found an
\* address or a number free together (register_user.py:57, users.py:184).
THEOREM IdentitiesStayUnique == Spec => []IdentitiesAreUnique
<1>1. AccountsInv => IdentitiesAreUnique
  <2> SUFFICES ASSUME AccountsInv, NEW u \in Accounts, NEW v \in Accounts
               PROVE  /\ users[u].phone \in PhoneNumber
                      /\ u # v => users[u].email # users[v].email
                                  /\ users[u].phone # users[v].phone
    BY DEF IdentitiesAreUnique
  <2>1. u \in Ids /\ v \in Ids /\ users[u] \in User /\ users[u] # None /\ users[v] # None
    BY DEF AccountsInv, AccountsTypes, Accounts
  <2>2. users[u].phone \in PhoneNumber
    BY <2>1 DEF User
  <2> QED BY <2>1, <2>2 DEF AccountsInv, Clash
<1> QED BY <1>1, AccountsInvariant, PTL

\* A message speaks of a committed transaction only: a mailed link is one the
\* server knows and a welcomed account exists (auth.py:85).
THEOREM NoMailBeforeItsCommit == Spec => []MailsFollowCommits
<1>1. AccountsInv => MailsFollowCommits
  BY DEF AccountsInv, Mailed, MailsFollowCommits
<1> QED BY <1>1, AccountsInvariant, PTL

\* Whatever overlaps, a request changes no account but the one it updates, and
\* there no column but those it was asked to set and those that others changed
\* since it read the row, although it assigns the whole row (auth_repos.py:126).
THEOREM UpdatesAreNarrow == Spec => OnlyWhatWasAsked
<1>1. AccountsInv /\ [Next]_vars =>
        [\A s \in Slots : Commits(s) =>
          \A u \in Accounts :
              /\ users'[u].email = users[u].email
              /\ \A c \in Column : users'[u][c] # users[u][c] =>
                    u = req[s].user /\ c \in req[s].asked \cup req[s].overtaken]_vars
  <2> SUFFICES ASSUME AccountsInv, Next, NEW s \in Slots, Commits(s), NEW u \in Accounts
               PROVE  /\ users'[u].email = users[u].email
                      /\ \A c \in Column : users'[u][c] # users[u][c] =>
                            u = req[s].user /\ c \in req[s].asked \cup req[s].overtaken
    BY DEF vars
  <2> DEFINE q == req[s]
  <2>1. Commit(s) /\ u \in Ids /\ users[u] # None
    BY Committer DEF Accounts
  <2>2. users'[u].email = users[u].email
    BY <2>1, CommittedUsers
  <2>3. CASE u \notin Touched(q)
    BY <2>1, <2>2, <2>3, CommittedUsers
  <2>4. CASE u \in Touched(q)
    <3>1. q.op \in Updates /\ KnowsItsAccount(q, users)
      BY <2>1, <2>4, CommittedUsers DEF Knows
    <3>2. /\ u = q.user
          /\ \A c \in Column : q.rows[u][c] # users[u][c] => c \in q.asked \cup q.overtaken
      BY <2>4, <3>1 DEF KnowsItsAccount
    <3>3. \A c \in Column : users'[u][c] # users[u][c] => users'[u][c] = q.rows[u][c]
      BY <2>1, <3>1, <3>2, CommittedUsers
    <3> QED BY <2>2, <3>2, <3>3
  <2> QED BY <2>3, <2>4
<1> QED BY <1>1, AccountsInvariant, PTL DEF Spec, OnlyWhatWasAsked

\* A link that was used is used again only by a reset that another transaction
\* on the account overlapped (reset_password.py:35).
THEOREM LinksAreSpentOnce == Spec => SpentOnceUnlessOverlapped
<1>1. AccountsInv /\ [Next]_vars =>
        [\A s \in Slots :
          Commits(s) /\ req[s].op = "reset" /\ resetTokens[req[s].token].used
          => req[s].overlapped]_vars
  <2> SUFFICES ASSUME AccountsInv, Next, NEW s \in Slots, Commits(s),
                      req[s].op = "reset", resetTokens[req[s].token].used
               PROVE  req[s].overlapped
    BY DEF vars
  <2>1. KnowsItsLink(req[s], resetTokens)
    BY DEF AccountsInv, Commits, Knows
  <2> QED BY <2>1 DEF KnowsItsLink
<1> QED BY <1>1, AccountsInvariant, PTL DEF Spec, SpentOnceUnlessOverlapped

\* Who registers, promotes or edits another account had, less than the life of
\* an access token ago, an active account with a role that allows it, although
\* the token is never compared with the account (deps.py:45, login.py:51).
THEOREM TokensCarryRecentRoles == Spec => AuthorityIsRecent
<1>1. AccountsInv /\ AuthorityInv /\ [Next]_vars =>
        [\A s \in Slots :
          /\ req[s].pc = "idle" /\ req'[s].pc # "idle"
          /\ req'[s].op \in {"register", "roles", "edit"}
          => \E r \in Allowing(req'[s]) :
                LET last == held[req'[s].by.user][r]
                IN  last # None /\ now < last + AccessLife]_vars
  <2> SUFFICES ASSUME AccountsInv, AuthorityInv, Next, NEW s \in Slots,
                      req[s].pc = "idle", req'[s].pc # "idle",
                      req'[s].op \in {"register", "roles", "edit"}
               PROVE  \E r \in Allowing(req'[s]) :
                          LET last == held[req'[s].by.user][r]
                          IN  last # None /\ now < last + AccessLife
    BY DEF vars
  <2> DEFINE new == req'[s]
  <2>1. AccountsTypes
    BY DEF AccountsInv
  <2>2. ASSUME NEW b \in Browsers, SignedIn(sessions[b]), new.by = sessions[b],
               sessions[b].role \in Allowing(new)
        PROVE  \E r \in Allowing(new) :
                  held[new.by.user][r] # None /\ now < held[new.by.user][r] + AccessLife
    BY <2>1, <2>2, SignedInRecently
  <2>3. PICK b \in Browsers, u \in Ids :
              \/ \E body \in Registrations : RegisterUser(s, b, u, body)
              \/ \E body \in Edits : UpdateUser(s, b, u, body)
              \/ \E role \in Roles : UpdateRoles(s, b, u, role)
    BY Beginning
  <2>4. CASE \E body \in Registrations : RegisterUser(s, b, u, body)
    <3>1. SignedIn(sessions[b]) /\ new.by = sessions[b] /\ new.op = "register"
      BY <2>1, <2>4 DEF RegisterUser, Begin, AccountsTypes
    <3>2. sessions[b].role \in Registrars
      BY <2>4 DEF RegisterUser
    <3>3. Allowing(new) = Registrars
      BY <3>1 DEF Allowing
    <3> QED BY <2>2, <3>1, <3>2, <3>3
  <2>5. CASE \E role \in Roles : UpdateRoles(s, b, u, role)
    <3>1. SignedIn(sessions[b]) /\ new.by = sessions[b] /\ new.op = "roles"
      BY <2>1, <2>5 DEF UpdateRoles, Begin, AccountsTypes
    <3>2. sessions[b].role \in RoleManagers
      BY <2>5 DEF UpdateRoles
    <3>3. Allowing(new) = RoleManagers
      BY <3>1 DEF Allowing
    <3> QED BY <2>2, <3>1, <3>2, <3>3
  <2>6. CASE \E body \in Edits : UpdateUser(s, b, u, body)
    <3>1. PICK body \in Edits : UpdateUser(s, b, u, body)
      BY <2>6
    <3> DEFINE phone == IF body.typed = None THEN None ELSE National(body.typed)
               given == [phone |-> phone, active |-> body.active, role |-> body.role]
               asked == Provided(given)
    <3>2. /\ SignedIn(sessions[b]) /\ MayEdit(sessions[b], u, body)
          /\ Begin(s, "edit", sessions[b], Only(u, Edited(users[u], given)), asked,
                   u, None, None)
      BY <3>1 DEF UpdateUser
    <3>3. asked \cap {"active", "role"} # {} => body.active # None \/ body.role # None
      BY DEF Provided
    <3> HIDE DEF given, asked
    <3>4. new.by = sessions[b] /\ new.op = "edit" /\ new.user = u /\ new.asked = asked
      BY <2>1, <3>2 DEF Begin, AccountsTypes
    <3>5. sessions[b].role \in Roles
      BY <2>1, <3>2, SignedInRecently
    <3>6. CASE sessions[b].role \in AdminRoles
      <4>1. Allowing(new) \in {AdminRoles, Roles}
        BY <3>4 DEF Allowing
      <4> QED BY <2>2, <3>2, <3>4, <3>5, <3>6, <4>1
    <3>7. CASE sessions[b].role \notin AdminRoles
      <4>1. u = sessions[b].user /\ asked \cap {"active", "role"} = {}
        BY <3>2, <3>3, <3>7 DEF MayEdit
      <4>2. Allowing(new) = Roles
        BY <3>4, <4>1 DEF Allowing
      <4> QED BY <2>2, <3>2, <3>4, <3>5, <4>2
    <3> QED BY <3>6, <3>7
  <2> QED BY <2>3, <2>4, <2>5, <2>6
<1> QED BY <1>1, AccountsInvariant, AuthorityInvariant, PTL DEF Spec, AuthorityIsRecent

\* A seeding that nobody overlapped passes over the variants of an address that
\* belong to accounts of other roles only, where the addresses of the roles and
\* their variants are all different (admin_seed_demo_users.py:24, :39).
THEOREM OneDemoAccountPerRole ==
    ASSUME \A i, j \in DOMAIN DemoRoles :
           \A k \in DOMAIN DemoEmails[i], m \in DOMAIN DemoEmails[j] :
               DemoEmails[i][k] = DemoEmails[j][m] => i = j /\ k = m
    PROVE  Spec => NoSecondDemoAccount
<1>1. AccountsInv /\ [Next]_vars =>
        [\A s \in Slots : Commits(s) /\ req[s].op = "seed" /\ ~req[s].overlapped =>
          \A u \in Touched(req[s]), i \in DOMAIN DemoRoles :
          \A k \in DOMAIN DemoEmails[i], j \in DOMAIN DemoEmails[i] :
              /\ users'[u].role = DemoRoles[i] /\ users'[u].email = DemoEmails[i][k]
              /\ j < k
              => \E v \in Accounts : /\ users[v].email = DemoEmails[i][j]
                                     /\ users[v].role # DemoRoles[i]]_vars
  <2> SUFFICES ASSUME AccountsInv, Next, NEW s \in Slots, Commits(s),
                      req[s].op = "seed", ~req[s].overlapped,
                      NEW u \in Touched(req[s]), NEW i \in DOMAIN DemoRoles,
                      NEW k \in DOMAIN DemoEmails[i], NEW j \in DOMAIN DemoEmails[i],
                      users'[u].role = DemoRoles[i], users'[u].email = DemoEmails[i][k],
                      j < k
               PROVE  \E v \in Accounts : /\ users[v].email = DemoEmails[i][j]
                                          /\ users[v].role # DemoRoles[i]
    BY DEF vars
  <2> DEFINE q == req[s]
  <2>1. Commit(s) /\ u \in Ids
    BY Committer DEF Touched
  <2>2. users[u] = None /\ users'[u] = q.rows[u] /\ KnowsItsVariants(q, users)
    BY <2>1, CommittedUsers DEF Updates, Knows
  <2>3. PICK i2 \in DOMAIN DemoRoles : \E k2 \in DOMAIN DemoEmails[i2] :
            /\ q.rows[u].email = DemoEmails[i2][k2]
            /\ \A m \in DOMAIN DemoEmails[i2] : m < k2 =>
                  \E v \in Ids : /\ users[v] # None /\ users[v].email = DemoEmails[i2][m]
                                 /\ users[v].role # DemoRoles[i2]
    BY <2>2 DEF KnowsItsVariants
  <2>4. PICK k2 \in DOMAIN DemoEmails[i2] :
            /\ q.rows[u].email = DemoEmails[i2][k2]
            /\ \A m \in DOMAIN DemoEmails[i2] : m < k2 =>
                  \E v \in Ids : /\ users[v] # None /\ users[v].email = DemoEmails[i2][m]
                                 /\ users[v].role # DemoRoles[i2]
    BY <2>3
  <2>5. i2 = i /\ k2 = k
    BY <2>2, <2>4
  <2> QED BY <2>4, <2>5 DEF Accounts
<1> QED BY <1>1, AccountsInvariant, PTL DEF Spec, NoSecondDemoAccount

-----------------------------------------------------------------------------
(* Telephone numbers *)

LEMMA NumbersAreSequences ==
    ASSUME NEW number \in PhoneNumber
    PROVE  number \in Seq(Digits) /\ Len(number) = 9 /\ number[3] \in Digits
<1>1. number \in [1 .. 9 -> Digits] /\ 9 \in Nat
  BY DEF PhoneNumber
<1> HIDE DEF Digits
<1>2. number \in Seq(Digits)
  BY <1>1, SeqDef
<1>3. Len(number) = 9
  <2>1. DOMAIN number = 1 .. 9 /\ DOMAIN number = 1 .. Len(number) /\ Len(number) \in Nat
    BY <1>1, <1>2, LenProperties
  <2> QED BY <2>1
<1> QED BY <1>1, <1>2, <1>3

\* A number of nine digits in a Cameroonian block never begins with the country
\* code, so what is stripped once is not stripped twice.
LEMMA NationalIsBare ==
    ASSUME NEW number \in Seq(Digits), NationalNumber(number)
    PROVE  Len(number) = 9 /\ ~Begins(number, CountryCode)
<1>1. Len(number) = 9
  BY DEF NationalNumber
<1>2. /\ Len(<<6, 5>>) = 2 /\ Len(<<6, 6>>) = 2 /\ Len(<<6, 7>>) = 2 /\ Len(<<6, 9>>) = 2
      /\ Len(<<2, 2, 2>>) = 3 /\ Len(<<2, 3, 3>>) = 3 /\ Len(<<2, 4, 2>>) = 3
      /\ Len(<<2, 4, 3>>) = 3 /\ Len(<<2, 3, 7>>) = 3
  OBVIOUS
<1>3. /\ SubSeq(number, 1, 2)[1] = number[1]
      /\ SubSeq(number, 1, 3)[1] = number[1] /\ SubSeq(number, 1, 3)[2] = number[2]
      /\ SubSeq(number, 1, 3)[3] = number[3]
  BY <1>1
<1>4. \/ number[1] = 6
      \/ number[1] = 2 /\ number[2] = 2
      \/ number[1] = 2 /\ number[2] = 3 /\ number[3] = 3
      \/ number[1] = 2 /\ number[2] = 4
  <2>1. PICK block \in MobileBlocks \cup FixedBlocks : Begins(number, block)
    BY DEF NationalNumber
  <2>2. CASE block \in MobileBlocks
    <3>1. Len(block) = 2 /\ block[1] = 6
      BY <2>2, <1>2 DEF MobileBlocks
    <3> QED BY <1>3, <2>1, <3>1 DEF Begins
  <2>3. CASE block \in FixedBlocks
    <3>1. /\ Len(block) = 3 /\ block[1] = 2
          /\ block[2] \in {2, 3, 4} /\ (block[2] = 3 => block[3] = 3)
      BY <2>3, <1>2 DEF FixedBlocks
    <3>2. block[1] = number[1] /\ block[2] = number[2] /\ block[3] = number[3]
      BY <1>3, <2>1, <3>1 DEF Begins
    <3> QED BY <3>1, <3>2
  <2> QED BY <2>1, <2>2, <2>3
<1>5. ASSUME Begins(number, CountryCode) PROVE FALSE
  <2>1. SubSeq(number, 1, 3) = <<2, 3, 7>>
    BY <1>2, <1>5 DEF Begins, CountryCode
  <2>2. <<2, 3, 7>>[1] = 2 /\ <<2, 3, 7>>[2] = 3 /\ <<2, 3, 7>>[3] = 7
    OBVIOUS
  <2>3. number[1] = 2 /\ number[2] = 3 /\ number[3] = 7
    BY <1>3, <2>1, <2>2, Zenon
  <2> QED BY <1>4, <2>3
<1> QED BY <1>1, <1>5

\* A number is one whether it was typed with the country code or without, and
\* there is no third way to type it: what PhoneTaken compares are numbers, not
\* spellings (phone_number.py).
THEOREM OneNumberTwoSpellings ==
    ASSUME NEW typed \in Typed, ~typed.odd, NEW number \in PhoneNumber
    PROVE  PhoneValid(typed) /\ National(typed) = number <=>
              /\ NationalNumber(number)
              /\ \/ typed.digits = CountryCode \o number
                 \/ ~typed.plus /\ typed.digits = number
<1> DEFINE digits == typed.digits
<1>1. digits \in Seq(Digits) /\ typed.plus \in BOOLEAN
  BY DEF Typed
<1>2. number \in Seq(Digits) /\ Len(number) = 9 /\ CountryCode \in Seq(Digits)
      /\ Len(CountryCode) = 3
  BY NumbersAreSequences DEF CountryCode, Digits
<1> HIDE DEF digits
<1>3. Begins(digits, CountryCode) =>
         digits = CountryCode \o SubSeq(digits, 4, Len(digits))
  <2> SUFFICES ASSUME Begins(digits, CountryCode)
               PROVE  digits = CountryCode \o SubSeq(digits, 4, Len(digits))
    OBVIOUS
  <2>1. Len(digits) >= 3 /\ SubSeq(digits, 1, 3) = CountryCode
    BY <1>2 DEF Begins
  <2>2. SubSeq(digits, 1, 3) \o SubSeq(digits, 4, Len(digits)) = digits
    BY <1>1, <2>1
  <2> QED BY <2>1, <2>2
<1>4. Begins(CountryCode \o number, CountryCode)
      /\ SubSeq(CountryCode \o number, 4, Len(CountryCode \o number)) = number
  <2> HIDE DEF Digits
  <2>1. PICK all \in Seq(Digits) : all = CountryCode \o number
    BY <1>2, ConcatProperties
  <2>2. /\ Len(all) = 12
        /\ \A i \in 1 .. 12 : all[i] = IF i <= 3 THEN CountryCode[i] ELSE number[i - 3]
    <3>1. /\ Len(all) = Len(CountryCode) + Len(number)
          /\ \A i \in 1 .. Len(CountryCode) + Len(number) :
                all[i] = IF i <= Len(CountryCode) THEN CountryCode[i]
                         ELSE number[i - Len(CountryCode)]
      BY <1>2, <2>1, ConcatProperties, Zenon
    <3> QED BY <1>2, <3>1
  <2>3. SubSeq(all, 1, 3) = CountryCode
    BY <1>2, <2>2, SeqEqual
  <2>4. SubSeq(all, 4, 12) = number
    BY <1>2, <2>2, SeqEqual
  <2>5. Begins(all, CountryCode) /\ SubSeq(all, 4, Len(all)) = number
    BY <1>2, <2>2, <2>3, <2>4 DEF Begins
  <2> QED BY <2>1, <2>5
<1>5. ASSUME PhoneValid(typed), National(typed) = number
      PROVE  /\ NationalNumber(number)
             /\ \/ digits = CountryCode \o number
                \/ ~typed.plus /\ digits = number
  <2>1. NationalNumber(number)
    BY <1>5 DEF PhoneValid, National
  <2>2. CASE Begins(digits, CountryCode)
    <3>1. StripCountryCode(digits) = number
      BY <1>5 DEF National, digits
    <3>2. SubSeq(digits, 4, Len(digits)) = number
      BY <2>2, <3>1 DEF StripCountryCode
    <3>3. digits = CountryCode \o SubSeq(digits, 4, Len(digits))
      BY <1>3, <2>2, Zenon
    <3> QED BY <2>1, <3>2, <3>3, Zenon
  <2>3. CASE ~Begins(digits, CountryCode)
    BY <1>5, <2>1, <2>3 DEF PhoneValid, National, StripCountryCode, digits
  <2> QED BY <2>1, <2>2, <2>3
<1>6. ASSUME NationalNumber(number), digits = CountryCode \o number
      PROVE  PhoneValid(typed) /\ National(typed) = number
  BY <1>4, <1>6 DEF PhoneValid, National, StripCountryCode, digits
<1>7. ASSUME NationalNumber(number), ~typed.plus, digits = number
      PROVE  PhoneValid(typed) /\ National(typed) = number
  BY <1>2, <1>7, NationalIsBare DEF PhoneValid, National, StripCountryCode, digits
<1> QED BY <1>5, <1>6, <1>7 DEF digits

\* Every number that is accepted has an operator, and a mobile one exactly when
\* it begins with 6 (phone_number.py).
THEOREM EveryNumberHasAnOperator ==
    ASSUME NEW number \in PhoneNumber, NationalNumber(number)
    PROVE  /\ Operator(number) # "INCONNU"
           /\ IsMobile(number) <=> Operator(number) \in {"MTN", "ORANGE", "NEXTTEL"}
<1>1. number \in Seq(Digits) /\ Len(number) = 9 /\ number[3] \in Digits
  BY NumbersAreSequences
<1>2. Len(<<6, 5>>) = 2 /\ Len(<<6, 6>>) = 2 /\ Len(<<6, 7>>) = 2 /\ Len(<<6, 9>>) = 2
      /\ Len(<<2, 2, 2>>) = 3 /\ Len(<<2, 3, 3>>) = 3 /\ Len(<<2, 4, 2>>) = 3
      /\ Len(<<2, 4, 3>>) = 3
  OBVIOUS
<1>3. SubSeq(number, 1, 2)[1] = number[1] /\ SubSeq(number, 1, 3)[1] = number[1]
  BY <1>1
<1>4. \A block \in MobileBlocks : Begins(number, block) => number[1] = 6
  BY <1>2, <1>3 DEF Begins, MobileBlocks
<1>5. \A block \in FixedBlocks : Begins(number, block) => number[1] = 2
  BY <1>2, <1>3 DEF Begins, FixedBlocks
<1>6. number[3] \in 0 .. 4 \/ number[3] \in 5 .. 9
  BY <1>1 DEF Digits
<1>7. PICK block \in MobileBlocks \cup FixedBlocks : Begins(number, block)
  BY DEF NationalNumber
<1>8. CASE number[1] = 6
  <2>1. \A b \in FixedBlocks : ~Begins(number, b)
    BY <1>5, <1>8
  <2>2. block \in MobileBlocks
    BY <1>7, <2>1
  <2>3. Operator(number) \in {"MTN", "ORANGE", "NEXTTEL"}
    BY <1>6, <1>7, <2>2 DEF MobileBlocks, Operator
  <2> QED BY <1>8, <2>3 DEF IsMobile
<1>9. CASE number[1] # 6
  <2>1. \A b \in MobileBlocks : ~Begins(number, b)
    BY <1>4, <1>9
  <2>2. block \in FixedBlocks
    BY <1>7, <2>1
  <2>3. Operator(number) \in {"CAMTEL_FIXE", "CAMTEL_CDMA"}
    BY <1>7, <2>1, <2>2 DEF MobileBlocks, FixedBlocks, Operator
  <2> QED BY <1>9, <2>3 DEF IsMobile
<1> QED BY <1>8, <1>9
=============================================================================
