------------------------- MODULE RolePermissions_proofs -------------------------
(***************************************************************************)
(* Proofs about RolePermissions: type correctness, what a start gives, that *)
(* every change of the table was asked for, and what a replacement leaves.  *)
(***************************************************************************)
EXTENDS RolePermissions, TLAPS

\* SUPER_ADMIN's defaults are the whole catalogue, so that once the defaults
\* are seeded nothing of the catalogue is missing.
LEMMA SeedingIsDefaults ==
    ASSUME NEW table
    PROVE  Seeding(table) = MissingDefaults(table)
<1>1. \A p \in Permissions : <<SuperAdmin, p>> \in table \cup MissingDefaults(table)
  BY RolesAssumption DEF MissingDefaults
<1>2. MissingCatalog(table \cup MissingDefaults(table)) = {}
  BY <1>1, RolesAssumption DEF MissingCatalog
<1> QED  BY <1>2 DEF Seeding

\* What a command asks for, as sets of rows: its inserts are asked for, its
\* deletes too.
Asked(q) ==
    q.pc = "commit" =>
        /\ \A r \in q.inserts : Gives(q.cmd, r)
        /\ \A r \in q.deletes : Takes(q.cmd, r)

\* The inductive invariant: types, pending changes that were asked for, no
\* request while the server starts, and the defaults in place once seeded.
PendingAsked == \A s \in Slots : Asked(req[s])
QuietStart == server # "up" => \A s \in Slots : req[s] = Idle
Seeded == server = "seeded" =>
    \A r \in Roles \X Permissions : r[2] \in Defaults[r[1]] => r \in rows

RightsInv == RightsTypeOK /\ PendingAsked /\ QuietStart /\ Seeded

\* Initially the invariant holds: nothing is in flight and the server is down.
LEMMA RightsInit == Init => RightsInv
<1> SUFFICES ASSUME Init PROVE RightsInv
  OBVIOUS
<1>1. Idle \in Request /\ Idle.pc = "idle"
  BY DEF Request, Idle
<1>2. RightsTypeOK
  <2>1. rows \subseteq Row
    BY RolesAssumption DEF Init, Row
  <2>2. req \in [Slots -> Request]
    BY <1>1 DEF Init
  <2>3. faults \in 0 .. MaxFaults
    BY RolesAssumption DEF Init
  <2> QED  BY <2>1, <2>2, <2>3 DEF Init, RightsTypeOK
<1>3. PendingAsked /\ QuietStart /\ Seeded
  BY <1>1 DEF Init, PendingAsked, Asked, QuietStart, Seeded
<1> QED  BY <1>2, <1>3 DEF RightsInv

\* A request that begins with changes of the right types, all asked for by its
\* command, keeps the invariant.
LEMMA BeginKeeps ==
    ASSUME RightsInv, NEW s \in Slots, NEW cmd \in Command,
           NEW inserts \in SUBSET (Roles \X Permissions), NEW deletes \in SUBSET Row,
           \A r \in inserts : Gives(cmd, r),
           \A r \in deletes : Takes(cmd, r),
           Begin(s, cmd, inserts, deletes)
    PROVE  RightsInv'
<1> DEFINE q == [pc |-> "commit", cmd |-> cmd, inserts |-> inserts,
                 deletes |-> deletes, overtaken |-> {}]
<1>1. q \in Request /\ q.pc = "commit" /\ q.cmd = cmd
      /\ q.inserts = inserts /\ q.deletes = deletes
  BY DEF Request
<1>2. req' = [req EXCEPT ![s] = q] /\ server = "up"
      /\ UNCHANGED <<rows, server, loggingBound, expired, faults>>
  BY DEF Begin
<1> HIDE DEF q
<1>3. RightsTypeOK'
  BY <1>1, <1>2 DEF RightsInv, RightsTypeOK
<1>4. PendingAsked'
  BY <1>1, <1>2 DEF RightsInv, RightsTypeOK, PendingAsked, Asked
<1>5. QuietStart' /\ Seeded'
  BY <1>2 DEF QuietStart, Seeded
<1> QED  BY <1>3, <1>4, <1>5 DEF RightsInv

\* The four handlers decide on changes that their command asks for.
LEMMA AddKeeps ==
    ASSUME RightsInv, NEW s \in Slots, NEW role \in Roles, NEW p \in Permissions,
           AddPermission(s, role, p)
    PROVE  RightsInv'
<1> DEFINE cmd == [op |-> "add", role |-> role, permission |-> p]
<1>1. cmd \in Command /\ cmd.op = "add" /\ cmd.role = role /\ cmd.permission = p
  BY DEF Command
<1>2. Begin(s, cmd, {<<role, p>>} \ rows, {})
  BY DEF AddPermission
<1> HIDE DEF cmd
<1>3. \A r \in {<<role, p>>} \ rows : Gives(cmd, r)
  BY <1>1 DEF Gives
<1> QED  BY <1>1, <1>2, <1>3, BeginKeeps

LEMMA RemoveKeeps ==
    ASSUME RightsInv, NEW s \in Slots, NEW role \in Roles, NEW p \in Permissions,
           RemovePermission(s, role, p)
    PROVE  RightsInv'
<1> DEFINE cmd == [op |-> "remove", role |-> role, permission |-> p]
<1>1. cmd \in Command /\ cmd.op = "remove" /\ cmd.role = role /\ cmd.permission = p
  BY DEF Command
<1>2. Begin(s, cmd, {}, {<<role, p>>} \cap rows)
  BY DEF RemovePermission
<1> HIDE DEF cmd
<1>3. \A r \in {<<role, p>>} \cap rows : Takes(cmd, r)
  BY <1>1 DEF Takes
<1>4. {<<role, p>>} \cap rows \in SUBSET Row
  BY DEF RightsInv, RightsTypeOK
<1> QED  BY <1>1, <1>2, <1>3, <1>4, BeginKeeps

LEMMA SetKeeps ==
    ASSUME RightsInv, NEW s \in Slots, NEW role \in Roles,
           NEW permissions \in SUBSET Permissions,
           SetPermissions(s, role, permissions)
    PROVE  RightsInv'
<1> DEFINE cmd == [op |-> "set", role |-> role, permissions |-> permissions]
           inserts == ({role} \X permissions) \ rows
           deletes == Unwanted(role, permissions)
<1>1. cmd \in Command /\ cmd.op = "set" /\ cmd.role = role
      /\ cmd.permissions = permissions
  BY DEF Command
<1>2. Begin(s, cmd, inserts, deletes)
  BY DEF SetPermissions
<1>3. inserts \in SUBSET (Roles \X Permissions) /\ deletes \in SUBSET Row
  BY DEF RightsInv, RightsTypeOK, Unwanted
<1> HIDE DEF cmd
<1>4. \A r \in inserts : Gives(cmd, r)
  BY <1>1 DEF Gives
<1>5. \A r \in deletes : Takes(cmd, r)
  BY <1>1 DEF Takes, Unwanted
<1> HIDE DEF inserts, deletes
<1> QED  BY <1>1, <1>2, <1>3, <1>4, <1>5, BeginKeeps

LEMMA BootstrapKeeps ==
    ASSUME RightsInv, NEW s \in Slots, BootstrapFull(s)
    PROVE  RightsInv'
<1> DEFINE cmd == [op |-> "bootstrap"]
<1>1. cmd \in Command /\ cmd.op = "bootstrap"
  BY DEF Command
<1>2. Begin(s, cmd, Seeding(rows), {})
  BY DEF BootstrapFull
<1> HIDE DEF cmd
<1>3. Seeding(rows) \in SUBSET (Roles \X Permissions)
      /\ \A r \in Seeding(rows) : r[2] \in Defaults[r[1]]
  BY SeedingIsDefaults DEF MissingDefaults
<1>4. \A r \in Seeding(rows) : Gives(cmd, r)
  BY <1>1, <1>3 DEF Gives
<1> QED  BY <1>1, <1>2, <1>3, <1>4, BeginKeeps

\* A commit removes rows from the pending deletes of the others: what is left
\* was asked for.
LEMMA CommitKeeps ==
    ASSUME RightsInv, NEW s \in Slots, Commit(s)
    PROVE  RightsInv'
<1> DEFINE q == req[s]
<1>1. q \in Request /\ q.pc = "commit"
      /\ q.inserts \subseteq Roles \X Permissions /\ q.deletes \subseteq Row
  <2>1. q \in Request /\ q.pc = "commit"
    BY DEF Commit, RightsInv, RightsTypeOK
  <2>2. q \in [pc : {"commit"}, cmd : Command,
               inserts : SUBSET (Roles \X Permissions),
               deletes : SUBSET Row, overtaken : SUBSET Row]
    BY <2>1 DEF Request, Idle
  <2> HIDE DEF q
  <2> QED  BY <2>1, <2>2
<1>2. server = "up"
  BY <1>1 DEF RightsInv, QuietStart, Idle
<1>3. Idle \in Request /\ Idle.pc = "idle"
  BY DEF Request, Idle
<1>4. ASSUME NEW t \in Slots
      PROVE  Overtaken(req[t], q.inserts, q.deletes) \in Request
             /\ Asked(Overtaken(req[t], q.inserts, q.deletes))
  <2>1. req[t] \in Request /\ Asked(req[t])
    BY DEF RightsInv, RightsTypeOK, PendingAsked
  <2>2. CASE req[t].pc = "idle"
    BY <2>1, <2>2 DEF Overtaken
  <2>3. CASE req[t].pc # "idle"
    <3> DEFINE changed == {r \in q.inserts \cup q.deletes : Replaced(req[t].cmd, r)}
               o == [req[t] EXCEPT !.deletes = @ \ q.deletes,
                                    !.overtaken = @ \cup changed]
    <3>1. req[t] \in [pc : {"commit"}, cmd : Command,
                      inserts : SUBSET (Roles \X Permissions),
                      deletes : SUBSET Row, overtaken : SUBSET Row]
      BY <2>1, <2>3 DEF Request, Idle
    <3>9. changed \in SUBSET Row
      BY <1>1, RolesAssumption DEF Row
    <3> HIDE DEF changed
    <3>2. o \in Request /\ o.cmd = req[t].cmd /\ o.inserts = req[t].inserts
          /\ o.deletes = req[t].deletes \ q.deletes
      BY <3>1, <3>9 DEF Request
    <3>3. Asked(o)
      BY <2>1, <3>1, <3>2 DEF Asked
    <3> QED  BY <2>3, <3>2, <3>3 DEF Overtaken, changed
  <2> QED  BY <2>2, <2>3
<1>5. req' = [t \in Slots |->
                IF t = s THEN Idle ELSE Overtaken(req[t], q.inserts, q.deletes)]
      /\ rows' = (rows \ q.deletes) \cup q.inserts
      /\ UNCHANGED <<server, loggingBound, expired, faults>>
  BY DEF Commit
<1>6. \A t \in Slots : req'[t] \in Request /\ Asked(req'[t])
  BY <1>3, <1>4, <1>5 DEF Asked
<1>7. RightsTypeOK'
  <2>1. req' \in [Slots -> Request]
    BY <1>5, <1>6
  <2>2. rows' \subseteq Row
    BY <1>1, <1>5, RolesAssumption DEF RightsInv, RightsTypeOK, Row
  <2> QED  BY <1>5, <2>1, <2>2 DEF RightsInv, RightsTypeOK
<1>8. PendingAsked' /\ QuietStart' /\ Seeded'
  BY <1>2, <1>5, <1>6 DEF PendingAsked, QuietStart, Seeded
<1> QED  BY <1>7, <1>8 DEF RightsInv

LEMMA RollBackKeeps ==
    ASSUME RightsInv, NEW s \in Slots, RollBack(s)
    PROVE  RightsInv'
<1>1. Idle \in Request /\ Idle.pc = "idle"
  BY DEF Request, Idle
<1>2. req' = [req EXCEPT ![s] = Idle]
      /\ UNCHANGED <<rows, server, loggingBound, expired, faults>>
  BY DEF RollBack
<1>3. RightsTypeOK' /\ PendingAsked'
  BY <1>1, <1>2 DEF RightsInv, RightsTypeOK, PendingAsked, Asked
<1>4. QuietStart' /\ Seeded'
  BY <1>2 DEF RightsInv, RightsTypeOK, QuietStart, Seeded
<1> QED  BY <1>3, <1>4 DEF RightsInv

\* Start-up: the seeding leaves no default missing, and no request runs.
LEMMA StartKeeps ==
    ASSUME RightsInv, Seed \/ Purge \/ PurgeError \/ Stop \/ RecordExpires
    PROVE  RightsInv'
<1>1. Idle \in Request /\ Idle.pc = "idle"
  BY DEF Request, Idle
<1>2. CASE Seed
  <2>1. rows' = rows \cup MissingDefaults(rows)
        /\ MissingDefaults(rows) \subseteq Roles \X Permissions
    BY <1>2, SeedingIsDefaults DEF Seed, MissingDefaults
  <2>2. rows' \subseteq Row
    BY <2>1, RolesAssumption DEF RightsInv, RightsTypeOK, Row
  <2>3. RightsTypeOK' /\ PendingAsked' /\ QuietStart'
    BY <1>2, <2>2 DEF Seed, RightsInv, RightsTypeOK, PendingAsked, QuietStart, Asked
  <2>4. Seeded'
    BY <2>1 DEF Seeded, MissingDefaults
  <2> QED  BY <2>3, <2>4 DEF RightsInv
<1>3. CASE Purge
  BY <1>3 DEF Purge, RightsInv, RightsTypeOK, PendingAsked, QuietStart, Seeded, Asked
<1>4. CASE PurgeError
  BY <1>4, RolesAssumption
     DEF PurgeError, RightsInv, RightsTypeOK, PendingAsked, QuietStart, Seeded, Asked
<1>5. CASE Stop
  <2>1. RightsTypeOK'
    BY <1>1, <1>5, RolesAssumption DEF Stop, RightsInv, RightsTypeOK
  <2>2. PendingAsked' /\ QuietStart' /\ Seeded'
    BY <1>1, <1>5 DEF Stop, PendingAsked, QuietStart, Seeded, Asked
  <2> QED  BY <2>1, <2>2 DEF RightsInv
<1>6. CASE RecordExpires
  BY <1>6 DEF RecordExpires, RightsInv, RightsTypeOK, PendingAsked, QuietStart,
              Seeded, Asked
<1> QED  BY <1>2, <1>3, <1>4, <1>5, <1>6

LEMMA RightsStep == RightsInv /\ [Next]_vars => RightsInv'
<1> SUFFICES ASSUME RightsInv, [Next]_vars PROVE RightsInv'
  OBVIOUS
<1>1. CASE UNCHANGED vars
  BY <1>1 DEF vars, RightsInv, RightsTypeOK, PendingAsked, QuietStart, Seeded, Asked
<1>2. CASE Next
  BY <1>2, AddKeeps, RemoveKeeps, SetKeeps, BootstrapKeeps, CommitKeeps,
     RollBackKeeps, StartKeeps DEF Next
<1> QED  BY <1>1, <1>2

LEMMA RightsInvariant == Spec => []RightsInv
BY RightsInit, RightsStep, PTL DEF Spec

\* Every reachable state of the table, the requests and the start-up is well
\* typed, for any roles, catalogue and defaults.
THEOREM RightsTypeCorrect == Spec => []RightsTypeOK
BY RightsInvariant, PTL DEF RightsInv

\* A server that comes up has given every role its defaults (api/main.py,
\* lifespan): nothing can take one back between the two transactions.
THEOREM StartsComplete == Spec => StartGivesDefaults
<1>1. RightsInv /\ [Next]_vars =>
        [server # "up" /\ server' = "up" =>
            \A role \in Roles : Defaults[role] \subseteq PermissionsOf(role)']_vars
  <2> SUFFICES ASSUME RightsInv, Next, server # "up", server' = "up",
                      NEW role \in Roles, NEW p \in Defaults[role]
               PROVE  p \in PermissionsOf(role)'
    BY DEF vars
  <2>1. Purge \/ PurgeError
    BY DEF Next, Seed, Stop, RecordExpires, AddPermission, RemovePermission,
           SetPermissions, BootstrapFull, Begin, Commit, RollBack
  <2>2. server = "seeded" /\ rows' = rows
    BY <2>1 DEF Purge, PurgeError
  <2>3. p \in Permissions
    BY RolesAssumption
  <2>4. <<role, p>> \in rows
    BY <2>2, <2>3 DEF RightsInv, Seeded
  <2> QED  BY <2>2, <2>3, <2>4 DEF PermissionsOf
<1> QED  BY <1>1, RightsInvariant, PTL DEF Spec, StartGivesDefaults

\* However stale what a request read, a permission is given to a role or taken
\* from it only by a request that asks for that change, or given by a start that
\* finds a default missing: the pending changes of a request are always some
\* that its command asks for.
THEOREM NothingUnasked == Spec => ChangesAreAskedFor
<1> DEFINE Explained(r) ==
        /\ r \in rows' \ rows =>
              \/ server = "down" /\ r[2] \in Defaults[r[1]]
              \/ \E s \in Slots : Ends(s) /\ Gives(req[s].cmd, r)
        /\ r \in rows \ rows' =>
              \E s \in Slots : Ends(s) /\ Takes(req[s].cmd, r)
<1>1. RightsInv /\ [Next]_vars => [\A r \in Row : Explained(r)]_vars
  <2> SUFFICES ASSUME RightsInv, Next, NEW r \in Row
               PROVE  Explained(r)
    BY DEF vars
  <2>1. ASSUME NEW s \in Slots, Commit(s)
        PROVE  Explained(r)
    <3>1. Asked(req[s]) /\ req[s].pc = "commit"
      BY <2>1 DEF RightsInv, PendingAsked, Commit
    <3>2. req'[s].pc = "idle" /\ rows' = (rows \ req[s].deletes) \cup req[s].inserts
      BY <2>1 DEF Commit, Idle
    <3> QED  BY <3>1, <3>2 DEF Ends, Asked
  <2>2. CASE Seed
    BY <2>2, SeedingIsDefaults DEF Seed, MissingDefaults
  <2>3. ASSUME rows' = rows
        PROVE  Explained(r)
    BY <2>3
  <2>4. \/ \E s \in Slots : Commit(s)
        \/ Seed
        \/ rows' = rows
    BY DEF Next, Purge, PurgeError, Stop, RecordExpires, AddPermission,
           RemovePermission, SetPermissions, BootstrapFull, Begin, RollBack
  <2> QED  BY <2>1, <2>2, <2>3, <2>4
<1> QED  BY <1>1, RightsInvariant, PTL DEF Spec, ChangesAreAskedFor

-----------------------------------------------------------------------------
(* What a replacement replaces *)

\* The difference a replacement computed still is the difference, but for the
\* rows that other transactions inserted or deleted.
Replaces(q) ==
    q.pc = "commit" /\ q.cmd.op = "set" =>
        /\ q.inserts \ q.overtaken = (({q.cmd.role} \X q.cmd.permissions) \ rows) \ q.overtaken
        /\ q.deletes \ q.overtaken = Unwanted(q.cmd.role, q.cmd.permissions) \ q.overtaken

ReplacementsInv == RightsInv /\ \A s \in Slots : Replaces(req[s])

LEMMA BeginReplaces ==
    ASSUME ReplacementsInv, NEW s \in Slots, NEW cmd, NEW inserts, NEW deletes,
           Begin(s, cmd, inserts, deletes),
           cmd.op = "set" => /\ inserts = ({cmd.role} \X cmd.permissions) \ rows
                             /\ deletes = Unwanted(cmd.role, cmd.permissions),
           NEW t \in Slots
    PROVE  Replaces(req[t])'
<1> DEFINE q == [pc |-> "commit", cmd |-> cmd, inserts |-> inserts,
                 deletes |-> deletes, overtaken |-> {}]
<1>1. /\ q.cmd = cmd /\ q.inserts = inserts /\ q.deletes = deletes
      /\ req' = [req EXCEPT ![s] = q] /\ rows' = rows
      /\ req \in [Slots -> Request]
  BY DEF Begin, ReplacementsInv, RightsInv, RightsTypeOK
<1> HIDE DEF q
<1>2. CASE t = s
  BY <1>1, <1>2 DEF Replaces, Unwanted
<1>3. CASE t # s
  BY <1>1, <1>3 DEF ReplacementsInv, Replaces, Unwanted
<1> QED BY <1>2, <1>3

LEMMA ReplacementsStep == ReplacementsInv /\ [Next]_vars => ReplacementsInv'
<1> SUFFICES ASSUME ReplacementsInv, [Next]_vars, NEW t \in Slots
             PROVE  Replaces(req[t])'
  BY RightsStep DEF ReplacementsInv
<1>1. /\ req \in [Slots -> Request] /\ Replaces(req[t]) /\ Idle.pc = "idle"
      /\ QuietStart
  BY DEF ReplacementsInv, RightsInv, RightsTypeOK, Idle
<1>2. CASE req'[t] = Idle
  BY <1>1, <1>2 DEF Replaces
<1>3. CASE req'[t] = req[t] /\ rows' = rows
  BY <1>1, <1>3 DEF Replaces, Unwanted
<1>4. ASSUME NEW s \in Slots, NEW role \in Roles, NEW p \in Permissions,
             AddPermission(s, role, p) \/ RemovePermission(s, role, p)
      PROVE  Replaces(req[t])'
  <2>1. PICK cmd, inserts, deletes : Begin(s, cmd, inserts, deletes) /\ cmd.op # "set"
    BY <1>4 DEF AddPermission, RemovePermission
  <2> QED BY <2>1, BeginReplaces
<1>5. ASSUME NEW s \in Slots, NEW role \in Roles, NEW permissions \in SUBSET Permissions,
             SetPermissions(s, role, permissions)
      PROVE  Replaces(req[t])'
  <2> DEFINE cmd == [op |-> "set", role |-> role, permissions |-> permissions]
  <2>1. /\ cmd.role = role /\ cmd.permissions = permissions
        /\ Begin(s, cmd, ({role} \X permissions) \ rows, Unwanted(role, permissions))
    BY <1>5 DEF SetPermissions
  <2> HIDE DEF cmd
  <2> QED BY <2>1, BeginReplaces
<1>6. ASSUME NEW s \in Slots, BootstrapFull(s) PROVE Replaces(req[t])'
  <2>1. PICK cmd, inserts, deletes : Begin(s, cmd, inserts, deletes) /\ cmd.op # "set"
    BY <1>6 DEF BootstrapFull
  <2> QED BY <2>1, BeginReplaces
<1>7. ASSUME NEW s \in Slots, Commit(s) PROVE Replaces(req[t])'
  <2>1. req'[t] = IF t = s THEN Idle ELSE Overtaken(req[t], req[s].inserts, req[s].deletes)
    BY <1>7 DEF Commit
  <2>2. CASE t # s /\ req[t].pc = "idle"
    BY <2>1, <2>2 DEF Overtaken, Replaces
  <2>3. CASE t # s /\ req[t].pc # "idle"
    <3> DEFINE q == req[t]
               v == req'[t]
               changed == {r \in req[s].inserts \cup req[s].deletes : Replaced(q.cmd, r)}
    <3>1. v = [q EXCEPT !.deletes = @ \ req[s].deletes,
                        !.overtaken = @ \cup changed]
      BY <2>1, <2>3 DEF Overtaken
    <3>2. q \in [pc : {"commit"}, cmd : Command,
                 inserts : SUBSET (Roles \X Permissions),
                 deletes : SUBSET Row, overtaken : SUBSET Row]
      BY <1>1, <2>3 DEF Request, Idle
    <3>3. /\ v.pc = q.pc /\ v.cmd = q.cmd /\ v.inserts = q.inserts
          /\ v.deletes = q.deletes \ req[s].deletes
          /\ v.overtaken = q.overtaken \cup changed
      BY <3>1, <3>2
    <3>4. ASSUME q.cmd.op = "set", NEW r, r \notin changed, r[1] = q.cmd.role
          PROVE  (r \in rows' <=> r \in rows) /\ r \notin req[s].deletes
      BY <1>7, <3>4 DEF Commit, Replaced
    <3> HIDE DEF q, v, changed
    <3> SUFFICES ASSUME v.pc = "commit", v.cmd.op = "set"
                 PROVE  /\ v.inserts \ v.overtaken
                              = (({v.cmd.role} \X v.cmd.permissions) \ rows') \ v.overtaken
                        /\ v.deletes \ v.overtaken
                              = {r \in rows' : r[1] = v.cmd.role /\ r[2] \notin v.cmd.permissions}
                                  \ v.overtaken
      BY DEF Replaces, Unwanted, v
    <3>5. /\ q.inserts \ q.overtaken
                = (({q.cmd.role} \X q.cmd.permissions) \ rows) \ q.overtaken
          /\ q.deletes \ q.overtaken
                = Unwanted(q.cmd.role, q.cmd.permissions) \ q.overtaken
      BY <1>1, <3>3 DEF Replaces, q
    <3>6. v.inserts \ v.overtaken
             = (({v.cmd.role} \X v.cmd.permissions) \ rows') \ v.overtaken
      <4>1. \A r \in {q.cmd.role} \X q.cmd.permissions : r[1] = q.cmd.role
        OBVIOUS
      <4> QED BY <3>3, <3>4, <3>5, <4>1
    <3>7. v.deletes \ v.overtaken
             = {r \in rows' : r[1] = v.cmd.role /\ r[2] \notin v.cmd.permissions}
                 \ v.overtaken
      BY <3>3, <3>4, <3>5 DEF Unwanted
    <3> QED BY <3>6, <3>7
  <2> QED BY <1>2, <2>1, <2>2, <2>3
<1>8. ASSUME NEW s \in Slots, RollBack(s) PROVE Replaces(req[t])'
  BY <1>1, <1>2, <1>3, <1>8 DEF RollBack
<1>9. CASE Seed
  BY <1>1, <1>2, <1>9 DEF Seed, QuietStart
<1>10. CASE Stop
  BY <1>2, <1>10 DEF Stop
<1>11. CASE Purge \/ PurgeError \/ RecordExpires \/ UNCHANGED vars
  BY <1>3, <1>11 DEF Purge, PurgeError, RecordExpires, vars
<1> QED BY <1>4, <1>5, <1>6, <1>7, <1>8, <1>9, <1>10, <1>11 DEF Next

\* Whatever overlaps, a replacement leaves the role exactly what it asked for,
\* but for the rows that others inserted or deleted since it computed what it
\* deletes and inserts (set_permissions), whatever obsolete names the table held.
THEOREM ReplacementsReplace == Spec => ReplacementReplaces
<1>1. Init => ReplacementsInv
  <2> SUFFICES ASSUME Init PROVE \A s \in Slots : Replaces(req[s])
    BY RightsInit DEF ReplacementsInv
  <2> QED BY DEF Init, Idle, Replaces
<1>2. ReplacementsInv /\ [Next]_vars =>
        [\A s \in Slots :
            /\ Ends(s) /\ rows' # rows
            /\ req[s].cmd.op = "set"
            => {r \in rows' : r[1] = req[s].cmd.role} \ req[s].overtaken
                  = ({req[s].cmd.role} \X req[s].cmd.permissions) \ req[s].overtaken]_vars
  <2> SUFFICES ASSUME ReplacementsInv, Next, NEW s \in Slots, Ends(s), rows' # rows,
                      req[s].cmd.op = "set"
               PROVE  {r \in rows' : r[1] = req[s].cmd.role} \ req[s].overtaken
                         = ({req[s].cmd.role} \X req[s].cmd.permissions) \ req[s].overtaken
    BY DEF vars
  <2> DEFINE q == req[s]
  <2>1. PICK t \in Slots : Commit(t)
    <3>1. ~Seed
      BY DEF Seed, Ends, ReplacementsInv, RightsInv, QuietStart, Idle
    <3> QED BY <3>1 DEF Next, Purge, PurgeError, Stop, RecordExpires, AddPermission,
               RemovePermission, SetPermissions, BootstrapFull, Begin, RollBack
  <2>2. q \in [pc : {"commit"}, cmd : Command,
               inserts : SUBSET (Roles \X Permissions),
               deletes : SUBSET Row, overtaken : SUBSET Row]
    BY DEF Ends, ReplacementsInv, RightsInv, RightsTypeOK, Request, Idle
  <2>3. t = s
    <3> SUFFICES ASSUME t # s PROVE FALSE
      OBVIOUS
    <3>1. req'[s] = [req[s] EXCEPT !.deletes = @ \ req[t].deletes,
                        !.overtaken = @ \cup {r \in req[t].inserts \cup req[t].deletes :
                                                  Replaced(req[s].cmd, r)}]
      BY <2>1, <2>2 DEF Commit, Overtaken
    <3>2. req'[s].pc = "commit"
      BY <2>2, <3>1
    <3> QED BY <3>2 DEF Ends
  <2>4. /\ rows' = (rows \ q.deletes) \cup q.inserts
        /\ q.inserts \ q.overtaken
              = (({q.cmd.role} \X q.cmd.permissions) \ rows) \ q.overtaken
        /\ q.deletes \ q.overtaken
              = {r \in rows : r[1] = q.cmd.role /\ r[2] \notin q.cmd.permissions} \ q.overtaken
    BY <2>1, <2>3 DEF Commit, ReplacementsInv, Replaces, Unwanted
  <2>5. rows \subseteq Roles \X Names
    BY DEF ReplacementsInv, RightsInv, RightsTypeOK, Row
  <2> QED BY <2>4, <2>5
<1> QED BY <1>1, <1>2, ReplacementsStep, PTL DEF Spec, ReplacementReplaces
=============================================================================
