---------------------------- MODULE Records_proofs ----------------------------
(***************************************************************************)
(* Proofs about Records: types, what the version of an establishment says  *)
(* of its geometry, what an edition changes and what its audit entry tells,*)
(* and what a walk over the pages of a list sees.                          *)
(***************************************************************************)
EXTENDS Records, FiniteSetTheorems, TLAPS

Rows(table) ==
    IF table = "establishments" THEN Establishment ELSE ExceptionRequest

-----------------------------------------------------------------------------
(* Rows and bodies *)

LEMMA TablesApart == "establishments" \in Tables /\ "exception_requests" \in Tables
BY DEF Tables

\* An edition of an establishment keeps the geometry unless it counts as a
\* change of it.
LEMMA EditedEstablishment ==
    ASSUME NEW row \in Establishment, NEW body \in UpdateEstablishmentBody
    PROVE  /\ Edited(row, body) \in Establishment
           /\ Edited(row, body).version = row.version
           /\ ~GeoChanged(body) => /\ Edited(row, body).centre = row.centre
                                   /\ Edited(row, body).radius = row.radius
           /\ \A c \in DOMAIN row : c \notin Provided(body) => Edited(row, body)[c] = row[c]
<1> DEFINE new == Edited(row, body)
<1>1. /\ DOMAIN row = {"name", "centre", "radius", "version"}
      /\ DOMAIN body = {"name", "centre", "radius"}
      /\ row = [name |-> row.name, centre |-> row.centre, radius |-> row.radius,
                version |-> row.version]
      /\ row.name \in Names /\ row.centre \in Centres /\ row.radius \in Radii
      /\ row.version \in Nat
  BY DEF Establishment, UpdateEstablishmentBody
<1>2. /\ body.name \in Names \cup {None} /\ body.centre \in Centres \cup {None}
      /\ body.radius \in Radii \cup {None}
  BY DEF UpdateEstablishmentBody
<1>3. \A c \in DOMAIN row :
         new[c] = IF c \in Provided(body) THEN body[c] ELSE row[c]
  BY DEF Edited
<1>4. /\ new.name \in Names /\ new.centre \in Centres /\ new.radius \in Radii
      /\ new.version = row.version
  BY <1>1, <1>2, <1>3 DEF Provided
<1>5. new = [name |-> new.name, centre |-> new.centre, radius |-> new.radius,
             version |-> new.version]
  BY <1>1 DEF Edited
<1>6. new \in Establishment
  BY <1>1, <1>4, <1>5 DEF Establishment
<1>7. ~GeoChanged(body) => new.centre = row.centre /\ new.radius = row.radius
  BY <1>1, <1>3 DEF GeoChanged
<1> HIDE DEF new
<1> QED BY <1>3, <1>4, <1>6, <1>7 DEF new

\* An edition of a request changes what it was given, and gives a date to a
\* request that it acknowledges and that has none.
LEMMA EditedException ==
    ASSUME NEW row \in ExceptionRequest, NEW body \in PatchExceptionBody
    PROVE  LET new == Edited(row, body)
           IN  /\ new \in ExceptionRequest
               /\ [new EXCEPT !.due = "default"] \in ExceptionRequest
               /\ \A c \in DOMAIN row : c \notin Provided(body) => new[c] = row[c]
               /\ SetsDefaultDue(row, body) => new.status = "acknowledged" /\ row.due = None
<1> DEFINE new == Edited(row, body)
<1>1. /\ DOMAIN row = {"mission", "created", "status", "assignee", "due"}
      /\ DOMAIN body = {"status", "assignee", "due"}
      /\ row.mission \in Missions /\ row.created \in Nat
      /\ row.status \in ExceptionRequestStatus /\ row.assignee \in Users \cup {None}
      /\ row.due \in {"given", "default", None}
  BY DEF ExceptionRequest, PatchExceptionBody
<1>2. /\ body.status \in ExceptionRequestStatus \cup {None}
      /\ body.assignee \in Users \cup {None} /\ body.due \in {"given", None}
  BY DEF PatchExceptionBody
<1>3. \A c \in DOMAIN row :
         new[c] = IF c \in Provided(body) THEN body[c] ELSE row[c]
  BY DEF Edited
<1>4. /\ new.mission \in Missions /\ new.created \in Nat
      /\ new.status \in ExceptionRequestStatus /\ new.assignee \in Users \cup {None}
      /\ new.due \in {"given", "default", None}
  BY <1>1, <1>2, <1>3 DEF Provided
<1>5. new = [mission |-> new.mission, created |-> new.created, status |-> new.status,
             assignee |-> new.assignee, due |-> new.due]
  BY <1>1 DEF Edited
<1>6. new \in ExceptionRequest
  BY <1>4, <1>5 DEF ExceptionRequest
<1>7. SetsDefaultDue(row, body) => new.status = "acknowledged" /\ row.due = None
  BY <1>1, <1>3, RecordsAssumption
     DEF SetsDefaultDue, Provided, ExceptionRequestStatus
<1> HIDE DEF new
<1>8. [new EXCEPT !.due = "default"] \in ExceptionRequest
  BY <1>6 DEF ExceptionRequest
<1> QED BY <1>3, <1>6, <1>7, <1>8 DEF new

\* A row written over the one it was computed from is the row computed.
LEMMA MergeFresh ==
    ASSUME NEW row, NEW q, q.base = row,
           \/ row \in Establishment /\ q.object \in Establishment
           \/ row \in ExceptionRequest /\ q.object \in ExceptionRequest
    PROVE  Merge(row, q) = q.object
<1>1. /\ DOMAIN q.object = DOMAIN row
      /\ q.object = [c \in DOMAIN q.object |-> q.object[c]]
  BY DEF Establishment, ExceptionRequest
<1>2. \A c \in DOMAIN row : (IF q.object[c] = q.base[c] THEN row[c] ELSE q.object[c]) = q.object[c]
  OBVIOUS
<1> QED BY <1>1, <1>2 DEF Merge

\* A row written over any other is a row of its table.
LEMMA MergeEstablishment ==
    ASSUME NEW row \in Establishment, NEW q, q.object \in Establishment
    PROVE  Merge(row, q) \in Establishment
<1> DEFINE new == Merge(row, q)
<1>1. DOMAIN row = {"name", "centre", "radius", "version"}
  BY DEF Establishment
<1>2. \A c \in DOMAIN row : new[c] \in {row[c], q.object[c]}
  BY DEF Merge
<1>3. /\ new.name \in Names /\ new.centre \in Centres /\ new.radius \in Radii
      /\ new.version \in Nat
  BY <1>1, <1>2 DEF Establishment
<1>4. new = [name |-> new.name, centre |-> new.centre, radius |-> new.radius,
             version |-> new.version]
  BY <1>1 DEF Merge
<1> HIDE DEF new
<1>5. new \in Establishment
  BY <1>3, <1>4 DEF Establishment
<1> QED BY <1>5 DEF new

LEMMA MergeException ==
    ASSUME NEW row \in ExceptionRequest, NEW q, q.object \in ExceptionRequest
    PROVE  Merge(row, q) \in ExceptionRequest
<1> DEFINE new == Merge(row, q)
<1>1. DOMAIN row = {"mission", "created", "status", "assignee", "due"}
  BY DEF ExceptionRequest
<1>2. \A c \in DOMAIN row : new[c] \in {row[c], q.object[c]}
  BY DEF Merge
<1>3. /\ new.mission \in Missions /\ new.created \in Nat
      /\ new.status \in ExceptionRequestStatus /\ new.assignee \in Users \cup {None}
      /\ new.due \in {"given", "default", None}
  BY <1>1, <1>2 DEF ExceptionRequest
<1>4. new = [mission |-> new.mission, created |-> new.created, status |-> new.status,
             assignee |-> new.assignee, due |-> new.due]
  BY <1>1 DEF Merge
<1> HIDE DEF new
<1>5. new \in ExceptionRequest
  BY <1>3, <1>4 DEF ExceptionRequest
<1> QED BY <1>5 DEF new

-----------------------------------------------------------------------------
(* The inductive invariant: the types, and what a request in flight knows  *)
(* of the row it will write.                                               *)

Columns == {"name", "centre", "radius", "version", "mission", "created", "status",
            "assignee", "due"}

Flight ==
    [pc : {"save", "commit"}, op : {"create", "patch", "status"}, table : Tables,
     id : Ids, object : Row, base : Row \cup {None}, asked : SUBSET Columns,
     overtaken : SUBSET Columns]

RecordsTypes ==
    /\ db \in [Tables -> [Ids -> Row \cup {None}]]
    /\ \A table \in Tables, x \in Ids :
          db[table][x] # None => db[table][x] \in Rows(table)
    /\ req \in [Slots -> {Idle} \cup Flight]
    /\ writes \in Nat

\* What an edition will change of the row as it is: what it was asked to change
\* and, of what it read, what other requests have changed since.
ChangesOf(q, row) ==
    \A c \in DOMAIN row : q.object[c] # row[c] =>
        \/ c \in q.asked
        \/ c \in q.overtaken
        \/ c = "due" /\ row.due = None /\ q.object.status = "acknowledged"

KeepsVersion(q, row) ==
    q.table = "establishments" /\ q.overtaken \cap Geometry = {} =>
        \/ q.object.version = row.version + 1
        \/ /\ q.object.version = row.version /\ q.object.centre = row.centre
           /\ q.object.radius = row.radius

\* What it knows of the row that it read again.
KnowsBase(q, row) ==
    q.pc = "commit" =>
        /\ q.base \in Rows(q.table)
        /\ \A c \in DOMAIN row : q.base[c] # row[c] => c \in q.overtaken
        /\ q.op = "status" => \A c \in DOMAIN row : q.object[c] # q.base[c] => c = "status"

Knows(q) ==
    LET row == db[q.table][q.id]
    IN  /\ q.object \in Rows(q.table)
        /\ q.op = "status" => q.table = "exception_requests" /\ "status" \in q.asked
        /\ q.op = "create" => q.pc = "commit" /\ row = None
        /\ q.op # "create" =>
              row # None /\ ChangesOf(q, row) /\ KeepsVersion(q, row) /\ KnowsBase(q, row)

\* Two creations never have one id.
CreationsApart ==
    \A s, t \in Slots :
        /\ s # t /\ req[s].pc # "idle" /\ req[t].pc # "idle"
        /\ req[s].op = "create" /\ req[s].table = req[t].table
        => req[s].id # req[t].id

RecordsInv ==
    /\ RecordsTypes
    /\ \A s \in Slots : req[s].pc # "idle" => Knows(req[s])
    /\ CreationsApart

LEMMA InFlight ==
    ASSUME RecordsTypes, NEW s \in Slots
    PROVE  /\ req[s].pc # "idle" <=> req[s] \in Flight
           /\ req[s].pc = "idle" <=> req[s] = Idle
           /\ req[s].pc \in {"save", "commit"} <=> req[s] \in Flight
<1>1. req[s] \in {Idle} \cup Flight /\ Idle.pc = "idle"
  BY DEF RecordsTypes, Idle
<1>2. req[s] \in Flight => req[s].pc \in {"save", "commit"}
  BY DEF Flight
<1> QED BY <1>1, <1>2

LEMMA RecordsInit == Init => RecordsInv
<1> SUFFICES ASSUME Init PROVE RecordsInv
  OBVIOUS
<1>1. Idle.pc = "idle"
  BY DEF Idle
<1> QED BY <1>1 DEF Init, RecordsInv, RecordsTypes, CreationsApart

\* A request that begins, reading nothing else than the tables.
LEMMA BeginKeeps ==
    ASSUME RecordsInv, NEW s \in Slots, NEW q \in Flight, req[s].pc = "idle",
           req' = [req EXCEPT ![s] = q], db' = db, writes' \in Nat,
           Knows(q), q.op = "create" => q.id \in FreshIds(q.table)
    PROVE  RecordsInv'
<1>1. RecordsTypes'
  BY DEF RecordsInv, RecordsTypes
<1>2. /\ req'[s] = q
      /\ \A t \in Slots : t # s => req'[t] = req[t]
  BY DEF RecordsInv, RecordsTypes
<1>3. ASSUME NEW t \in Slots, req'[t].pc # "idle" PROVE Knows(req[t])'
  BY <1>2, <1>3 DEF RecordsInv, Knows
<1>4. ASSUME NEW t \in Slots, NEW u \in Slots, t # u, req'[t].pc # "idle",
             req'[u].pc # "idle", req'[t].op = "create", req'[t].table = req'[u].table
      PROVE  req'[t].id # req'[u].id
  <2>1. CASE t = s
    BY <1>2, <1>4, <2>1 DEF FreshIds
  <2>2. CASE u = s
    <3>1. req[t].op = "create" /\ req[t].table = q.table /\ req[t].pc # "idle"
      BY <1>2, <1>4, <2>2
    <3>2. db[req[t].table][req[t].id] = None
      BY <3>1 DEF RecordsInv, Knows
    <3>3. CASE q.op = "create"
      BY <1>2, <1>4, <2>2, <3>1, <3>3 DEF FreshIds
    <3>4. CASE q.op # "create"
      BY <1>2, <1>4, <2>2, <3>1, <3>2, <3>4 DEF Knows
    <3> QED BY <3>3, <3>4
  <2>3. CASE t # s /\ u # s
    BY <1>2, <1>4, <2>3 DEF RecordsInv, CreationsApart
  <2> QED BY <2>1, <2>2, <2>3
<1> QED BY <1>1, <1>3, <1>4 DEF RecordsInv, CreationsApart

\* What Begin puts in flight.
Begun(pc, op, table, x, object, asked) ==
    [pc |-> pc, op |-> op, table |-> table, id |-> x, object |-> object,
     base |-> None, asked |-> asked, overtaken |-> {}]

LEMMA BeginStep ==
    ASSUME RecordsInv, NEW s \in Slots, NEW pc \in {"save", "commit"},
           NEW op \in {"create", "patch", "status"}, NEW table \in Tables,
           NEW x \in Ids, NEW object \in Rows(table), NEW asked \in SUBSET Columns,
           Begin(s, pc, op, table, x, object, asked),
           Knows(Begun(pc, op, table, x, object, asked)),
           op = "create" => x \in FreshIds(table)
    PROVE  RecordsInv'
<1> DEFINE q == Begun(pc, op, table, x, object, asked)
<1>1. object \in Row
  BY DEF Rows, Row
<1>2. q \in Flight /\ q.op = op /\ q.id = x /\ q.table = table
  BY <1>1 DEF Flight, Begun
<1>3. /\ req' = [req EXCEPT ![s] = q] /\ db' = db /\ writes' \in Nat
      /\ req[s].pc = "idle"
  BY DEF Begin, Begun, RecordsInv, RecordsTypes
<1> HIDE DEF q
<1> QED BY <1>2, <1>3, BeginKeeps DEF q

\* The five operations.
LEMMA CreationsKeep ==
    ASSUME RecordsInv, NEW s \in Slots, NEW x \in Ids,
           \/ \E name \in Names, centre \in Centres, radius \in Radii :
                 CreateEstablishment(s, x, name, centre, radius)
           \/ \E mission \in MissionIds : CreateExceptionRequest(s, x, mission)
    PROVE  RecordsInv'
<1>1. ASSUME NEW name \in Names, NEW centre \in Centres, NEW radius \in Radii,
             CreateEstablishment(s, x, name, centre, radius)
      PROVE  RecordsInv'
  <2> DEFINE new == [name |-> name, centre |-> centre, radius |-> radius, version |-> 1]
  <2>1. new \in Rows("establishments")
    BY DEF Rows, Establishment
  <2>2. /\ x \in FreshIds("establishments")
        /\ Begin(s, "commit", "create", "establishments", x, new, {})
    BY <1>1 DEF CreateEstablishment
  <2> HIDE DEF new
  <2>3. db["establishments"][x] = None
    BY <2>2 DEF FreshIds, Stored
  <2>4. Knows(Begun("commit", "create", "establishments", x, new, {}))
    BY <2>1, <2>3 DEF Knows, Begun
  <2> QED BY <2>1, <2>2, <2>4, TablesApart, BeginStep
<1>2. ASSUME NEW mission \in MissionIds, CreateExceptionRequest(s, x, mission)
      PROVE  RecordsInv'
  <2> DEFINE new == [mission |-> mission, created |-> Now, status |-> "new",
                     assignee |-> None, due |-> None]
  <2>1. new \in Rows("exception_requests")
    BY <1>2 DEF CreateExceptionRequest, Rows, ExceptionRequest, ExceptionRequestStatus,
                Now, RecordsInv, RecordsTypes
  <2>2. /\ x \in FreshIds("exception_requests")
        /\ Begin(s, "commit", "create", "exception_requests", x, new, {})
    BY <1>2 DEF CreateExceptionRequest
  <2> HIDE DEF new
  <2>3. db["exception_requests"][x] = None
    BY <2>2 DEF FreshIds, Stored
  <2>4. Knows(Begun("commit", "create", "exception_requests", x, new, {}))
    BY <2>1, <2>3 DEF Knows, Begun
  <2> QED BY <2>1, <2>2, <2>4, TablesApart, BeginStep
<1> QED BY <1>1, <1>2

LEMMA UpdateEstablishmentKeeps ==
    ASSUME RecordsInv, NEW s \in Slots, NEW x \in Ids,
           NEW body \in UpdateEstablishmentBody, UpdateEstablishment(s, x, body)
    PROVE  RecordsInv'
<1> DEFINE row == db["establishments"][x]
           est == Edited(row, body)
           new == IF GeoChanged(body) THEN [est EXCEPT !.version = @ + 1] ELSE est
           asked == Provided(body) \cup IF GeoChanged(body) THEN {"version"} ELSE {}
<1>1. row # None /\ Begin(s, "save", "patch", "establishments", x, new, asked)
  BY DEF UpdateEstablishment, Stored
<1>2. row \in Establishment
  BY <1>1, TablesApart DEF RecordsInv, RecordsTypes, Rows
<1>3. /\ est \in Establishment /\ est.version = row.version
      /\ ~GeoChanged(body) => est.centre = row.centre /\ est.radius = row.radius
      /\ \A c \in DOMAIN row : c \notin Provided(body) => est[c] = row[c]
  BY <1>2, EditedEstablishment
<1>4. asked \in SUBSET Columns
  BY DEF Provided, UpdateEstablishmentBody, Columns
<1>5. /\ new \in Establishment
      /\ GeoChanged(body) => new.version = row.version + 1
      /\ \A c \in DOMAIN row : c # "version" => new[c] = est[c]
  <2> HIDE DEF est
  <2>1. CASE GeoChanged(body)
    BY <1>2, <1>3, <2>1 DEF Establishment
  <2>2. CASE ~GeoChanged(body)
    BY <1>3, <2>2
  <2> QED BY <2>1, <2>2
<1>6. /\ \A c \in DOMAIN row : new[c] # row[c] => c \in asked
      /\ ~GeoChanged(body) => /\ new.version = row.version /\ new.centre = row.centre
                              /\ new.radius = row.radius
  <2> HIDE DEF est
  <2> QED BY <1>2, <1>3, <1>5
<1> HIDE DEF new, asked, est
<1> DEFINE q == Begun("save", "patch", "establishments", x, new, asked)
<1>7. Knows(q)
  <2>1. ChangesOf(q, row) /\ KnowsBase(q, row)
    BY <1>6 DEF Begun, ChangesOf, KnowsBase
  <2>2. KeepsVersion(q, row)
    BY <1>5, <1>6 DEF Begun, KeepsVersion
  <2> QED BY <1>1, <1>5, <2>1, <2>2 DEF Knows, Begun, Rows
<1>8. new \in Rows("establishments")
  BY <1>5 DEF Rows
<1> QED BY <1>1, <1>4, <1>7, <1>8, TablesApart, BeginStep

LEMMA EditExceptionKeeps ==
    ASSUME RecordsInv, NEW s \in Slots, NEW x \in Ids,
           \/ \E status \in ExceptionRequestStatus : UpdateExceptionStatus(s, x, status)
           \/ \E body \in PatchExceptionBody : PatchExceptionRequest(s, x, body)
    PROVE  RecordsInv'
<1> DEFINE row == db["exception_requests"][x]
<1>1. row # None
  BY DEF UpdateExceptionStatus, PatchExceptionRequest, Stored
<1>2. row \in ExceptionRequest
  BY <1>1, TablesApart DEF RecordsInv, RecordsTypes, Rows
<1>3. ASSUME NEW status \in ExceptionRequestStatus, UpdateExceptionStatus(s, x, status)
      PROVE  RecordsInv'
  <2> DEFINE new == [row EXCEPT !.status = status]
  <2>1. Begin(s, "save", "status", "exception_requests", x, new, {"status"})
    BY <1>3 DEF UpdateExceptionStatus
  <2>2. /\ new \in ExceptionRequest
        /\ \A c \in DOMAIN row : new[c] # row[c] => c = "status"
    BY <1>2 DEF ExceptionRequest
  <2> HIDE DEF new
  <2>3. Knows(Begun("save", "status", "exception_requests", x, new, {"status"}))
    BY <1>1, <2>2 DEF Knows, Begun, ChangesOf, KeepsVersion, KnowsBase, Rows
  <2>4. new \in Rows("exception_requests") /\ {"status"} \in SUBSET Columns
    BY <2>2 DEF Rows, Columns
  <2> QED BY <2>1, <2>3, <2>4, TablesApart, BeginStep
<1>4. ASSUME NEW body \in PatchExceptionBody, PatchExceptionRequest(s, x, body)
      PROVE  RecordsInv'
  <2> DEFINE exc == Edited(row, body)
             new == IF SetsDefaultDue(row, body) THEN [exc EXCEPT !.due = "default"] ELSE exc
  <2>1. Begin(s, "save", "patch", "exception_requests", x, new, Provided(body))
    BY <1>4 DEF PatchExceptionRequest
  <2>2. /\ exc \in ExceptionRequest /\ new \in ExceptionRequest
        /\ \A c \in DOMAIN row : c \notin Provided(body) => exc[c] = row[c]
        /\ SetsDefaultDue(row, body) => exc.status = "acknowledged" /\ row.due = None
    BY <1>2, EditedException
  <2>3. ASSUME NEW c \in DOMAIN row, new[c] # row[c]
        PROVE  \/ c \in Provided(body)
               \/ c = "due" /\ row.due = None /\ new.status = "acknowledged"
    <3> HIDE DEF exc
    <3>1. CASE SetsDefaultDue(row, body)
      <4>1. new.status = "acknowledged" /\ (c # "due" => new[c] = exc[c])
        BY <1>2, <2>2, <3>1 DEF ExceptionRequest
      <4> HIDE DEF new
      <4> QED BY <2>2, <2>3, <3>1, <4>1
    <3>2. CASE ~SetsDefaultDue(row, body)
      BY <2>2, <2>3, <3>2
    <3> QED BY <3>1, <3>2
  <2> HIDE DEF new, exc
  <2>4. Knows(Begun("save", "patch", "exception_requests", x, new, Provided(body)))
    BY <1>1, <2>2, <2>3 DEF Knows, Begun, ChangesOf, KeepsVersion, KnowsBase, Rows
  <2>5. new \in Rows("exception_requests") /\ Provided(body) \in SUBSET Columns
    BY <2>2 DEF Rows, Columns, Provided, PatchExceptionBody
  <2> QED BY <2>1, <2>4, <2>5, TablesApart, BeginStep
<1> QED BY <1>3, <1>4

\* Reading the row again: nobody overlapped a request that reads what it read.
LEMMA SaveKeeps ==
    ASSUME RecordsInv, NEW s \in Slots, Save(s)
    PROVE  RecordsInv'
<1> DEFINE q == req[s]
           row == db[q.table][q.id]
           new == [q EXCEPT !.pc = "commit", !.base = row, !.object = Assigned(q, row)]
<1>1. RecordsTypes /\ q \in Flight /\ Knows(q) /\ q.pc = "save"
  BY InFlight DEF RecordsInv, Save
<1>2. /\ row # None /\ row \in Rows(q.table) /\ q.object \in Rows(q.table)
      /\ q.op # "create" /\ q.table \in Tables /\ q.id \in Ids
  BY <1>1 DEF Knows, Flight, RecordsTypes
<1>3. Assigned(q, row) \in Rows(q.table)
  <2>1. CASE q.op = "status"
    <3>1. row \in ExceptionRequest /\ q.object \in ExceptionRequest
      BY <1>1, <1>2, <2>1 DEF Knows, Rows
    <3>2. [row EXCEPT !.status = q.object.status] \in ExceptionRequest
      BY <3>1 DEF ExceptionRequest
    <3> QED BY <1>1, <2>1, <3>2 DEF Assigned, Knows, Rows
  <2>2. CASE q.op # "status"
    BY <1>2, <2>2 DEF Assigned
  <2> QED BY <2>1, <2>2
<1>4. /\ new \in Flight /\ new.pc = "commit" /\ new.base = row
      /\ new.object = Assigned(q, row) /\ new.table = q.table /\ new.id = q.id
      /\ new.op = q.op /\ new.overtaken = q.overtaken /\ new.asked = q.asked
  <2>1. row \in Row /\ Assigned(q, row) \in Row
    BY <1>2, <1>3 DEF Rows, Row
  <2> HIDE DEF row
  <2> QED BY <1>1, <2>1 DEF Flight
<1>5. req' = [req EXCEPT ![s] = new] /\ UNCHANGED <<db, writes>>
  BY DEF Save
<1> HIDE DEF new
<1>6. ChangesOf(new, row) /\ KeepsVersion(new, row) /\ KnowsBase(new, row)
  <2>1. ChangesOf(q, row) /\ KeepsVersion(q, row)
    BY <1>1, <1>2 DEF Knows
  <2>2. CASE q.op = "status"
    <3>1. row \in ExceptionRequest /\ q.table # "establishments" /\ "status" \in q.asked
      BY <1>1, <1>2, <2>2 DEF Knows, Rows
    <3>2. new.object = [row EXCEPT !.status = q.object.status]
      BY <1>4, <2>2 DEF Assigned
    <3>3. \A c \in DOMAIN row : new.object[c] # row[c] => c = "status"
      BY <3>1, <3>2 DEF ExceptionRequest
    <3> QED BY <1>2, <1>4, <3>1, <3>3 DEF ChangesOf, KeepsVersion, KnowsBase
  <2>3. CASE q.op # "status"
    BY <1>2, <1>4, <2>1, <2>3 DEF ChangesOf, KeepsVersion, KnowsBase, Assigned
  <2> QED BY <2>2, <2>3
<1>7. Knows(new)
  BY <1>1, <1>2, <1>3, <1>4, <1>6 DEF Knows
<1>8. /\ req'[s] = new /\ \A t \in Slots : t # s => req'[t] = req[t]
      /\ RecordsTypes'
  BY <1>1, <1>4, <1>5 DEF RecordsTypes
<1>9. \A t \in Slots : req'[t].pc # "idle" => Knows(req'[t])
  BY <1>7, <1>8 DEF RecordsInv
<1>10. \A t \in Slots : req'[t].pc # "idle" =>
          /\ req[t].pc # "idle" /\ req'[t].op = req[t].op /\ req'[t].table = req[t].table
          /\ req'[t].id = req[t].id
  BY <1>1, <1>4, <1>8
<1>11. \A t \in Slots : Knows(req'[t]) => Knows(req[t])'
  BY <1>5 DEF Knows
<1> QED BY <1>8, <1>9, <1>10, <1>11 DEF RecordsInv, CreationsApart

\* What a commit writes: a row of its table that differs from the one it
\* replaces where it was asked, and where it undoes what other requests did.
LEMMA CommitWrites ==
    ASSUME RecordsInv, NEW s \in Slots, Commit(s)
    PROVE  LET q == req[s]
               row == db[q.table][q.id]
           IN  /\ q \in Flight /\ Knows(q) /\ q.pc = "commit"
               /\ Written(q) \in Rows(q.table) /\ Written(q) # None
               /\ db'[q.table][q.id] = Written(q)
               /\ \A table \in Tables, x \in Ids :
                     table # q.table \/ x # q.id => db'[table][x] = db[table][x]
               /\ q.op = "create" => row = None /\ Written(q) = q.object
               /\ q.op # "create" => row \in Rows(q.table) /\ Written(q) = Merge(row, q)
               /\ db' \in [Tables -> [Ids -> Row \cup {None}]]
<1> DEFINE q == req[s]
           row == db[q.table][q.id]
<1>1. RecordsTypes /\ q \in Flight /\ Knows(q) /\ q.pc = "commit"
  BY InFlight DEF RecordsInv, Commit
<1>2. /\ q.object \in Rows(q.table) /\ q.table \in Tables /\ q.id \in Ids
      /\ row # None => row \in Rows(q.table)
  BY <1>1 DEF Knows, Flight, RecordsTypes
<1>3. q.op = "create" => row = None /\ Written(q) = q.object
  BY <1>1 DEF Written, Knows
<1>4. q.op # "create" => row \in Rows(q.table) /\ Written(q) = Merge(row, q)
  BY <1>1, <1>2 DEF Written, Knows
<1>5. q.op # "create" => Written(q) \in Rows(q.table)
  BY <1>2, <1>4, MergeEstablishment, MergeException DEF Rows
<1>6. Written(q) \in Rows(q.table) /\ Written(q) \in Row /\ Written(q) # None
  <2>1. Written(q) \in Rows(q.table)
    BY <1>2, <1>3, <1>5
  <2> QED BY <2>1, RecordsAssumption DEF Rows, Row
<1>7. /\ db' = [db EXCEPT ![q.table][q.id] = Written(q)]
      /\ db \in [Tables -> [Ids -> Row \cup {None}]]
  BY <1>1 DEF Commit, RecordsTypes
<1>8. /\ db'[q.table][q.id] = Written(q)
      /\ \A table \in Tables, x \in Ids :
            table # q.table \/ x # q.id => db'[table][x] = db[table][x]
      /\ db' \in [Tables -> [Ids -> Row \cup {None}]]
  BY <1>2, <1>6, <1>7
<1> QED BY <1>1, <1>3, <1>4, <1>6, <1>8

LEMMA CommitKeeps ==
    ASSUME RecordsInv, NEW s \in Slots, Commit(s)
    PROVE  RecordsInv'
<1> DEFINE q == req[s]
           row == db[q.table][q.id]
           Meets(t) == req[t].pc # "idle" /\ req[t].table = q.table /\ req[t].id = q.id
           altered == Altered(row, Written(q))
<1>1. /\ RecordsTypes /\ q \in Flight /\ q.table \in Tables /\ q.id \in Ids
      /\ Knows(q) /\ q.pc = "commit" /\ db'[q.table][q.id] = Written(q)
      /\ Written(q) \in Rows(q.table)
      /\ row # None => row \in Rows(q.table)
  BY CommitWrites DEF RecordsInv, RecordsTypes, Flight
<1>2. /\ req'[s] = Idle
      /\ \A t \in Slots : t # s =>
            req'[t] = IF Meets(t) THEN [req[t] EXCEPT !.overtaken = @ \cup altered]
                      ELSE req[t]
  BY DEF Commit
<1> HIDE DEF altered
<1>3. ASSUME NEW t \in Slots, t # s, Meets(t)
      PROVE  /\ req'[t] \in Flight /\ req'[t].pc = req[t].pc /\ row \in Rows(q.table)
             /\ req'[t].overtaken = req[t].overtaken \cup altered
             /\ req'[t].asked = req[t].asked
             /\ req'[t].op = req[t].op /\ req'[t].table = req[t].table
             /\ req'[t].id = req[t].id /\ req'[t].object = req[t].object
             /\ req'[t].base = req[t].base
  <2>1. req[t] \in Flight
    BY <1>1, <1>3, InFlight
  <2>2. req'[t] = [req[t] EXCEPT !.overtaken = @ \cup altered]
    BY <1>2, <1>3
  <2>3. row # None
    \* Two creations never have one id.
    <3>1. q.op = "create" => req[t].op # "create"
      BY <1>1, <1>3 DEF RecordsInv, CreationsApart
    <3> QED BY <1>1, <1>3, <3>1 DEF RecordsInv, Knows
  <2>4. altered \in SUBSET Columns
    <3>1. row \in Establishment \/ row \in ExceptionRequest
      BY <1>1, <2>3 DEF Rows
    <3>2. DOMAIN row \in SUBSET Columns
      BY <3>1 DEF Establishment, ExceptionRequest, Columns
    <3>3. altered \subseteq DOMAIN row
      BY DEF altered, Altered
    <3> QED BY <3>2, <3>3
  <2>5. req[t].overtaken \cup altered \in SUBSET Columns
    BY <2>1, <2>4 DEF Flight
  <2>6. row \in Rows(q.table)
    BY <1>1, <2>3
  <2> HIDE DEF row
  <2> QED BY <2>1, <2>2, <2>5, <2>6 DEF Flight
<1>4. RecordsTypes'
  <2>1. req' \in [Slots -> {Idle} \cup Flight]
    BY <1>1, <1>2, <1>3 DEF Commit, RecordsTypes
  <2>2. \A table \in Tables, x \in Ids : db'[table][x] # None => db'[table][x] \in Rows(table)
    BY <1>1, CommitWrites DEF RecordsTypes
  <2> QED BY <1>1, <2>1, <2>2, CommitWrites DEF RecordsTypes, Commit
<1>5. ASSUME NEW t \in Slots, req'[t].pc # "idle" PROVE Knows(req[t])'
  <2>1. t # s /\ Idle.pc = "idle"
    BY <1>2, <1>5 DEF Idle
  <2>2. CASE ~Meets(t)
    <3>1. req'[t] = req[t] /\ req[t].pc # "idle"
      BY <1>2, <1>5, <2>1, <2>2
    <3>2. req[t].table \in Tables /\ req[t].id \in Ids
      BY <1>1, <3>1, InFlight DEF Flight
    <3>3. db'[req[t].table][req[t].id] = db[req[t].table][req[t].id]
      BY <2>2, <3>1, <3>2, CommitWrites
    <3> QED BY <3>1, <3>3 DEF RecordsInv, Knows
  <2>3. CASE Meets(t)
    <3>1. Knows(req[t])
      BY <2>3 DEF RecordsInv
    <3>2. req[t].op # "create"
      \* Its row would be new, and so would the row of the commit.
      <4>1. CASE q.op = "create"
        BY <1>1, <2>1, <2>3, <4>1 DEF RecordsInv, CreationsApart
      <4>2. CASE q.op # "create"
        BY <1>1, <2>3, <3>1, <4>2 DEF Knows
      <4> QED BY <4>1, <4>2
    <3> DEFINE r == req[t]
               v == req'[t]
               new == Written(q)
    <3>3. /\ new # None /\ db'[v.table][v.id] = new /\ row \in Rows(q.table)
          /\ v.table = q.table /\ v.id = q.id /\ v.op = r.op /\ v.pc = r.pc
          /\ v.object = r.object /\ v.base = r.base /\ v.asked = r.asked
          /\ v.overtaken = r.overtaken \cup altered
      BY <1>1, <1>3, <2>1, <2>3, CommitWrites
    <3>4. /\ r.table = q.table /\ r.id = q.id /\ r.op # "create"
          /\ ChangesOf(r, row) /\ KeepsVersion(r, row) /\ KnowsBase(r, row)
      BY <2>3, <3>1, <3>2 DEF Knows
    <3> HIDE DEF r, v, row, new
    <3>5. DOMAIN new = DOMAIN row /\ \A c \in DOMAIN row : c \notin altered => new[c] = row[c]
      <4>1. new \in Rows(q.table)
        BY <1>1 DEF new
      <4>2. altered = {c \in DOMAIN row : new[c] # row[c]}
        BY DEF altered, Altered, row, new
      <4>3. DOMAIN new = DOMAIN row
        BY <3>3, <4>1 DEF Rows, Establishment, ExceptionRequest
      <4> QED BY <4>2, <4>3
    <3>6. ChangesOf(v, new)
      BY <3>3, <3>4, <3>5 DEF ChangesOf
    <3>7. KeepsVersion(v, new)
      <4> SUFFICES ASSUME q.table = "establishments", v.overtaken \cap Geometry = {}
                   PROVE  /\ new.version = row.version /\ new.centre = row.centre
                          /\ new.radius = row.radius /\ r.overtaken \cap Geometry = {}
        BY <3>3, <3>4 DEF KeepsVersion
      <4>1. Geometry \subseteq DOMAIN row
        BY <3>3 DEF Rows, Establishment, Geometry
      <4> QED BY <3>3, <3>5, <4>1 DEF Geometry
    <3>8. KnowsBase(v, new)
      BY <3>3, <3>4, <3>5 DEF KnowsBase
    <3>9. /\ v.object \in Rows(v.table)
          /\ (v.op = "status" => v.table = "exception_requests" /\ "status" \in v.asked)
      BY <3>1, <3>3, <3>4 DEF Knows, r
    <3> QED BY <3>3, <3>4, <3>6, <3>7, <3>8, <3>9 DEF Knows, v
  <2> QED BY <2>2, <2>3
<1>6. ASSUME NEW t \in Slots, req'[t].pc # "idle"
      PROVE  /\ req[t].pc # "idle" /\ req'[t].op = req[t].op
             /\ req'[t].table = req[t].table /\ req'[t].id = req[t].id
  <2>1. t # s
    BY <1>2, <1>6 DEF Idle
  <2>2. CASE Meets(t)
    BY <1>3, <2>1, <2>2
  <2>3. CASE ~Meets(t)
    BY <1>2, <1>6, <2>1, <2>3
  <2> QED BY <2>2, <2>3
<1> QED BY <1>4, <1>5, <1>6 DEF RecordsInv, CreationsApart

LEMMA RollBackKeeps ==
    ASSUME RecordsInv, NEW s \in Slots, RollBack(s)
    PROVE  RecordsInv'
<1>1. /\ req'[s] = Idle /\ \A t \in Slots : t # s => req'[t] = req[t]
      /\ RecordsTypes' /\ db' = db /\ Idle.pc = "idle"
  BY DEF RollBack, RecordsInv, RecordsTypes, Idle
<1> QED BY <1>1 DEF RecordsInv, CreationsApart, Knows

\* Reading a list page by page changes neither the tables nor the requests.
LEMMA OthersKeep ==
    ASSUME RecordsInv, UNCHANGED <<db, req, writes>>
    PROVE  RecordsInv'
BY DEF RecordsInv, RecordsTypes, Knows, CreationsApart

LEMMA RecordsStep == RecordsInv /\ [Next]_vars => RecordsInv'
<1> SUFFICES ASSUME RecordsInv, [Next]_vars PROVE RecordsInv'
  OBVIOUS
<1>1. CASE \/ \E table \in Tables, mission \in Missions \cup {None},
                 status \in ExceptionRequestStatus \cup {None} :
                    StartWalk(table, mission, status)
           \/ Count \/ FetchPage \/ UNCHANGED vars
  BY <1>1, OthersKeep DEF StartWalk, Count, FetchPage, vars
<1> QED BY <1>1, CreationsKeep, UpdateEstablishmentKeeps, EditExceptionKeeps,
           SaveKeeps, CommitKeeps, RollBackKeeps DEF Next

LEMMA RecordsInvariant == Spec => []RecordsInv
BY RecordsInit, RecordsStep, PTL DEF Spec

\* Only a commit changes a row, an audit entry or the histories.
LEMMA OnlyCommitWrites ==
    ASSUME [Next]_vars
    PROVE  \/ UNCHANGED <<db, audit, shapes, blurred>>
           \/ \E s \in Slots : Commit(s)
<1>1. CASE \E s \in Slots, x \in Ids :
              \/ \E name \in Names, centre \in Centres, radius \in Radii :
                    CreateEstablishment(s, x, name, centre, radius)
              \/ \E body \in UpdateEstablishmentBody : UpdateEstablishment(s, x, body)
              \/ \E mission \in MissionIds : CreateExceptionRequest(s, x, mission)
              \/ \E status \in ExceptionRequestStatus : UpdateExceptionStatus(s, x, status)
              \/ \E body \in PatchExceptionBody : PatchExceptionRequest(s, x, body)
  BY <1>1 DEF CreateEstablishment, UpdateEstablishment, CreateExceptionRequest,
              UpdateExceptionStatus, PatchExceptionRequest, Begin
<1>2. CASE \/ \E table \in Tables, mission \in Missions \cup {None},
                 status \in ExceptionRequestStatus \cup {None} :
                    StartWalk(table, mission, status)
           \/ Count \/ FetchPage \/ UNCHANGED vars
  BY <1>2 DEF StartWalk, Count, FetchPage, vars
<1>3. CASE \E s \in Slots : Save(s) \/ RollBack(s)
  BY <1>3 DEF Save, RollBack
<1> QED BY <1>1, <1>2, <1>3 DEF Next

\* The request whose commit is seen is the one that commits.
LEMMA Committer ==
    ASSUME RecordsInv, NEW s \in Slots, NEW t \in Slots, Commit(t),
           req[s].pc = "commit", req'[s].pc = "idle"
    PROVE  s = t
<1> SUFFICES ASSUME s # t PROVE FALSE
  OBVIOUS
<1>1. req[s] \in Flight
  BY InFlight DEF RecordsInv
<1>2. req'[s] = req[s] \/ \E more : req'[s] = [req[s] EXCEPT !.overtaken = more]
  BY DEF Commit
<1>3. req'[s].pc = req[s].pc
  BY <1>1, <1>2 DEF Flight
<1> QED BY <1>3

-----------------------------------------------------------------------------
(* The theorems *)

\* Whatever overlaps, a request changes no column but those it was asked to
\* change and those that other requests changed since it read the row, although
\* it saves the whole row: by the route of the status, only the status.  The date
\* of a request that it acknowledges is set only where there was none
\* (exception_requests.py:258).
THEOREM EditionsAreNarrow == Spec => OnlyWhatWasAsked
<1> DEFINE Narrow(s) ==
        LET q == req[s]
            old == db[q.table][q.id]
            new == db'[q.table][q.id]
        IN  old # None => \A c \in DOMAIN old :
                new[c] # old[c] =>
                    \/ c \in q.asked
                    \/ c \in q.overtaken /\ q.op # "status"
                    \/ c = "due" /\ old.due = None /\ q.object.status = "acknowledged"
<1>1. RecordsInv /\ [Next]_vars => [\A s \in Slots : Commits(s) => Narrow(s)]_vars
  <2> SUFFICES ASSUME RecordsInv, Next, NEW s \in Slots, Commits(s)
               PROVE  Narrow(s)
    BY DEF vars
  <2>1. PICK t \in Slots : Commit(t)
    BY OnlyCommitWrites DEF Commits
  <2>2. s = t
    BY <2>1, Committer DEF Commits
  <2>3. Commit(s)
    BY <2>1, <2>2
  <2> DEFINE q == req[s]
             row == db[q.table][q.id]
  <2>4. /\ db'[q.table][q.id] = Written(q) /\ q.pc = "commit" /\ Knows(q)
        /\ q.op = "create" => row = None
        /\ q.op # "create" => Written(q) = Merge(row, q)
    BY <2>3, CommitWrites
  <2> SUFFICES ASSUME row # None, NEW c \in DOMAIN row, Written(q)[c] # row[c]
               PROVE  \/ c \in q.asked
                      \/ c \in q.overtaken /\ q.op # "status"
                      \/ c = "due" /\ row.due = None /\ q.object.status = "acknowledged"
    BY <2>4
  <2>5. q.object[c] # q.base[c] /\ q.object[c] # row[c]
    BY <2>4 DEF Merge
  <2>6. CASE q.op = "status"
    BY <2>4, <2>5, <2>6 DEF Knows, KnowsBase
  <2>7. CASE q.op # "status"
    BY <2>4, <2>5, <2>7 DEF Knows, ChangesOf
  <2> QED BY <2>6, <2>7
<1> QED BY <1>1, RecordsInvariant, PTL DEF Spec, OnlyWhatWasAsked

\* The audit entry of an edition tells the status that it leaves, although the
\* edition may restore what it read before another one, unless another was
\* committed after the second read (exception_requests.py:264).
THEOREM AuditIsTrue == Spec => AuditTellsTheStatus
<1>1. RecordsInv /\ [Next]_vars =>
        [\A s \in Slots :
          /\ req[s].pc = "commit" /\ req'[s].pc = "idle" /\ audit' # audit
          /\ req[s].base = db[req[s].table][req[s].id]
          => \E entry \in audit' \ audit :
                entry.id = req[s].id /\ db'[req[s].table][entry.id].status = entry.status]_vars
  <2> SUFFICES ASSUME RecordsInv, Next, NEW s \in Slots,
                      req[s].pc = "commit", req'[s].pc = "idle", audit' # audit,
                      req[s].base = db[req[s].table][req[s].id]
               PROVE  \E entry \in audit' \ audit :
                         /\ entry.id = req[s].id
                         /\ db'[req[s].table][entry.id].status = entry.status
    BY DEF vars
  <2> DEFINE q == req[s]
             row == db[q.table][q.id]
  <2>1. PICK t \in Slots : Commit(t)
    BY OnlyCommitWrites
  <2>2. Commit(s)
    BY <2>1, Committer
  <2>3. Audits(q) /\ audit' = audit \cup {AuditEntry(q)} /\ AuditEntry(q) \notin audit
    BY <2>2 DEF Commit
  <2>4. /\ q \in Flight /\ Knows(q) /\ db'[q.table][q.id] = Written(q)
        /\ q.op = "patch" /\ q.table = "exception_requests"
    BY <2>2, <2>3, CommitWrites DEF Audits
  <2>5. row \in ExceptionRequest /\ q.object \in ExceptionRequest
    BY <2>4 DEF Knows, RecordsInv, RecordsTypes, Flight, Rows
  <2>6. Written(q) = q.object
    BY <2>4, <2>5, MergeFresh DEF Written
  <2>7. AuditEntry(q).id = q.id /\ AuditEntry(q).status = q.object.status
    BY DEF AuditEntry
  <2> QED BY <2>3, <2>4, <2>6, <2>7
<1> QED BY <1>1, RecordsInvariant, PTL DEF Spec, AuditTellsTheStatus

\* Versions only grow while no edition saves over a geometry it has not read,
\* and the geometry of the stored version is in the history: what makes
\* OneGeometryPerVersion last.
ShapeOf(x, est) ==
    [id |-> x, version |-> est.version, centre |-> est.centre, radius |-> est.radius]

ShapesInv ==
    /\ RecordsInv
    /\ OneGeometryPerVersion
    /\ \A a \in shapes :
          /\ a.id \in Ids /\ a.version \in Nat
          /\ db["establishments"][a.id] # None
          /\ a.id \notin blurred => a.version <= db["establishments"][a.id].version
    /\ \A x \in Ids \ blurred : db["establishments"][x] # None =>
          ShapeOf(x, db["establishments"][x]) \in shapes

\* Either the next version or the geometry as it is.
NextVersion(old, new) ==
    \/ new.version = old.version + 1
    \/ /\ new.version = old.version /\ new.centre = old.centre /\ new.radius = old.radius

\* A request that read the geometry it replaces writes the one it computed.
LEMMA FreshGeometry ==
    ASSUME RecordsInv, NEW s \in Slots, Commit(s), req[s].table = "establishments",
           req[s].op # "create", req[s].overtaken \cap Geometry = {}
    PROVE  LET old == db["establishments"][req[s].id]
           IN  old \in Establishment /\ old # None /\ NextVersion(old, Written(req[s]))
<1> DEFINE q == req[s]
           old == db["establishments"][q.id]
           new == Written(q)
<1>1. /\ Knows(q) /\ q.pc = "commit" /\ old \in Establishment /\ new = Merge(old, q)
      /\ old # None
  BY CommitWrites DEF Rows, Knows
<1>2. KeepsVersion(q, old) /\ KnowsBase(q, old)
  BY <1>1 DEF Knows
<1>3. \A c \in Geometry : c \in DOMAIN old /\ q.base[c] = old[c]
  BY <1>1, <1>2 DEF KnowsBase, Geometry, Establishment
<1>4. \A c \in Geometry : new[c] = q.object[c]
  BY <1>1, <1>3 DEF Merge
<1> HIDE DEF old, new
<1> QED BY <1>1, <1>2, <1>4 DEF KeepsVersion, NextVersion, Geometry, old, new

LEMMA ShapesCommit ==
    ASSUME ShapesInv, NEW s \in Slots, Commit(s), req[s].table = "establishments"
    PROVE  ShapesInv'
<1> DEFINE q == req[s]
           x == q.id
           old == db["establishments"][x]
           row == Written(q)
           shape == ShapeOf(x, row)
           blurs == q.overtaken \cap Geometry # {}
<1>1. /\ RecordsInv /\ RecordsInv' /\ q \in Flight /\ x \in Ids /\ Knows(q)
      /\ row \in Establishment /\ db'["establishments"][x] = row /\ row # None
      /\ \A y \in Ids : y # x => db'["establishments"][y] = db["establishments"][y]
  BY CommitWrites, CommitKeeps, TablesApart DEF ShapesInv, Rows, Flight
<1>2. /\ shapes' = shapes \cup {shape}
      /\ blurred' = blurred \cup IF blurs THEN {x} ELSE {}
  BY DEF Commit, ShapeOf
<1>3. /\ shape.id = x /\ shape.version = row.version /\ shape.centre = row.centre
      /\ shape.radius = row.radius /\ row.version \in Nat
  BY <1>1 DEF ShapeOf, Establishment
<1>4. CASE q.op # "create" /\ blurs
  <2>1. x \in blurred' /\ old # None
    BY <1>1, <1>2, <1>4 DEF Knows
  <2>2. OneGeometryPerVersion'
    BY <1>2, <1>3, <2>1 DEF ShapesInv, OneGeometryPerVersion
  <2>3. \A a \in shapes' :
          /\ a.id \in Ids /\ a.version \in Nat
          /\ db'["establishments"][a.id] # None
          /\ a.id \notin blurred' => a.version <= db'["establishments"][a.id].version
    BY <1>1, <1>2, <1>3, <2>1 DEF ShapesInv
  <2>4. \A y \in Ids \ blurred' : db'["establishments"][y] # None =>
          ShapeOf(y, db'["establishments"][y]) \in shapes'
    BY <1>1, <1>2, <2>1 DEF ShapesInv
  <2> HIDE DEF shape, row
  <2> QED BY <1>1, <2>2, <2>3, <2>4 DEF ShapesInv, ShapeOf
<1>5. CASE q.op = "create" \/ ~blurs
  \* The shape written is the first, the one stored, or one of a new version.
  <2>1. \/ \A a \in shapes : a.id # x
        \/ x \in blurred
        \/ shape \in shapes
        \/ \A a \in shapes : a.id = x => a.version < row.version
    <3>1. CASE q.op = "create"
      BY <1>1, <3>1 DEF Knows, ShapesInv
    <3>2. CASE q.op # "create" /\ ~blurs /\ x \notin blurred
      <4>1. old \in Establishment /\ old # None /\ NextVersion(old, row)
        BY <1>1, <3>2, FreshGeometry
      <4>2. ShapeOf(x, old) \in shapes
        BY <1>1, <3>2, <4>1 DEF ShapesInv
      <4>3. CASE row.version = old.version + 1
        <5>1. \A a \in shapes : a.id = x => a.version \in Nat /\ a.version <= old.version
          BY <3>2 DEF ShapesInv
        <5>2. old.version \in Nat
          BY <4>1 DEF Establishment
        <5> QED BY <4>3, <5>1, <5>2
      <4>4. CASE /\ row.version = old.version /\ row.centre = old.centre
                 /\ row.radius = old.radius
        BY <4>2, <4>4 DEF ShapeOf
      <4> QED BY <4>1, <4>3, <4>4 DEF NextVersion
    <3> QED BY <1>5, <3>1, <3>2
  <2>2. x \notin blurred /\ shape \notin shapes =>
           \A a \in shapes : a.id = x => a.version < row.version
    BY <2>1
  <2>3. \A a \in shapes : a.id = x /\ x \notin blurred => a.version <= row.version
    <3>1. CASE shape \in shapes /\ q.op = "create"
      BY <1>1, <1>3, <3>1 DEF ShapesInv, Knows
    <3>2. CASE shape \notin shapes
      BY <1>3, <2>2, <3>2 DEF ShapesInv
    <3>3. CASE q.op # "create" /\ ~blurs
      <4>1. old \in Establishment /\ NextVersion(old, row)
        BY <1>1, <3>3, FreshGeometry
      <4>2. old.version \in Nat /\ row.version \in {old.version, old.version + 1}
        BY <4>1 DEF NextVersion, Establishment
      <4>3. \A a \in shapes : a.id = x /\ x \notin blurred =>
               a.version \in Nat /\ a.version <= old.version
        BY DEF ShapesInv
      <4> QED BY <4>2, <4>3
    <3> QED BY <1>5, <3>1, <3>2, <3>3
  <2>4. OneGeometryPerVersion'
    <3> SUFFICES ASSUME NEW a \in shapes', NEW b \in shapes', a.id = b.id,
                        a.version = b.version, a.id \notin blurred'
                 PROVE  a = b
      BY DEF OneGeometryPerVersion
    <3>1. a.id \notin blurred
      BY <1>2
    <3>2. CASE a \in shapes /\ b \in shapes
      BY <3>1, <3>2 DEF ShapesInv, OneGeometryPerVersion
    <3>3. CASE shape \notin shapes /\ a = shape /\ b \in shapes
      BY <1>3, <2>2, <3>1, <3>3 DEF ShapesInv
    <3>4. CASE shape \notin shapes /\ b = shape /\ a \in shapes
      BY <1>3, <2>2, <3>1, <3>4 DEF ShapesInv
    <3> HIDE DEF shape
    <3> QED BY <1>2, <3>2, <3>3, <3>4
  <2>5. \A a \in shapes' :
          /\ a.id \in Ids /\ a.version \in Nat
          /\ db'["establishments"][a.id] # None
          /\ a.id \notin blurred' => a.version <= db'["establishments"][a.id].version
    <3>1. TAKE a \in shapes'
    <3>2. CASE a = shape
      BY <1>1, <1>3, <3>2
    <3>3. CASE a \in shapes
      BY <1>1, <1>2, <2>3, <3>3 DEF ShapesInv
    <3> HIDE DEF shape
    <3> QED BY <1>2, <3>2, <3>3
  <2>6. \A y \in Ids \ blurred' : db'["establishments"][y] # None =>
          ShapeOf(y, db'["establishments"][y]) \in shapes'
    BY <1>1, <1>2 DEF ShapesInv
  <2> HIDE DEF shape, row
  <2> QED BY <1>1, <2>4, <2>5, <2>6 DEF ShapesInv, ShapeOf
<1> QED BY <1>4, <1>5

\* A version never names two geometries of an establishment of which no edition
\* was saved over a geometry it had not read, whatever else overlaps: every
\* edition that gives a centre or a radius takes the next version
\* (establishments.py:255).
THEOREM VersionsNameGeometries == Spec => []OneGeometryPerVersion
<1>1. Init => ShapesInv
  BY RecordsInit, TablesApart DEF Init, ShapesInv, OneGeometryPerVersion
<1>2. ShapesInv /\ [Next]_vars => ShapesInv'
  <2> SUFFICES ASSUME ShapesInv, [Next]_vars PROVE ShapesInv'
    OBVIOUS
  <2>1. RecordsInv /\ RecordsInv'
    BY RecordsStep DEF ShapesInv
  <2>2. CASE UNCHANGED <<db, audit, shapes, blurred>>
    BY <2>1, <2>2 DEF ShapesInv, OneGeometryPerVersion, ShapeOf
  <2>3. ASSUME NEW s \in Slots, Commit(s), req[s].table # "establishments"
        PROVE  ShapesInv'
    <3>1. /\ shapes' = shapes /\ blurred' = blurred
          /\ \A x \in Ids : db'["establishments"][x] = db["establishments"][x]
      BY <2>1, <2>3, CommitWrites, TablesApart DEF Commit
    <3> QED BY <2>1, <3>1 DEF ShapesInv, OneGeometryPerVersion, ShapeOf
  <2> QED BY <2>2, <2>3, ShapesCommit, OnlyCommitWrites
<1>3. ShapesInv => OneGeometryPerVersion
  BY DEF ShapesInv
<1> QED BY <1>1, <1>2, <1>3, PTL DEF Spec

-----------------------------------------------------------------------------
(* Reading a list page by page *)

Walks ==
    [pc : {"count", "page", "done"}, table : Tables, mission : Missions \cup {None},
     status : ExceptionRequestStatus \cup {None}, skip : Nat, total : Nat,
     start : SUBSET Ids, seen : SUBSET Ids, moved : BOOLEAN, late : BOOLEAN]

\* What is listed of a table, and of that what comes no later than a row.
ListedIn(w, table) == {x \in Ids : Listed(w, table, x)}

NoLater(w, a, b) == IF w.table = "establishments" THEN a <= b ELSE a >= b

UpTo(w, table, x) ==
    {y \in ListedIn(w, table) : NoLater(w, Key(w, table[y]), Key(w, table[x]))}

\* The rows the client has not seen and must come to see are in the list, each
\* beyond the pages he has read.
StillAhead(w, table) ==
    ~w.moved =>
        /\ w.start \subseteq ListedIn(w, table)
        /\ \A x \in w.start \ w.seen : Cardinality(UpTo(w, table, x)) > w.skip

\* The total he was told is that of the list.
TotalHolds(w, table) ==
    ~w.moved /\ ~w.late => w.total = Cardinality(ListedIn(w, table))

WalkInv ==
    /\ RecordsInv
    /\ \A table \in Tables : IsFiniteSet(Stored(table))
    /\ walk \in {Idle} \cup Walks
    /\ walk.pc \in {"count", "page"} => StillAhead(walk, db[walk.table])
    /\ walk.pc = "page" => TotalHolds(walk, db[walk.table])
    /\ WalkMissesNothing

\* The rows of a list whose keys differ have one order, in which a row's place
\* is the number of the rows that come no later.
LEMMA PlaceInOrder ==
    ASSUME NEW w, NEW table, NEW list, list = ListedIn(w, table), IsFiniteSet(list),
           \A x \in list : Key(w, table[x]) \in Nat,
           \A x, y \in list : x # y => Key(w, table[x]) # Key(w, table[y]),
           NEW order \in SetToSeqs(list),
           \A i, j \in DOMAIN order : i < j =>
              NoLater(w, Key(w, table[order[i]]), Key(w, table[order[j]])),
           NEW x \in list
    PROVE  \E i \in 1 .. Cardinality(list) : order[i] = x /\ Cardinality(UpTo(w, table, x)) = i
<1>1. PICK n \in Nat : n = Cardinality(list)
  BY FS_CardinalityType
<1>2. order \in [1 .. n -> list] /\ \A i, j \in 1 .. n : i # j => order[i] # order[j]
  BY <1>1 DEF SetToSeqs
<1>3. IsFiniteSet(1 .. n) /\ Cardinality(1 .. n) = n
  BY FS_Interval
<1>4. order \in Injection(1 .. n, list)
  BY <1>2 DEF Injection, IsInjective
<1>5. order \in Surjection(1 .. n, list)
  BY <1>1, <1>3, <1>4, FS_Injection
<1>6. \A y \in list : \E i \in 1 .. n : order[i] = y
  BY <1>5 DEF Surjection
<1>7. PICK i \in 1 .. n : order[i] = x
  BY <1>6
<1> DEFINE first == [j \in 1 .. i |-> order[j]]
           key(y) == Key(w, table[y])
<1>8. \A y \in list : key(y) \in Nat /\ (y # x => key(y) # key(x))
  OBVIOUS
<1>9. \A j, k \in 1 .. n : j < k => NoLater(w, key(order[j]), key(order[k]))
  BY <1>2
<1>10. \A y : y \in UpTo(w, table, x) <=> y \in list /\ NoLater(w, key(y), key(x))
  BY DEF UpTo
<1> HIDE DEF key
<1>11. ASSUME NEW j \in 1 .. i PROVE order[j] \in UpTo(w, table, x)
  <2>1. j \in 1 .. n /\ order[j] \in list
    BY <1>2
  <2>2. CASE j = i
    BY <1>7, <1>8, <1>10, <2>1, <2>2 DEF NoLater
  <2>3. CASE j < i
    BY <1>7, <1>9, <1>10, <2>1, <2>3
  <2> QED BY <2>2, <2>3
<1>12. ASSUME NEW y \in UpTo(w, table, x) PROVE \E j \in 1 .. i : order[j] = y
  <2>1. y \in list /\ NoLater(w, key(y), key(x))
    BY <1>10
  <2>2. PICK j \in 1 .. n : order[j] = y
    BY <1>6, <2>1
  <2>3. ASSUME i < j PROVE FALSE
    <3>1. NoLater(w, key(x), key(y))
      BY <1>7, <1>9, <2>2, <2>3
    <3>2. key(x) = key(y)
      BY <1>8, <2>1, <3>1 DEF NoLater
    <3>3. x = y
      BY <1>8, <2>1, <3>2
    <3> QED BY <1>2, <1>7, <2>2, <2>3, <3>3
  <2> QED BY <2>2, <2>3
<1>13. first \in Bijection(1 .. i, UpTo(w, table, x))
  <2>1. first \in [1 .. i -> UpTo(w, table, x)]
    BY <1>11
  <2>2. \A j, k \in 1 .. i : first[j] = first[k] => j = k
    BY <1>2
  <2>3. \A y \in UpTo(w, table, x) : \E j \in 1 .. i : first[j] = y
    BY <1>12
  <2> HIDE DEF first
  <2> QED BY <2>1, <2>2, <2>3 DEF Bijection, Injection, Surjection, IsInjective
<1>14. Cardinality(UpTo(w, table, x)) = Cardinality(1 .. i) /\ Cardinality(1 .. i) = i
  BY <1>13, FS_Interval, FS_Bijection DEF ExistsBijection
<1> QED BY <1>1, <1>7, <1>14

\* A page of such a list holds the rows of its places.
LEMMA PageSeen ==
    ASSUME NEW w, NEW table, NEW list, list = ListedIn(w, table), IsFiniteSet(list),
           \A x \in list : Key(w, table[x]) \in Nat,
           \A x, y \in list : x # y => Key(w, table[x]) # Key(w, table[y]),
           NEW order \in SetToSeqs(list),
           \A i, j \in DOMAIN order : i < j =>
              NoLater(w, Key(w, table[order[i]]), Key(w, table[order[j]])),
           NEW skip \in Nat,
           NEW x \in list \ PageOf(order, skip), Cardinality(UpTo(w, table, x)) > skip
    PROVE  /\ Cardinality(UpTo(w, table, x)) > skip + Limit
           /\ Cardinality(list) > skip + Limit
<1>1. PICK i \in 1 .. Cardinality(list) : order[i] = x /\ Cardinality(UpTo(w, table, x)) = i
  BY PlaceInOrder
<1>2. Cardinality(list) \in Nat /\ DOMAIN order = 1 .. Cardinality(list)
  BY FS_CardinalityType DEF SetToSeqs
<1>3. i \notin skip + 1 .. skip + Limit
  BY <1>1, <1>2 DEF PageOf
<1> QED BY <1>1, <1>2, <1>3, RecordsAssumption

LEMMA ListsAreFinite ==
    ASSUME NEW table \in Tables, IsFiniteSet(Stored(table)), NEW w
    PROVE  /\ IsFiniteSet(ListedIn(w, db[table]))
           /\ \A x : IsFiniteSet(UpTo(w, db[table], x))
<1>1. ListedIn(w, db[table]) \subseteq Stored(table)
  BY DEF ListedIn, Listed, Stored
<1>2. IsFiniteSet(ListedIn(w, db[table]))
  BY <1>1, FS_Subset
<1>3. \A x : UpTo(w, db[table], x) \subseteq ListedIn(w, db[table])
  BY DEF UpTo
<1> QED BY <1>2, <1>3, FS_Subset

\* Rows that are added only push the others further.
LEMMA WatchedKeeps ==
    ASSUME NEW w \in Walks, w.pc \in {"count", "page"}, NEW old, NEW new, NEW v,
           v = Watched(w, old, new), IsFiniteSet(ListedIn(w, new)),
           StillAhead(w, old), w.pc = "page" => TotalHolds(w, old)
    PROVE  /\ v \in Walks /\ v.pc = w.pc /\ v.table = w.table
           /\ StillAhead(v, new) /\ (v.pc = "page" => TotalHolds(v, new))
<1> DEFINE leaves(x) == /\ Listed(w, old, x)
                        /\ ~Listed(w, new, x) \/ Key(w, new[x]) # Key(w, old[x])
           enters(x) == Listed(w, new, x) /\ ~Listed(w, old, x)
<1>1. v = [w EXCEPT !.moved = @ \/ \E x \in Ids : leaves(x),
                    !.late = @ \/ \E x \in Ids : enters(x)]
  BY DEF Watched
<1> HIDE DEF leaves, enters
<1>2. /\ v \in Walks /\ v.pc = w.pc /\ v.table = w.table /\ v.mission = w.mission
      /\ v.status = w.status /\ v.skip = w.skip /\ v.total = w.total
      /\ v.start = w.start /\ v.seen = w.seen
      /\ ~v.moved => ~w.moved /\ \A x \in Ids : ~leaves(x)
      /\ ~v.late => ~w.late /\ \A x \in Ids : ~enters(x)
  BY <1>1 DEF Walks
<1>3. /\ ListedIn(v, new) = ListedIn(w, new) /\ \A row : Key(v, row) = Key(w, row)
      /\ \A a, b : NoLater(v, a, b) <=> NoLater(w, a, b)
  BY <1>2 DEF ListedIn, Listed, Key, NoLater
<1>4. ASSUME ~v.moved
      PROVE  /\ ListedIn(w, old) \subseteq ListedIn(w, new)
             /\ \A x \in ListedIn(w, old) : Key(w, new[x]) = Key(w, old[x])
  BY <1>2, <1>4 DEF ListedIn, leaves
<1>5. ASSUME ~v.moved, NEW x \in v.start \ v.seen
      PROVE  Cardinality(UpTo(v, new, x)) > v.skip
  <2>1. x \in ListedIn(w, old) /\ Cardinality(UpTo(w, old, x)) > w.skip
    BY <1>2, <1>5 DEF StillAhead
  <2>2. UpTo(w, old, x) \subseteq UpTo(v, new, x)
    BY <1>3, <1>4, <1>5, <2>1 DEF UpTo
  <2>3. UpTo(v, new, x) \subseteq ListedIn(w, new)
    BY <1>3 DEF UpTo
  <2>4. IsFiniteSet(UpTo(v, new, x))
    BY <2>3, FS_Subset
  <2>5. /\ Cardinality(UpTo(w, old, x)) \in Nat /\ Cardinality(UpTo(v, new, x)) \in Nat
        /\ Cardinality(UpTo(w, old, x)) <= Cardinality(UpTo(v, new, x))
    BY <2>2, <2>4, FS_Subset, FS_CardinalityType
  <2>6. w.skip \in Nat /\ v.skip = w.skip
    BY <1>2 DEF Walks
  <2> QED BY <2>1, <2>5, <2>6
<1>6. StillAhead(v, new)
  <2>1. ~v.moved => v.start \subseteq ListedIn(v, new)
    BY <1>2, <1>3, <1>4 DEF StillAhead
  <2> QED BY <1>5, <2>1 DEF StillAhead
<1>7. ASSUME w.pc = "page" PROVE TotalHolds(v, new)
  <2> SUFFICES ASSUME ~v.moved, ~v.late PROVE v.total = Cardinality(ListedIn(v, new))
    BY DEF TotalHolds
  <2>1. ListedIn(w, new) \subseteq ListedIn(w, old)
    BY <1>2 DEF ListedIn, enters
  <2>2. ListedIn(v, new) = ListedIn(w, old)
    BY <1>3, <1>4, <2>1
  <2> QED BY <1>2, <1>7, <2>2 DEF TotalHolds
<1> QED BY <1>2, <1>6, <1>7

LEMMA StoredStaysFinite ==
    ASSUME WalkInv, [Next]_vars, NEW table \in Tables
    PROVE  IsFiniteSet(Stored(table)')
<1>1. CASE db' = db
  BY <1>1 DEF WalkInv, Stored
<1>2. ASSUME NEW s \in Slots, Commit(s) PROVE IsFiniteSet(Stored(table)')
  <2>1. Stored(table)' \subseteq Stored(table) \cup {req[s].id}
    BY <1>2, CommitWrites DEF WalkInv, Stored
  <2>2. IsFiniteSet(Stored(table) \cup {req[s].id})
    BY FS_AddElement DEF WalkInv
  <2> QED BY <2>1, <2>2, FS_Subset
<1> QED BY <1>1, <1>2, OnlyCommitWrites

LEMMA CommitKeepsWalk ==
    ASSUME WalkInv, NEW s \in Slots, Commit(s)
    PROVE  WalkInv'
<1> DEFINE q == req[s]
<1>1. RecordsInv /\ RecordsInv' /\ q \in Flight /\ q.table \in Tables
      /\ \A table \in Tables, x \in Ids :
            table # q.table \/ x # q.id => db'[table][x] = db[table][x]
  BY CommitKeeps, CommitWrites DEF WalkInv, Flight
<1>2. \A table \in Tables : IsFiniteSet(Stored(table)')
  BY StoredStaysFinite DEF Next
<1>3. CASE walk' = walk /\ (walk.pc = "idle" \/ walk.pc = "done")
  BY <1>1, <1>2, <1>3 DEF WalkInv, WalkMissesNothing
<1>4. walk.pc = "idle" \/ walk \in Walks
  BY DEF WalkInv, Idle
<1>5. CASE walk.pc \in {"count", "page"} /\ walk.table # q.table
  <2>1. walk' = walk /\ walk \in Walks
    BY <1>4, <1>5 DEF Commit
  <2>2. db'[walk.table] = db[walk.table]
    BY <1>5 DEF Commit, WalkInv, RecordsInv, RecordsTypes
  <2> QED BY <1>1, <1>2, <1>5, <2>1, <2>2 DEF WalkInv, WalkMissesNothing
<1>6. CASE walk.pc \in {"count", "page"} /\ walk.table = q.table
  <2> DEFINE old == db[walk.table]
             new == db'[walk.table]
  <2>1. walk \in Walks /\ walk' = Watched(walk, old, new)
    BY <1>4, <1>6 DEF Commit
  <2>2. IsFiniteSet(ListedIn(walk, new))
    <3>1. PICK table \in Tables : table = walk.table
      BY <1>1, <1>6
    <3>2. ListedIn(walk, new) \subseteq Stored(table)'
      BY <3>1 DEF ListedIn, Listed, Stored
    <3> QED BY <1>2, <3>2, FS_Subset
  <2>3. StillAhead(walk, old) /\ (walk.pc = "page" => TotalHolds(walk, old))
    BY <1>6 DEF WalkInv
  <2> HIDE DEF old, new
  <2>4. /\ walk' \in Walks /\ walk'.pc = walk.pc /\ walk'.table = walk.table
        /\ StillAhead(walk', new) /\ (walk'.pc = "page" => TotalHolds(walk', new))
    BY <1>6, <2>1, <2>2, <2>3, WatchedKeeps
  <2>5. new = db'[walk'.table]
    BY <2>4 DEF new
  <2> QED BY <1>1, <1>2, <1>6, <2>4, <2>5 DEF WalkInv, WalkMissesNothing
<1>7. walk.pc = "done" => walk' = walk
  BY DEF Commit, Watched
<1>8. walk.pc = "idle" => walk' = walk
  BY DEF Commit
<1>9. walk.pc \in {"idle", "count", "page", "done"}
  BY <1>4 DEF Walks
<1> QED BY <1>3, <1>5, <1>6, <1>7, <1>8, <1>9

LEMMA StartKeepsWalk ==
    ASSUME WalkInv, NEW table \in Tables, NEW mission \in Missions \cup {None},
           NEW status \in ExceptionRequestStatus \cup {None},
           StartWalk(table, mission, status)
    PROVE  WalkInv'
<1>1. PICK w : w = [pc |-> "count", table |-> table, mission |-> mission, status |-> status,
                    skip |-> 0, total |-> 0, start |-> {}, seen |-> {},
                    moved |-> FALSE, late |-> FALSE]
  OBVIOUS
<1>2. walk' = [w EXCEPT !.start = ListedIds(w)] /\ UNCHANGED <<db, audit, req, writes>>
  BY <1>1 DEF StartWalk
<1>3. w \in Walks /\ ListedIds(w) = ListedIn(w, db[table]) /\ ListedIds(w) \in SUBSET Ids
  BY <1>1 DEF Walks, ListedIds, ListedIn
<1>4. /\ walk' \in Walks /\ walk'.pc = "count" /\ walk'.table = table /\ walk'.skip = 0
      /\ walk'.mission = w.mission /\ walk'.status = w.status
      /\ walk'.start = ListedIn(w, db[table])
  BY <1>1, <1>2, <1>3 DEF Walks
<1>5. ListedIn(walk', db[table]) = ListedIn(w, db[table])
  BY <1>4 DEF ListedIn, Listed
<1>6. ASSUME NEW x \in ListedIn(w, db[table])
      PROVE  Cardinality(UpTo(walk', db[table], x)) > 0
  <2>1. Key(walk', db[table][x]) \in Nat
    <3>1. db[table][x] \in Rows(table)
      BY <1>6 DEF ListedIn, Listed, WalkInv, RecordsInv, RecordsTypes
    <3> QED BY <1>4, <3>1, RecordsAssumption
            DEF Key, Rows, Tables, Establishment, ExceptionRequest
  <2>2. x \in UpTo(walk', db[table], x)
    BY <1>5, <2>1 DEF UpTo, NoLater
  <2>3. IsFiniteSet(UpTo(walk', db[table], x))
    BY ListsAreFinite DEF WalkInv
  <2> QED BY <2>2, <2>3, FS_CardinalityType, FS_EmptySet
<1>7. StillAhead(walk', db[table])
  BY <1>4, <1>5, <1>6 DEF StillAhead
<1>8. RecordsInv'
  BY <1>2, OthersKeep DEF WalkInv
<1> QED BY <1>2, <1>4, <1>7, <1>8 DEF WalkInv, WalkMissesNothing, Stored

LEMMA CountKeepsWalk ==
    ASSUME WalkInv, Count
    PROVE  WalkInv'
<1>1. /\ walk' = [walk EXCEPT !.pc = "page", !.total = Cardinality(ListedIds(walk)),
                              !.late = FALSE]
      /\ UNCHANGED <<db, audit, req, writes>> /\ walk \in Walks /\ walk.table \in Tables
  BY DEF Count, WalkInv, Idle, Walks
<1> DEFINE list == ListedIn(walk, db[walk.table])
<1>2. ListedIds(walk) = list
  BY DEF ListedIds, ListedIn
<1>3. Cardinality(list) \in Nat
  BY <1>1, ListsAreFinite, FS_CardinalityType DEF WalkInv
<1>4. /\ walk' \in Walks /\ walk'.pc = "page" /\ walk'.table = walk.table
      /\ walk'.mission = walk.mission /\ walk'.status = walk.status
      /\ walk'.skip = walk.skip /\ walk'.start = walk.start /\ walk'.seen = walk.seen
      /\ walk'.moved = walk.moved /\ walk'.total = Cardinality(list)
  BY <1>1, <1>2, <1>3 DEF Walks
<1>5. /\ ListedIn(walk', db[walk.table]) = list
      /\ \A x : UpTo(walk', db[walk.table], x) = UpTo(walk, db[walk.table], x)
  BY <1>4 DEF ListedIn, Listed, UpTo, Key, NoLater
<1>6. StillAhead(walk', db[walk.table]) /\ TotalHolds(walk', db[walk.table])
  BY <1>4, <1>5 DEF WalkInv, Count, StillAhead, TotalHolds
<1>7. RecordsInv'
  BY <1>1, OthersKeep DEF WalkInv
<1> QED BY <1>1, <1>4, <1>6, <1>7 DEF WalkInv, WalkMissesNothing, Stored

LEMMA FetchKeepsWalk ==
    ASSUME WalkInv, FetchPage
    PROVE  WalkInv'
<1> DEFINE next == walk.skip + Limit
           table == db[walk.table]
<1>1. PICK order \in SetToSeqs(ListedIds(walk)) :
         /\ Sorted(walk, order)
         /\ walk' = [walk EXCEPT
               !.pc = IF next < walk.total THEN "count" ELSE "done",
               !.skip = next,
               !.seen = @ \cup PageOf(order, walk.skip),
               !.moved = @ \/ Tied(walk)]
  BY DEF FetchPage
<1>2. /\ walk \in Walks /\ walk.pc = "page" /\ walk.table \in Tables /\ walk.skip \in Nat
      /\ walk.total \in Nat /\ UNCHANGED <<db, audit, req, writes>>
  BY DEF FetchPage, WalkInv, Idle, Walks
<1>3. PICK list : list = ListedIn(walk, table) /\ list = ListedIds(walk) /\ list \subseteq Ids
  BY DEF ListedIn, ListedIds
<1>4. /\ IsFiniteSet(list) /\ Cardinality(list) \in Nat
      /\ \A x \in list : IsFiniteSet(UpTo(walk, table, x))
  BY <1>2, <1>3, ListsAreFinite, FS_CardinalityType DEF WalkInv
<1>5. PageOf(order, walk.skip) \subseteq list /\ next \in Nat
  BY <1>1, <1>2, <1>3, <1>4, RecordsAssumption DEF PageOf, SetToSeqs
<1>6. /\ walk' \in Walks /\ walk'.table = walk.table
      /\ walk'.mission = walk.mission /\ walk'.status = walk.status
      /\ walk'.pc = (IF next < walk.total THEN "count" ELSE "done")
      /\ walk'.skip = next /\ walk'.start = walk.start
      /\ walk'.seen = walk.seen \cup PageOf(order, walk.skip)
      /\ walk'.total = walk.total /\ walk'.late = walk.late
      /\ ~walk'.moved => ~walk.moved /\ ~Tied(walk)
  <2>1. PICK page \in SUBSET Ids : page = PageOf(order, walk.skip)
    BY <1>3, <1>5
  <2>2. PICK tied \in BOOLEAN : tied = Tied(walk)
    BY DEF Tied
  <2>3. walk' = [walk EXCEPT !.pc = IF next < walk.total THEN "count" ELSE "done",
                             !.skip = next, !.seen = @ \cup page, !.moved = @ \/ tied]
    BY <1>1, <2>1, <2>2
  <2> HIDE DEF next
  <2> QED BY <1>2, <1>5, <2>1, <2>2, <2>3 DEF Walks
<1>7. /\ ListedIn(walk', table) = list
      /\ \A x : UpTo(walk', table, x) = UpTo(walk, table, x)
  BY <1>3, <1>6 DEF ListedIn, Listed, UpTo, Key, NoLater
<1>8. \A x \in list : Key(walk, table[x]) \in Nat
  <2> SUFFICES ASSUME NEW x \in list PROVE Key(walk, table[x]) \in Nat
    OBVIOUS
  <2>1. table[x] \in Rows(walk.table)
    BY <1>2, <1>3 DEF ListedIn, Listed, WalkInv, RecordsInv, RecordsTypes
  <2> QED BY <1>2, <2>1, RecordsAssumption
          DEF Key, Rows, Tables, Establishment, ExceptionRequest
<1>9. \A i, j \in DOMAIN order : i < j =>
         NoLater(walk, Key(walk, table[order[i]]), Key(walk, table[order[j]]))
  BY <1>1 DEF Sorted, NoLater
<1>10. ASSUME ~walk'.moved, NEW x \in walk'.start \ walk'.seen
       PROVE  /\ Cardinality(UpTo(walk, table, x)) > next
              /\ Cardinality(list) > next
  <2>1. \A a, b \in list : a # b => Key(walk, table[a]) # Key(walk, table[b])
    BY <1>3, <1>6, <1>10 DEF Tied
  <2>2. /\ x \in list \ PageOf(order, walk.skip)
        /\ Cardinality(UpTo(walk, table, x)) > walk.skip
    BY <1>2, <1>3, <1>6, <1>10 DEF WalkInv, StillAhead
  <2> HIDE DEF table
  <2> QED BY <1>1, <1>2, <1>3, <1>4, <1>8, <1>9, <2>1, <2>2, PageSeen
<1>11. StillAhead(walk', table)
  BY <1>2, <1>3, <1>6, <1>7, <1>10 DEF StillAhead, WalkInv
<1>12. WalkMissesNothing'
  <2> SUFFICES ASSUME walk'.pc = "done", ~walk'.moved, ~walk'.late
               PROVE  walk'.start \subseteq walk'.seen
    BY DEF WalkMissesNothing
  <2>1. ~(next < walk.total)
    BY <1>6
  <2>2. walk.total = Cardinality(list)
    BY <1>2, <1>3, <1>6 DEF WalkInv, TotalHolds
  <2> QED BY <1>4, <1>5, <1>10, <2>1, <2>2
<1>13. RecordsInv'
  BY <1>2, OthersKeep DEF WalkInv
<1>14. walk'.pc \in {"count", "done"} /\ walk'.pc # "page" /\ db'[walk'.table] = table
  BY <1>2, <1>6
<1> QED BY <1>2, <1>6, <1>11, <1>12, <1>13, <1>14 DEF WalkInv, Stored

\* Whoever reads a list page by page, whatever the size of the page and the
\* rows that are added meanwhile, sees every row that was there when he began:
\* one that is added comes before the rows he has still to see or after them,
\* and only pushes them further, provided none leaves the list or changes
\* places (two of one name may) and none is added between the last count and
\* its page (extra_repos.py:191).
THEOREM PagesMissNothing == Spec => []WalkMissesNothing
<1>1. Init => WalkInv
  <2> SUFFICES ASSUME Init PROVE WalkInv
    OBVIOUS
  <2>1. \A table \in Tables : Stored(table) = {}
    BY DEF Init, Stored
  <2>2. walk = Idle /\ walk.pc = "idle" /\ RecordsInv
    BY RecordsInit DEF Init, Idle
  <2> QED BY <2>1, <2>2, FS_EmptySet DEF WalkInv, WalkMissesNothing
<1>2. WalkInv /\ [Next]_vars => WalkInv'
  <2> SUFFICES ASSUME WalkInv, [Next]_vars PROVE WalkInv'
    OBVIOUS
  <2>1. RecordsInv' /\ \A table \in Tables : IsFiniteSet(Stored(table)')
    BY RecordsStep, StoredStaysFinite DEF WalkInv
  <2>2. CASE UNCHANGED <<db, walk>>
    BY <2>1, <2>2 DEF WalkInv, WalkMissesNothing
  <2>3. CASE \E s \in Slots, x \in Ids :
              \/ \E name \in Names, centre \in Centres, radius \in Radii :
                    CreateEstablishment(s, x, name, centre, radius)
              \/ \E body \in UpdateEstablishmentBody : UpdateEstablishment(s, x, body)
              \/ \E mission \in MissionIds : CreateExceptionRequest(s, x, mission)
              \/ \E status \in ExceptionRequestStatus : UpdateExceptionStatus(s, x, status)
              \/ \E body \in PatchExceptionBody : PatchExceptionRequest(s, x, body)
    BY <2>2, <2>3 DEF CreateEstablishment, UpdateEstablishment, CreateExceptionRequest,
                      UpdateExceptionStatus, PatchExceptionRequest, Begin
  <2>4. CASE \E s \in Slots : Save(s) \/ RollBack(s)
    BY <2>2, <2>4 DEF Save, RollBack
  <2>5. CASE UNCHANGED vars
    BY <2>2, <2>5 DEF vars
  <2> QED BY <2>3, <2>4, <2>5, CommitKeepsWalk, StartKeepsWalk, CountKeepsWalk,
             FetchKeepsWalk DEF Next
<1>3. WalkInv => WalkMissesNothing
  BY DEF WalkInv
<1> QED BY <1>1, <1>2, <1>3, PTL DEF Spec
=============================================================================
