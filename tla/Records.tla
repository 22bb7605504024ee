------------------------------- MODULE Records -------------------------------
(***************************************************************************)
(* Establishments and exception requests (api/v1/establishments.py,        *)
(* api/v1/exception_requests.py): two tables edited by concurrent requests *)
(* that save whole rows, while a client reads one of them page by page.    *)
(*                                                                         *)
(* A request reads a row and computes the new one (the actions of the      *)
(* operations), reads the row again before it assigns it (Save), and       *)
(* commits (Commit).  A refused operation changes nothing and has no step. *)
(* Columns that are handled like another are left out: name stands for     *)
(* those of an establishment that are copied, assignee for the comment and *)
(* the attachment.                                                         *)
(***************************************************************************)
EXTENDS Naturals, Sequences, FiniteSets, SequencesExt

CONSTANTS
    Slots,               \* requests that may be in flight together
    Ids,                 \* uuid4() values
    Names,               \* names of establishments, by their places in the order of the list
    Centres, Radii, Users,
    MissionIds, Missions,  \* ids a request may name; the missions that exist
    Limit,               \* size of a page
    MaxWrites,           \* bound
    None

ExceptionRequestStatus == {"new", "acknowledged", "resolved", "escalated"}

Establishment == [name : Names, centre : Centres, radius : Radii, version : Nat]

\* due: given by a supervisor, or 72 hours after the acknowledgement.
ExceptionRequest ==
    [mission : Missions, created : Nat, status : ExceptionRequestStatus,
     assignee : Users \cup {None}, due : {"given", "default", None}]

Row == Establishment \cup ExceptionRequest

\* Bodies of editions; None leaves a column alone.
UpdateEstablishmentBody ==
    [name : Names \cup {None}, centre : Centres \cup {None}, radius : Radii \cup {None}]
PatchExceptionBody ==
    [status : ExceptionRequestStatus \cup {None}, assignee : Users \cup {None},
     due : {"given", None}]

ASSUME RecordsAssumption ==
    /\ Limit \in Nat \ {0} /\ MaxWrites \in Nat
    /\ Missions \subseteq MissionIds /\ Names \subseteq Nat
    /\ None \notin Row \cup Names \cup Centres \cup Radii \cup Users
                   \cup MissionIds \cup ExceptionRequestStatus \cup Nat \cup {"given", "default"}

VARIABLES
    db,       \* the two tables; None where there is no row
    audit,    \* audit entries "exception.patch"
    req,      \* the requests in flight
    walk,     \* the client that reads a list page by page
    writes,   \* requests that began to write
    shapes,   \* history: geometries an establishment had, with their versions
    blurred   \* history: establishments saved over a geometry the request had not read

vars == <<db, audit, req, walk, writes, shapes, blurred>>

Tables == {"establishments", "exception_requests"}

\* A request in flight: the row it read and computed (object), the columns it
\* was asked to set, the row it read again (base).  overtaken: the columns that
\* other requests changed since the first read.
\* A client that reads a list: its filters, the page it is at, the rows there
\* were when it began and those it has seen.  moved: a row of the list left it
\* or changed places, or two rows had one place; late: one was added between
\* the count and the page.
Idle == [pc |-> "idle"]

Init ==
    /\ db = [table \in Tables |-> [x \in Ids |-> None]]
    /\ audit = {}
    /\ req = [s \in Slots |-> Idle]
    /\ walk = Idle
    /\ writes = 0
    /\ shapes = {}
    /\ blurred = {}

Stored(table) == {x \in Ids : db[table][x] # None}

-----------------------------------------------------------------------------
(* The operations: reads and the row in memory *)

Begin(s, pc, op, table, x, object, asked) ==
    /\ req[s].pc = "idle"
    /\ writes < MaxWrites
    /\ writes' = writes + 1
    /\ req' = [req EXCEPT ![s] =
          [pc |-> pc, op |-> op, table |-> table, id |-> x, object |-> object,
           base |-> None, asked |-> asked, overtaken |-> {}]]
    /\ UNCHANGED <<db, audit, walk, shapes, blurred>>

\* uuid4(): an id no row and no request in flight has.
FreshIds(table) ==
    {x \in Ids \ Stored(table) : \A s \in Slots : req[s].pc # "idle" =>
        ~(req[s].table = table /\ req[s].id = x)}

CreateEstablishment(s, x, name, centre, radius) ==
    /\ x \in FreshIds("establishments")
    /\ Begin(s, "commit", "create", "establishments", x,
             [name |-> name, centre |-> centre, radius |-> radius, version |-> 1], {})

Provided(body) == {c \in DOMAIN body : body[c] # None}

\* Mutant: a change of the radius alone does not count.
CentreMoved(body) == body.centre # None

\* A value that is given counts as a change, were it the same.
GeoChanged(body) == Provided(body) \cap {"centre", "radius"} # {}

Edited(row, body) ==
    [c \in DOMAIN row |-> IF c \in Provided(body) THEN body[c] ELSE row[c]]

UpdateEstablishment(s, x, body) ==
    LET est == Edited(db["establishments"][x], body)
    IN  /\ x \in Stored("establishments")
        /\ Begin(s, "save", "patch", "establishments", x,
                 IF GeoChanged(body) THEN [est EXCEPT !.version = @ + 1] ELSE est,
                 Provided(body) \cup IF GeoChanged(body) THEN {"version"} ELSE {})

\* datetime.now(UTC): two requests are never created at the same microsecond.
Now == writes

CreateExceptionRequest(s, x, mission) ==
    /\ mission \in Missions
    /\ x \in FreshIds("exception_requests")
    /\ Begin(s, "commit", "create", "exception_requests", x,
             [mission |-> mission, created |-> Now, status |-> "new", assignee |-> None,
              due |-> None], {})

\* Any status may follow any other.
UpdateExceptionStatus(s, x, status) ==
    /\ x \in Stored("exception_requests")
    /\ Begin(s, "save", "status", "exception_requests", x,
             [db["exception_requests"][x] EXCEPT !.status = status], {"status"})

\* Mutant: every edition sets it.
AnyEdition(exc, body) == body.due = None /\ exc.due = None

SetsDefaultDue(exc, body) ==
    body.due = None /\ body.status = "acknowledged" /\ exc.due = None

PatchExceptionRequest(s, x, body) ==
    LET exc == db["exception_requests"][x]
        new == Edited(exc, body)
    IN  /\ x \in Stored("exception_requests")
        /\ Begin(s, "save", "patch", "exception_requests", x,
                 IF SetsDefaultDue(exc, body) THEN [new EXCEPT !.due = "default"] ELSE new,
                 Provided(body))

-----------------------------------------------------------------------------
(* Writing *)

\* update and update_status read the row again; update then assigns every
\* column, update_status the status.
Assigned(q, row) ==
    IF q.op = "status" THEN [row EXCEPT !.status = q.object.status] ELSE q.object

Save(s) ==
    LET q == req[s]
        row == db[q.table][q.id]
    IN  /\ q.pc = "save"
        /\ req' = [req EXCEPT ![s] =
              [q EXCEPT !.pc = "commit", !.base = row, !.object = Assigned(q, row)]]
        /\ UNCHANGED <<db, audit, walk, writes, shapes, blurred>>

\* The UPDATE sets the columns that differ from the row it read.
Merge(row, q) ==
    [c \in DOMAIN row |-> IF q.object[c] = q.base[c] THEN row[c] ELSE q.object[c]]

Written(q) == IF q.op = "create" THEN q.object ELSE Merge(db[q.table][q.id], q)

Altered(old, new) == {c \in DOMAIN old : new[c] # old[c]}

Geometry == {"version", "centre", "radius"}

\* Mutant: the status the row was read with.
ReadStatus(q) == [id |-> q.id, status |-> q.base.status]

AuditEntry(q) == [id |-> q.id, status |-> q.object.status]

Audits(q) == q.op = "patch" /\ q.table = "exception_requests"

\* What the order and the filters of a list look at.
Listed(w, table, x) ==
    /\ table[x] # None
    /\ w.mission # None => table[x].mission = w.mission
    /\ w.status # None => table[x].status = w.status

Key(w, row) == IF w.table = "establishments" THEN row.name ELSE row.created

Watched(w, table, new) ==
    IF w.pc \notin {"count", "page"} THEN w
    ELSE [w EXCEPT
            !.moved = @ \/ \E x \in Ids : /\ Listed(w, table, x)
                                          /\ ~Listed(w, new, x) \/ Key(w, new[x]) # Key(w, table[x]),
            !.late = @ \/ \E x \in Ids : Listed(w, new, x) /\ ~Listed(w, table, x)]

Commit(s) ==
    LET q == req[s]
        row == Written(q)
    IN  /\ q.pc = "commit"
        /\ db' = [db EXCEPT ![q.table][q.id] = row]
        /\ audit' = audit \cup IF Audits(q) THEN {AuditEntry(q)} ELSE {}
        /\ walk' = IF walk.pc = "idle" \/ walk.table # q.table THEN walk
                   ELSE Watched(walk, db[q.table], db'[q.table])
        /\ shapes' = shapes \cup
              IF q.table = "establishments"
                THEN {[id |-> q.id, version |-> row.version, centre |-> row.centre,
                       radius |-> row.radius]} ELSE {}
        /\ blurred' = blurred \cup
              IF q.table = "establishments" /\ q.overtaken \cap Geometry # {} THEN {q.id} ELSE {}
        /\ req' = [t \in Slots |->
              IF t = s THEN Idle
              ELSE IF req[t].pc # "idle" /\ req[t].table = q.table /\ req[t].id = q.id
                THEN [req[t] EXCEPT !.overtaken = @ \cup Altered(db[q.table][q.id], row)]
              ELSE req[t]]
        /\ UNCHANGED writes

RollBack(s) ==
    /\ req[s].pc # "idle"
    /\ req' = [req EXCEPT ![s] = Idle]
    /\ UNCHANGED <<db, audit, walk, writes, shapes, blurred>>

-----------------------------------------------------------------------------
(* Reading page by page: count and page are two statements of one request *)

ListedIds(w) == {x \in Ids : Listed(w, db[w.table], x)}

\* The orders the query may return: by name, or the last created first; rows
\* of one name come in any order.
Sorted(w, order) ==
    \A i, j \in DOMAIN order : i < j =>
        LET a == Key(w, db[w.table][order[i]])
            b == Key(w, db[w.table][order[j]])
        IN  IF w.table = "establishments" THEN a <= b ELSE a >= b

StartWalk(table, mission, status) ==
    LET w == [pc |-> "count", table |-> table, mission |-> mission, status |-> status,
              skip |-> 0, total |-> 0, start |-> {}, seen |-> {},
              moved |-> FALSE, late |-> FALSE]
    IN  /\ walk.pc \in {"idle", "done"}
        /\ table = "establishments" => mission = None /\ status = None
        /\ walk' = [w EXCEPT !.start = ListedIds(w)]
        /\ UNCHANGED <<db, audit, req, writes, shapes, blurred>>

Count ==
    /\ walk.pc = "count"
    /\ walk' = [walk EXCEPT !.pc = "page", !.total = Cardinality(ListedIds(walk)), !.late = FALSE]
    /\ UNCHANGED <<db, audit, req, writes, shapes, blurred>>

Tied(w) == \E x, y \in ListedIds(w) : x # y /\ Key(w, db[w.table][x]) = Key(w, db[w.table][y])

\* Mutant: the first row after the offset is left out.
OffByOne(order, skip) == {order[i] : i \in DOMAIN order \cap (skip + 2 .. skip + 1 + Limit)}

PageOf(order, skip) == {order[i] : i \in DOMAIN order \cap (skip + 1 .. skip + Limit)}

\* The client goes on while what it was told of the total is not covered.
FetchPage ==
    LET next == walk.skip + Limit
    IN  /\ walk.pc = "page"
        /\ \E order \in SetToSeqs(ListedIds(walk)) :
              /\ Sorted(walk, order)
              /\ walk' = [walk EXCEPT
                    !.pc = IF next < walk.total THEN "count" ELSE "done",
                    !.skip = next,
                    !.seen = @ \cup PageOf(order, walk.skip),
                    !.moved = @ \/ Tied(walk)]
        /\ UNCHANGED <<db, audit, req, writes, shapes, blurred>>

Next ==
    \/ \E s \in Slots, x \in Ids :
          \/ \E name \in Names, centre \in Centres, radius \in Radii :
                CreateEstablishment(s, x, name, centre, radius)
          \/ \E body \in UpdateEstablishmentBody : UpdateEstablishment(s, x, body)
          \/ \E mission \in MissionIds : CreateExceptionRequest(s, x, mission)
          \/ \E status \in ExceptionRequestStatus : UpdateExceptionStatus(s, x, status)
          \/ \E body \in PatchExceptionBody : PatchExceptionRequest(s, x, body)
    \/ \E s \in Slots : Save(s) \/ Commit(s) \/ RollBack(s)
    \/ \E table \in Tables, mission \in Missions \cup {None},
          status \in ExceptionRequestStatus \cup {None} : StartWalk(table, mission, status)
    \/ Count
    \/ FetchPage

Spec == Init /\ [][Next]_vars

-----------------------------------------------------------------------------
(* Properties *)

\* A version never names two geometries of an establishment
\* (establishments.py:255), unless a request saved it that had read another
\* geometry than the one it replaces: what else overlaps does no harm.
OneGeometryPerVersion ==
    \A a, b \in shapes :
        /\ a.id = b.id /\ a.version = b.version
        /\ a.id \notin blurred
        => a = b

Commits(s) == req[s].pc = "commit" /\ req'[s].pc = "idle" /\ db' # db

\* A request changes no column that it was not asked to change, although it
\* saves the whole row (exception_requests.py:276): it undoes at most what other
\* requests changed since it read the row, and nothing if it goes by the route
\* of the status.  The acknowledgement of a request gives it a date only where
\* it had none (exception_requests.py:270).
OnlyWhatWasAsked ==
    [][\A s \in Slots : Commits(s) =>
          LET q == req[s]
              old == db[q.table][q.id]
              new == db'[q.table][q.id]
          IN  old # None => \A c \in DOMAIN old :
                  new[c] # old[c] =>
                      \/ c \in q.asked
                      \/ c \in q.overtaken /\ q.op # "status"
                      \/ c = "due" /\ old.due = None /\ q.object.status = "acknowledged"]_vars

\* The audit entry of an edition tells the status it leaves, also when it
\* undoes what another request did since it read the request, unless another
\* was committed after the second read (exception_requests.py:264).
AuditTellsTheStatus ==
    [][\A s \in Slots :
          /\ req[s].pc = "commit" /\ req'[s].pc = "idle" /\ audit' # audit
          /\ req[s].base = db[req[s].table][req[s].id]
          => \E entry \in audit' \ audit :
                entry.id = req[s].id /\ db'[req[s].table][entry.id].status = entry.status]_vars

\* Whoever reads a list page by page while requests are added sees every row
\* that was there when he began, provided no row left the list or changed
\* places, and none was added between the last count and its page: one that is
\* pushes the last row beyond the total the client believes
\* (extra_repos.py:191).
WalkMissesNothing ==
    walk.pc = "done" /\ ~walk.moved /\ ~walk.late => walk.start \subseteq walk.seen
=============================================================================
