------------------------------ MODULE FieldVisits ------------------------------
(***************************************************************************)
(* The field visit: check-in of the inspector, confirmation by the host,   *)
(* check-out (api/v1/site_visits.py and the three use cases behind it),    *)
(* run by concurrent HTTP requests against one database.                   *)
(*                                                                         *)
(* A request is a transaction of the unit of work.  Nothing it reads is    *)
(* locked, so it is split where the code awaits the database:              *)
(*   Receive  idempotency.get_response                                     *)
(*   Load*    the other reads, the checks and the changes to the domain    *)
(*            object (in memory)                                           *)
(*   Save     site_visits.save: the row is read AGAIN, and the ORM will    *)
(*            write the columns in which the object differs from it        *)
(*   Commit   flush and commit, where the unique constraints are tested    *)
(*   Reply    the response                                                 *)
(* Any of them may be lost to a crash or a database error (Drop).          *)
(***************************************************************************)
EXTENDS VisitRules, Sequences, FiniteSets

CONSTANTS
    Slots,        \* requests that may be in flight together
    Missions,
    Visits,       \* uuid4() values a visit may be given
    Users,
    Keys,         \* client_request_id values
    Jtis,         \* uuid4().hex values a QR token may be given
    Positions,
    MissionRows,  \* what a mission's row may hold
    Commands,     \* the requests clients may send
    MaxTime,      \* bound on the clock
    JwtTtl,       \* host_qr_jwt_ttl_minutes
    Retention,    \* 30 days: age at which an idempotency record is purged
    ReplyFirst    \* TRUE when FastAPI answers before it closes the unit of
                  \* work (fastapi >= 0.118), FALSE when it answers after

Time == 0 .. MaxTime

MissionRow ==
    [status : MissionStatus, inspector : Users, designatedHost : Users \cup {None},
     windowStart : Nat, windowEnd : Nat, smsConfigured : BOOLEAN]

CheckInCommand ==
    [op : {"check_in"}, key : Keys, mission : Missions, user : Users,
     pos : Positions, mode : HostValidationMode]

\* secretRight: the QR UUID or the SMS code of the body equals the mission's
\* one; None when the body has neither.
ConfirmHostCommand ==
    [op : {"confirm_host"}, key : Keys, mission : Missions, user : Users,
     visit : Visits, pos : Positions \cup {None}, jti : Jtis \cup {None},
     secretRight : BOOLEAN \cup {None}]

CheckOutCommand ==
    [op : {"check_out"}, key : Keys, mission : Missions, user : Users, visit : Visits]

Command == CheckInCommand \cup ConfirmHostCommand \cup CheckOutCommand

ASSUME ConstantsAssumption ==
    /\ Positions \subseteq Int
    /\ MissionRows \subseteq MissionRow
    /\ Commands \subseteq Command
    /\ MaxTime \in Nat /\ JwtTtl \in Nat /\ Retention \in Nat
    /\ ReplyFirst \in BOOLEAN

VARIABLES
    now,        \* the server's clock
    missions,   \* table missions
    visits,     \* table site_visits, by id; None where there is no row
    proofs,     \* table presence_proofs, by visit, in order of commit
    events,     \* table copresence_events, by visit, in order of commit
    idem,       \* table idempotency_records
    issued,     \* QR tokens handed out, by jti
    usedJti,    \* table used_qr_jti: the mission that consumed a jti
    req,        \* the requests in flight
    acks        \* responses with status 200 that reached a client

tables == <<visits, proofs, events, idem, usedJti>>
vars == <<now, missions, tables, issued, req, acks>>

-----------------------------------------------------------------------------
(* Rows and messages *)

SiteVisit ==
    [mission : Missions, status : SiteVisitStatus,
     mode : HostValidationMode \cup {None},
     checkedInAt : Time \cup {None}, checkedOutAt : Time \cup {None},
     inspectorPos : Positions \cup {None}, hostPos : Positions \cup {None}]

ASSUME NoneAssumption ==
    None \notin Missions \cup Visits \cup Jtis \cup Users \cup Command \cup SiteVisit

PresenceProof ==
    [actor : Users, recordedAt : Time, pos : Positions \cup {None},
     geofence : {"OK", "APPROXIMATE"}]

CoPresenceEvent ==
    [validatedAt : Time, mode : HostValidationMode \cup {None}]

ErrorCode ==
    {"NOT_FOUND", "CONFLICT", "FORBIDDEN", "MISSION_APPROVAL_REQUIRED",
     "MISSION_EXPIRED", "OUTSIDE_GEOFENCE", "INVARIANT_VIOLATION",
     "HOST_NOT_AUTHORIZED", "COPRESENCE_TIMEOUT", "COPRESENCE_DISTANCE",
     "INVALID_QR_TOKEN", "INVALID_SMS_CODE", "SMS_NOT_CONFIGURED",
     "ALREADY_CHECKED_OUT", "INTERNAL_ERROR"}

\* Of a success only the part of the payload that a replay could get wrong:
\* the visit it names, and the time of check-out it announces.
Response == [code : ErrorCode \cup {"OK"}, visit : Visits \cup {None},
             at : Time \cup {None}]

Ok(visit, at) == [code |-> "OK", visit |-> visit, at |-> at]
Error(code) == [code |-> code, visit |-> None, at |-> None]

\* f"check_in:{mission_id}", f"confirm_host:{site_visit_id}", ...
Scope(c) == <<c.op, IF c.op = "check_in" THEN c.mission ELSE c.visit>>

ScopeSet ==
    ({"check_in"} \X Missions) \cup ({"confirm_host", "check_out"} \X Visits)

IdempotencyRecord ==
    [scope : ScopeSet, key : Keys, response : Response, createdAt : Time]

\* A request in flight: where it is (pc), the instant datetime.now() gave it,
\* the visit it will write, the domain object, and the row save read again.
Request ==
    [pc : {"idle", "load", "save", "commit", "reply"},
     cmd : Commands \cup {None}, at : Time,
     visit : Visits \cup {None},
     object : SiteVisit \cup {None}, base : SiteVisit \cup {None},
     response : Response]

Idle == [pc |-> "idle", cmd |-> None, at |-> 0, visit |-> None,
         object |-> None, base |-> None, response |-> Error("INTERNAL_ERROR")]

TypeOK ==
    /\ now \in Time
    /\ missions \in [Missions -> MissionRows]
    /\ visits \in [Visits -> SiteVisit \cup {None}]
    /\ proofs \in [Visits -> Seq(PresenceProof)]
    /\ events \in [Visits -> Seq(CoPresenceEvent)]
    /\ idem \subseteq IdempotencyRecord
    /\ issued \in [Jtis -> [mission : Missions, exp : Nat] \cup {None}]
    /\ usedJti \in [Jtis -> Missions \cup {None}]
    /\ req \in [Slots -> Request]
    /\ acks \subseteq [scope : ScopeSet, key : Keys, response : Response]

Init ==
    /\ now = 0
    /\ missions \in [Missions -> MissionRows]
    /\ visits = [v \in Visits |-> None]
    /\ proofs = [v \in Visits |-> <<>>]
    /\ events = [v \in Visits |-> <<>>]
    /\ idem = {}
    /\ issued = [j \in Jtis |-> None]
    /\ usedJti = [j \in Jtis |-> None]
    /\ req = [s \in Slots |-> Idle]
    /\ acks = {}

-----------------------------------------------------------------------------
(* Reading *)

\* IdempotencyRepositoryImpl.get_response
Recorded(c) == {r \in idem : r.scope = Scope(c) /\ r.key = c.key}

\* SiteVisitRepositoryImpl.get_by_mission_id
VisitsOf(m) == {v \in Visits : visits[v] # None /\ visits[v].mission = m}

\* Mutant: an id computed from the mission's, which a row may have by now.
DerivedIds == Visits

\* uuid4(): an id no row and no request in flight has.
FreshIds ==
    {v \in Visits : visits[v] = None /\ \A s \in Slots : req[s].visit # v}

Receive(s, c) ==
    /\ req[s].pc = "idle"
    /\ req' = [req EXCEPT ![s] =
          IF Recorded(c) = {}
          THEN [Idle EXCEPT !.pc = "load", !.cmd = c]
          ELSE [Idle EXCEPT !.pc = "reply", !.cmd = c,
                            !.response = (CHOOSE r \in Recorded(c) : TRUE).response]]
    /\ UNCHANGED <<now, missions, tables, issued, acks>>

\* A domain error: the unit of work rolls back.
Refuse(s, code) ==
    req' = [req EXCEPT ![s] = [@ EXCEPT !.pc = "reply", !.response = Error(code)]]

Proceed(s, visit, object, response) ==
    req' = [req EXCEPT ![s] =
        [@ EXCEPT !.pc = "save", !.at = now, !.visit = visit,
                  !.object = object, !.response = response]]

\* Mutant: a check-in that does not test the geofence.
CheckInAnywhere(c, m) ==
    IF m.status = "draft" THEN "MISSION_APPROVAL_REQUIRED"
    ELSE IF m.inspector # c.user THEN "FORBIDDEN"
    ELSE IF ~InWindow(now, m) THEN "MISSION_EXPIRED"
    ELSE IF \E v \in VisitsOf(c.mission) : visits[v].status # Scheduled THEN "CONFLICT"
    ELSE "OK"

CheckInVerdict(c, m) ==
    IF m.status = "draft" THEN "MISSION_APPROVAL_REQUIRED"
    ELSE IF m.inspector # c.user THEN "FORBIDDEN"
    ELSE IF ~InWindow(now, m) THEN "MISSION_EXPIRED"
    ELSE IF GeofenceStatus(Haversine(c.pos, 0)) = "REJECTED" THEN "OUTSIDE_GEOFENCE"
    ELSE IF \E v \in VisitsOf(c.mission) : visits[v].status # Scheduled THEN "CONFLICT"
    ELSE IF \E v \in VisitsOf(c.mission) : StartCheckInVerdict(visits[v]) # "OK"
      THEN "INVARIANT_VIOLATION"
    ELSE "OK"

LoadCheckIn(s) ==
    LET c == req[s].cmd
        verdict == CheckInVerdict(c, missions[c.mission])
    IN  /\ req[s].pc = "load" /\ c.op = "check_in"
        /\ \/ verdict # "OK" /\ Refuse(s, verdict)
           \/ /\ verdict = "OK"
              /\ \E v \in IF VisitsOf(c.mission) = {} THEN FreshIds
                                                      ELSE VisitsOf(c.mission) :
                    LET visit == IF visits[v] = None THEN NewVisit(c.mission)
                                                     ELSE visits[v]
                    IN  Proceed(s, v, StartCheckIn(visit, now, c.mode, c.pos),
                                Ok(v, None))
        /\ UNCHANGED <<now, missions, tables, issued, acks>>

\* verify_host_qr_jwt then used_qr_jti.consume
QrJwtVerdict(c, m) ==
    IF issued[c.jti] = None \/ issued[c.jti].exp <= now THEN "INVALID_QR_TOKEN"
    ELSE IF issued[c.jti].mission # c.mission THEN "INVALID_QR_TOKEN"
    ELSE IF ~InWindow(now, m) THEN "MISSION_EXPIRED"
    ELSE IF usedJti[c.jti] # None THEN "INVALID_QR_TOKEN"
    ELSE "OK"

\* What the mode chosen at check-in requires of the host.
EvidenceVerdict(c, visit, m) ==
    CASE visit.mode = "app_gps" /\ c.pos # None ->
            CopresenceModeA(visit.checkedInAt, now,
                            Haversine(visit.inspectorPos, c.pos))
      [] visit.mode = "qr_static" /\ c.jti # None -> QrJwtVerdict(c, m)
      [] visit.mode = "qr_static" /\ c.jti = None /\ c.secretRight # None ->
            QrTokenValid(c.secretRight, now, m)
      [] visit.mode = "sms_shortcode" /\ c.secretRight # None ->
            SmsCodeValid(c.secretRight, now, m)
      [] OTHER -> "CONFLICT"

ConfirmHostVerdict(c, visit, m) ==
    IF visit = None THEN "NOT_FOUND"
    ELSE IF visit.mission # c.mission THEN "CONFLICT"
    ELSE IF m.status = "draft" THEN "MISSION_APPROVAL_REQUIRED"
    ELSE IF m.designatedHost \notin {None, c.user} THEN "HOST_NOT_AUTHORIZED"
    ELSE IF EvidenceVerdict(c, visit, m) # "OK" THEN EvidenceVerdict(c, visit, m)
    ELSE MarkCopresenceVerdict(visit)

LoadConfirmHost(s) ==
    LET c == req[s].cmd
        visit == visits[c.visit]
        verdict == ConfirmHostVerdict(c, visit, missions[c.mission])
    IN  /\ req[s].pc = "load" /\ c.op = "confirm_host"
        /\ \/ verdict # "OK" /\ Refuse(s, verdict)
           \/ /\ verdict = "OK"
              /\ Proceed(s, c.visit, MarkCopresenceOk(visit, c.pos), Ok(c.visit, None))
        /\ UNCHANGED <<now, missions, tables, issued, acks>>

CheckOutRequestVerdict(c, visit, m) ==
    IF m.inspector # c.user THEN "FORBIDDEN"
    ELSE IF visit = None THEN "NOT_FOUND"
    ELSE IF visit.mission # c.mission THEN "CONFLICT"
    ELSE CheckOutVerdict(visit)

LoadCheckOut(s) ==
    LET c == req[s].cmd
        visit == visits[c.visit]
        verdict == CheckOutRequestVerdict(c, visit, missions[c.mission])
    IN  /\ req[s].pc = "load" /\ c.op = "check_out"
        /\ \/ verdict # "OK" /\ Refuse(s, verdict)
           \/ /\ verdict = "OK"
              /\ Proceed(s, c.visit, CheckOut(visit, now), Ok(c.visit, now))
        /\ UNCHANGED <<now, missions, tables, issued, acks>>

-----------------------------------------------------------------------------
(* Writing *)

\* SiteVisitRepositoryImpl.save: session.get reads the row again.
Save(s) ==
    /\ req[s].pc = "save"
    /\ req' = [req EXCEPT ![s] =
          [@ EXCEPT !.pc = IF ReplyFirst THEN "reply" ELSE "commit",
                    !.base = visits[req[s].visit]]]
    /\ UNCHANGED <<now, missions, tables, issued, acks>>

\* apply_site_visit_to_row assigns every column, and the UPDATE the ORM emits
\* sets those whose value differs from the row that save read.
Column(stored, base, assigned) == IF assigned = base THEN stored ELSE assigned

Merge(stored, base, object) ==
    [mission      |-> stored.mission,
     status       |-> Column(stored.status, base.status, object.status),
     mode         |-> Column(stored.mode, base.mode, object.mode),
     checkedInAt  |-> Column(stored.checkedInAt, base.checkedInAt, object.checkedInAt),
     checkedOutAt |-> Column(stored.checkedOutAt, base.checkedOutAt, object.checkedOutAt),
     inspectorPos |-> Column(stored.inspectorPos, base.inspectorPos, object.inspectorPos),
     hostPos      |-> Column(stored.hostPos, base.hostPos, object.hostPos)]

\* The jti a confirmation consumes, if any.
ConsumedJtis(q) ==
    IF q.cmd.op = "confirm_host" /\ q.object.mode = "qr_static" /\ q.cmd.jti # None
    THEN {q.cmd.jti} ELSE {}

\* Mutant: a unique constraint that the schema does not declare.
Unconstrained(q) == FALSE

\* The unique constraints: (scope, client_key), site_visits.mission_id, jti.
KeyTaken(q) == Recorded(q.cmd) # {}
MissionTaken(q) == q.base = None /\ VisitsOf(q.object.mission) # {}
JtiTaken(q) == \E j \in ConsumedJtis(q) : usedJti[j] # None

IntegrityError(q) == KeyTaken(q) \/ MissionTaken(q) \/ JtiTaken(q)

\* The presence proof of a request, in the order and with the actor it has.
ProofsOf(q) ==
    LET proof(pos, geofence) == [actor |-> q.cmd.user, recordedAt |-> q.at,
                                 pos |-> pos, geofence |-> geofence]
    IN  CASE q.cmd.op = "check_in" ->
                <<proof(q.cmd.pos, GeofenceStatus(Haversine(q.cmd.pos, 0)))>>
          [] q.cmd.op = "confirm_host" ->
                <<proof(IF q.cmd.pos # None THEN q.cmd.pos
                                            ELSE q.object.inspectorPos, "OK")>>
          [] OTHER -> <<>>

EventsOf(q) ==
    IF q.cmd.op = "confirm_host"
    THEN <<[validatedAt |-> q.at, mode |-> q.object.mode]>> ELSE <<>>

\* IdempotencyRepositoryImpl.save
RecordOf(q) == [scope |-> Scope(q.cmd), key |-> q.cmd.key,
                response |-> q.response, createdAt |-> q.at]

\* The session's commit: everything the request wrote becomes visible, or a
\* constraint fails and nothing does.
Commit(s) ==
    LET q == req[s]
    IN  /\ q.pc = "commit"
        /\ ~IntegrityError(q)
        /\ visits' = [visits EXCEPT ![q.visit] =
                        IF q.base = None THEN q.object ELSE Merge(@, q.base, q.object)]
        /\ proofs' = [proofs EXCEPT ![q.visit] = @ \o ProofsOf(q)]
        /\ events' = [events EXCEPT ![q.visit] = @ \o EventsOf(q)]
        /\ usedJti' = [j \in Jtis |-> IF j \in ConsumedJtis(q) THEN q.cmd.mission
                                                              ELSE usedJti[j]]
        /\ idem' = idem \cup {RecordOf(q)}
        /\ req' = [req EXCEPT ![s] = IF ReplyFirst THEN Idle ELSE [@ EXCEPT !.pc = "reply"]]
        /\ UNCHANGED <<now, missions, issued, acks>>

RollBack(s) ==
    /\ req[s].pc = "commit"
    /\ IntegrityError(req[s])
    /\ IF ReplyFirst THEN req' = [req EXCEPT ![s] = Idle]
                     ELSE Refuse(s, "INTERNAL_ERROR")
    /\ UNCHANGED <<now, missions, tables, issued, acks>>

\* The response reaches the client.
Reply(s) ==
    LET q == req[s]
    IN  /\ q.pc = "reply"
        /\ acks' = IF q.response.code = "OK"
                   THEN acks \cup {[scope |-> Scope(q.cmd), key |-> q.cmd.key,
                                    response |-> q.response]}
                   ELSE acks
        /\ req' = [req EXCEPT ![s] = IF ReplyFirst /\ q.object # None
                                     THEN [@ EXCEPT !.pc = "commit"] ELSE Idle]
        /\ UNCHANGED <<now, missions, tables, issued>>

\* The connection, the session or the process fails: a transaction that had
\* not committed leaves nothing, a response that had not arrived is lost.
Drop(s) ==
    /\ req[s].pc # "idle"
    /\ req' = [req EXCEPT ![s] = Idle]
    /\ UNCHANGED <<now, missions, tables, issued, acks>>

-----------------------------------------------------------------------------
(* Around the requests *)

\* GET /missions/{id}/host-qr-jwt: a token with a new jti, that expires with
\* the mission's window at the latest.
IssueHostQrJwt(m, j) ==
    /\ JwtTtl > 0
    /\ issued[j] = None
    /\ issued' = [issued EXCEPT ![j] =
          [mission |-> m,
           exp |-> IF now + JwtTtl > missions[m].windowEnd THEN missions[m].windowEnd
                                                          ELSE now + JwtTtl]]
    /\ UNCHANGED <<now, missions, tables, req, acks>>

\* A mission route rewrites the mission's row (MissionRepositoryImpl.save).
MissionSaved(m, row) ==
    /\ missions[m] # row
    /\ missions' = [missions EXCEPT ![m] = row]
    /\ UNCHANGED <<now, tables, issued, req, acks>>

\* The server restarts and delete_older_than purges the idempotency records
\* (RolePermissions says when the start lets it).
Restart ==
    /\ \E r \in idem : r.createdAt + Retention < now
    /\ idem' = {r \in idem : r.createdAt + Retention >= now}
    /\ req' = [s \in Slots |-> Idle]
    /\ UNCHANGED <<now, missions, visits, proofs, events, usedJti, issued, acks>>

Tick ==
    /\ now < MaxTime
    /\ now' = now + 1
    /\ UNCHANGED <<missions, tables, issued, req, acks>>

Next ==
    \/ \E s \in Slots :
          \/ \E c \in Commands : Receive(s, c)
          \/ LoadCheckIn(s) \/ LoadConfirmHost(s) \/ LoadCheckOut(s)
          \/ Save(s) \/ Commit(s) \/ RollBack(s) \/ Reply(s) \/ Drop(s)
    \/ \E m \in Missions, j \in Jtis : IssueHostQrJwt(m, j)
    \/ \E m \in Missions, row \in MissionRows : MissionSaved(m, row)
    \/ Restart
    \/ Tick

Spec == Init /\ [][Next]_vars

-----------------------------------------------------------------------------
(* Properties *)

\* Two check-ins racing on a mission never both create a visit: the relation
\* between missions and visits is 1:1.
OneVisitPerMission ==
    \A v, w \in Visits :
        /\ visits[v] # None /\ visits[w] # None
        /\ visits[v].mission = visits[w].mission
        => v = w

\* A client that replays a request with its client_request_id is never given
\* two different successes.
AnswersAgree ==
    \A a, b \in acks : a.scope = b.scope /\ a.key = b.key => a = b

\* While no record has been purged: a key that was answered has had its effect,
\* once.  A visit has one co-presence event per recorded confirmation, and one
\* proof per recorded check-in or confirmation.
EffectsMatchRecords ==
    \A v \in Visits :
        LET confirmations == {r \in idem : r.scope = <<"confirm_host", v>>}
            arrivals == {r \in idem : r.scope[1] = "check_in" /\ r.response.visit = v}
        IN  /\ Len(events[v]) = Cardinality(confirmations)
            /\ Len(proofs[v]) = Cardinality(confirmations) + Cardinality(arrivals)
            /\ arrivals = {} <=> visits[v] = None

\* Replays that arrive after the purge of their record do not repeat the
\* effect: a visit never has more evidence than clients had requests.
EffectsBoundedByKeys ==
    \A v \in Visits : /\ Len(events[v]) <= Cardinality(Keys)
                      /\ Len(proofs[v]) <= Cardinality(Keys) + 1

\* A visit is validated or completed only on the strength of a co-presence
\* event: no order of requests completes a visit nobody confirmed.
EvidenceBacksStatus ==
    \A v \in Visits :
        visits[v] # None /\ visits[v].status \in {CopresenceOk, Completed}
            => events[v] # <<>>

\* When every QR confirmation carries a token of its own: a token is spent by
\* exactly one committed confirmation, and one that failed leaves it unspent.
TokensMatchEvents ==
    \A m \in Missions :
        Cardinality({j \in Jtis : usedJti[j] = m}) =
        Cardinality({x \in Visits \X (1 .. Cardinality(Jtis)) :
            /\ x[1] \in VisitsOf(m)
            /\ x[2] \in DOMAIN events[x[1]]
            /\ events[x[1]][x[2]].mode = "qr_static"})

\* Whatever the delay between a request's checks and its commit, the evidence
\* stored is timely (the arrival in the mission's window, the host within 15
\* minutes by GPS or in the window by QR and SMS) and, by GPS, near.
EvidenceIsTimely ==
    \A v \in Visits : visits[v] # None =>
        LET visit == visits[v]
            m == missions[visit.mission]
        IN  /\ InWindow(visit.checkedInAt, m)
            /\ \A i \in DOMAIN events[v] :
                 LET at == events[v][i].validatedAt
                 IN  IF visit.mode = "app_gps"
                     THEN at - visit.checkedInAt <= MaxDelay
                     ELSE InWindow(at, m)
            /\ visit.mode = "app_gps" /\ visit.hostPos # None =>
                 Haversine(visit.inspectorPos, visit.hostPos) <= MaxDistance

\* Whole-row saves of stale objects never alter what the check-in recorded,
\* and never send a validated visit back to waiting for its host.
ArrivalIsFinal ==
    [][\A v \in Visits : visits[v] # None =>
          /\ visits'[v].mission = visits[v].mission
          /\ visits'[v].checkedInAt = visits[v].checkedInAt
          /\ visits'[v].mode = visits[v].mode
          /\ visits'[v].inspectorPos = visits[v].inspectorPos
          /\ visits[v].status \in {CopresenceOk, Completed}
                => visits'[v].status # PendingHost]_vars

\* The visit of a mission, seen as VisitLifecycle sees it.
StageOf(m) ==
    IF VisitsOf(m) = {} THEN "not_started"
    ELSE visits[CHOOSE v \in VisitsOf(m) : TRUE].status

EvidenceOf(m) ==
    IF VisitsOf(m) = {} THEN [proofs |-> 0, events |-> 0]
    ELSE LET v == CHOOSE v \in VisitsOf(m) : TRUE
         IN  [proofs |-> Len(proofs[v]), events |-> Len(events[v])]

VL == INSTANCE VisitLifecycle WITH
        stage <- [m \in Missions |-> StageOf(m)],
        evidence <- [m \in Missions |-> EvidenceOf(m)]

\* Requests served one at a time take the visit through its life cycle: the
\* transaction of a request is one atomic step of it, or no step at all.
LifecycleRefined == VL!Lifecycle
=============================================================================
