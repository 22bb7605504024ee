--------------------------- MODULE FieldVisits_proofs ---------------------------
(***************************************************************************)
(* Theorems of FieldVisits, for any sets of requests in flight, missions,   *)
(* visits, keys and tokens, and whatever the commands and mission rows:     *)
(* first what a visit's row says of its mission, then what the row, its     *)
(* evidence and the records of the requests say of one another.             *)
(***************************************************************************)
EXTENDS FieldVisits, FiniteSetTheorems, TLAPS

-----------------------------------------------------------------------------
(* The operators *)

LEMMA CommandByOp ==
    ASSUME NEW c \in Commands
    PROVE  /\ c.op \in {"check_in", "confirm_host", "check_out"}
           /\ c.op = "check_in" => c \in CheckInCommand
           /\ c.op = "confirm_host" => c \in ConfirmHostCommand
           /\ c.op = "check_out" => c \in CheckOutCommand
<1>1. c \in Command
  BY ConstantsAssumption
<1> QED BY <1>1 DEF Command, CheckInCommand, ConfirmHostCommand, CheckOutCommand

LEMMA ScopeType == \A c \in Commands : Scope(c) \in ScopeSet /\ c.key \in Keys
<1>1. TAKE c \in Commands
<1>2. CASE c \in CheckInCommand
  BY <1>2 DEF CheckInCommand, Scope, ScopeSet
<1>3. CASE c \in ConfirmHostCommand
  BY <1>3 DEF ConfirmHostCommand, Scope, ScopeSet
<1>4. CASE c \in CheckOutCommand
  BY <1>4 DEF CheckOutCommand, Scope, ScopeSet
<1> QED BY <1>2, <1>3, <1>4, CommandByOp

LEMMA CheckInVerdictType ==
    ASSUME NEW c, NEW m
    PROVE  CheckInVerdict(c, m) \in ErrorCode \cup {"OK"}
BY DEF CheckInVerdict, ErrorCode

LEMMA ConfirmHostVerdictType ==
    ASSUME NEW c, NEW v, NEW m
    PROVE  ConfirmHostVerdict(c, v, m) \in ErrorCode \cup {"OK"}
<1>1. EvidenceVerdict(c, v, m) \in ErrorCode \cup {"OK"}
  <2>1. \A x, y, z : CopresenceModeA(x, y, z) \in ErrorCode \cup {"OK"}
    BY DEF CopresenceModeA, ErrorCode
  <2>2. QrJwtVerdict(c, m) \in ErrorCode \cup {"OK"}
    BY DEF QrJwtVerdict, ErrorCode
  <2>3. \A x, y : QrTokenValid(x, y, m) \in ErrorCode \cup {"OK"}
    BY DEF QrTokenValid, ErrorCode
  <2>4. \A x, y : SmsCodeValid(x, y, m) \in ErrorCode \cup {"OK"}
    BY DEF SmsCodeValid, ErrorCode
  <2> QED BY <2>1, <2>2, <2>3, <2>4 DEF EvidenceVerdict, ErrorCode
<1> QED BY <1>1 DEF ConfirmHostVerdict, MarkCopresenceVerdict, ErrorCode

LEMMA CheckOutVerdictType ==
    ASSUME NEW c, NEW v, NEW m
    PROVE  CheckOutRequestVerdict(c, v, m) \in ErrorCode \cup {"OK"}
BY DEF CheckOutRequestVerdict, CheckOutVerdict, ErrorCode

\* The transitions map visits to visits.
LEMMA StartCheckInType ==
    ASSUME NEW v \in SiteVisit, NEW t \in Time, NEW mode \in HostValidationMode,
           NEW p \in Positions
    PROVE  StartCheckIn(v, t, mode, p) \in SiteVisit
BY DEF StartCheckIn, SiteVisit, SiteVisitStatus, PendingHost

LEMMA MarkCopresenceOkType ==
    ASSUME NEW v \in SiteVisit, NEW p \in Positions \cup {None}
    PROVE  MarkCopresenceOk(v, p) \in SiteVisit
BY DEF MarkCopresenceOk, SiteVisit, SiteVisitStatus, CopresenceOk

LEMMA CheckOutType ==
    ASSUME NEW v \in SiteVisit, NEW t \in Time
    PROVE  CheckOut(v, t) \in SiteVisit
BY DEF CheckOut, SiteVisit, SiteVisitStatus, Completed

LEMMA NewVisitType ==
    ASSUME NEW m \in Missions
    PROVE  NewVisit(m) \in SiteVisit
BY DEF NewVisit, SiteVisit, SiteVisitStatus, Scheduled

LEMMA MergeType ==
    ASSUME NEW a \in SiteVisit, NEW b \in SiteVisit, NEW c \in SiteVisit
    PROVE  /\ Merge(a, b, c) \in SiteVisit
           /\ Merge(a, b, c).mission = a.mission
           /\ Merge(a, b, c).status \in {a.status, c.status}
BY DEF Merge, Column, SiteVisit

LEMMA GeofenceType ==
    ASSUME NEW p \in Int
    PROVE  GeofenceStatus(Haversine(p, 0)) \in {"OK", "APPROXIMATE", "REJECTED"}
BY RadiiAssumption DEF GeofenceStatus, Haversine

LEMMA SingletonType ==
    ASSUME NEW S, NEW x \in S
    PROVE  <<>> \in Seq(S) /\ <<x>> \in Seq(S)
OBVIOUS

LEMMA ConcatenationType ==
    ASSUME NEW S, NEW a \in Seq(S), NEW b \in Seq(S)
    PROVE  a \o b \in Seq(S) /\ (a # <<>> \/ b # <<>> => a \o b # <<>>)
OBVIOUS

-----------------------------------------------------------------------------
(* Type correctness.  TypeOK is not inductive: Commit writes the object of a *)
(* request and merges it into a row, so a request about to commit must have  *)
(* an object and a visit, and the row that save read must still be there.    *)

HasObject(q) == q.pc \in {"save", "commit"} \/ q.object # None

WellFormed(q) ==
    /\ q.pc # "idle" => q.cmd \in Commands
    /\ q.pc \in {"load", "save"} => q.base = None
    /\ HasObject(q) =>
          /\ q.cmd \in Commands
          /\ q.object \in SiteVisit
          /\ q.visit \in Visits
          /\ q.cmd.op = "check_in"
                => GeofenceStatus(Haversine(q.cmd.pos, 0)) # "REJECTED"
    /\ q.base # None => q.visit \in Visits /\ visits[q.visit] \in SiteVisit

RequestsWellFormed == \A s \in Slots : WellFormed(req[s])

TypeInv == TypeOK /\ RequestsWellFormed

LEMMA IdleType == Idle \in Request /\ WellFormed(Idle)
BY ConstantsAssumption
   DEF Idle, Request, WellFormed, HasObject, Error, Response, ErrorCode, Time

\* What most steps do: one request changes, no row does.
LEMMA RequestStep ==
    ASSUME TypeInv, NEW s \in Slots, NEW q \in Request, WellFormed(q),
           req' = [req EXCEPT ![s] = q],
           UNCHANGED <<now, missions, tables, issued>>,
           acks' \subseteq [scope : ScopeSet, key : Keys, response : Response]
    PROVE  TypeInv'
<1>1. TypeOK'
  BY DEF TypeInv, TypeOK, tables
<1>2. RequestsWellFormed'
  <2>1. SUFFICES ASSUME NEW t \in Slots PROVE WellFormed(req[t])'
    BY DEF RequestsWellFormed
  <2>2. req'[t] = IF t = s THEN q ELSE req[t]
    BY DEF TypeInv, TypeOK
  <2>3. visits' = visits
    BY DEF tables
  <2> QED BY <2>2, <2>3 DEF TypeInv, RequestsWellFormed, WellFormed, HasObject
<1> QED BY <1>1, <1>2 DEF TypeInv

LEMMA TypeInit == Init => TypeInv
<1>1. SUFFICES ASSUME Init PROVE TypeInv
  OBVIOUS
<1>2. TypeOK
  BY <1>1, ConstantsAssumption, IdleType DEF Init, TypeOK, Time
<1>3. RequestsWellFormed
  BY <1>1, IdleType DEF Init, RequestsWellFormed
<1> QED BY <1>2, <1>3 DEF TypeInv

LEMMA ReceiveType ==
    ASSUME TypeInv, NEW s \in Slots, NEW c \in Commands, Receive(s, c)
    PROVE  TypeInv'
<1> DEFINE q == IF Recorded(c) = {}
                THEN [Idle EXCEPT !.pc = "load", !.cmd = c]
                ELSE [Idle EXCEPT !.pc = "reply", !.cmd = c,
                        !.response = (CHOOSE r \in Recorded(c) : TRUE).response]
<1>1. req' = [req EXCEPT ![s] = q] /\ UNCHANGED <<now, missions, tables, issued, acks>>
  BY DEF Receive
<1>2. Recorded(c) # {} => (CHOOSE r \in Recorded(c) : TRUE).response \in Response
  BY DEF Recorded, TypeInv, TypeOK, IdempotencyRecord
<1>3. q \in Request
  BY <1>2, IdleType DEF Request
<1>4. WellFormed(q)
  BY DEF WellFormed, HasObject, Idle
<1> HIDE DEF q
<1> QED BY <1>1, <1>3, <1>4, RequestStep DEF TypeInv, TypeOK

LEMMA RefuseType ==
    ASSUME TypeInv, NEW s \in Slots, NEW code \in ErrorCode, req[s].pc # "idle",
           Refuse(s, code), UNCHANGED <<now, missions, tables, issued, acks>>
    PROVE  TypeInv'
<1> DEFINE q == [req[s] EXCEPT !.pc = "reply", !.response = Error(code)]
<1>1. req[s] \in Request /\ WellFormed(req[s])
  BY DEF TypeInv, TypeOK, RequestsWellFormed
<1>2. q \in Request
  BY <1>1 DEF Request, Error, Response
<1>3. WellFormed(q)
  BY <1>1 DEF WellFormed, HasObject, Request
<1>4. req' = [req EXCEPT ![s] = q]
  BY DEF Refuse
<1> HIDE DEF q
<1> QED BY <1>2, <1>3, <1>4, RequestStep DEF TypeInv, TypeOK

LEMMA ProceedType ==
    ASSUME TypeInv, NEW s \in Slots, NEW v \in Visits, NEW o \in SiteVisit,
           NEW r \in Response, req[s].pc = "load",
           req[s].cmd.op = "check_in"
                => GeofenceStatus(Haversine(req[s].cmd.pos, 0)) # "REJECTED",
           Proceed(s, v, o, r), UNCHANGED <<now, missions, tables, issued, acks>>
    PROVE  TypeInv'
<1> DEFINE q == [req[s] EXCEPT !.pc = "save", !.at = now, !.visit = v,
                               !.object = o, !.response = r]
<1>1. req[s] \in Request /\ WellFormed(req[s]) /\ now \in Time
  BY DEF TypeInv, TypeOK, RequestsWellFormed
<1>2. q \in Request
  BY <1>1 DEF Request
<1>3. WellFormed(q)
  BY <1>1 DEF WellFormed, HasObject, Request
<1>4. req' = [req EXCEPT ![s] = q]
  BY DEF Proceed
<1> HIDE DEF q
<1> QED BY <1>2, <1>3, <1>4, RequestStep DEF TypeInv, TypeOK

LEMMA LoadCheckInType ==
    ASSUME TypeInv, NEW s \in Slots, LoadCheckIn(s)
    PROVE  TypeInv'
<1> DEFINE c == req[s].cmd
           m == missions[c.mission]
<1>1. c \in CheckInCommand
  BY CommandByOp DEF LoadCheckIn, TypeInv, RequestsWellFormed, WellFormed
<1>2. UNCHANGED <<now, missions, tables, issued, acks>>
  BY DEF LoadCheckIn
<1>3. CASE CheckInVerdict(c, m) # "OK" /\ Refuse(s, CheckInVerdict(c, m))
  <2>1. CheckInVerdict(c, m) \in ErrorCode
    BY <1>3, CheckInVerdictType
  <2> QED BY <1>2, <1>3, <2>1, RefuseType DEF LoadCheckIn
<1>4. CASE CheckInVerdict(c, m) = "OK"
  <2>1. GeofenceStatus(Haversine(c.pos, 0)) # "REJECTED"
    BY <1>4 DEF CheckInVerdict
  <2>2. PICK v \in IF VisitsOf(c.mission) = {} THEN FreshIds ELSE VisitsOf(c.mission) :
            LET visit == IF visits[v] = None THEN NewVisit(c.mission) ELSE visits[v]
            IN  Proceed(s, v, StartCheckIn(visit, now, c.mode, c.pos), Ok(v, None))
    BY <1>4 DEF LoadCheckIn
  <2> DEFINE visit == IF visits[v] = None THEN NewVisit(c.mission) ELSE visits[v]
  <2>3. v \in Visits
    BY DEF FreshIds, VisitsOf
  <2>4. visit \in SiteVisit
    BY <1>1, <2>3, NewVisitType DEF CheckInCommand, TypeInv, TypeOK
  <2>5. StartCheckIn(visit, now, c.mode, c.pos) \in SiteVisit
    BY <1>1, <2>4, StartCheckInType DEF CheckInCommand, TypeInv, TypeOK
  <2>6. Ok(v, None) \in Response
    BY <2>3 DEF Ok, Response
  <2> QED BY <1>2, <2>1, <2>2, <2>3, <2>5, <2>6, ProceedType DEF LoadCheckIn
<1> QED BY <1>3, <1>4 DEF LoadCheckIn

LEMMA LoadConfirmHostType ==
    ASSUME TypeInv, NEW s \in Slots, LoadConfirmHost(s)
    PROVE  TypeInv'
<1> DEFINE c == req[s].cmd
           visit == visits[c.visit]
           verdict == ConfirmHostVerdict(c, visit, missions[c.mission])
<1>1. c \in ConfirmHostCommand
  BY CommandByOp DEF LoadConfirmHost, TypeInv, RequestsWellFormed, WellFormed
<1>2. UNCHANGED <<now, missions, tables, issued, acks>>
  BY DEF LoadConfirmHost
<1>3. CASE verdict # "OK" /\ Refuse(s, verdict)
  <2>1. verdict \in ErrorCode
    BY <1>3, ConfirmHostVerdictType
  <2> QED BY <1>2, <1>3, <2>1, RefuseType DEF LoadConfirmHost
<1>4. CASE verdict = "OK"
           /\ Proceed(s, c.visit, MarkCopresenceOk(visit, c.pos), Ok(c.visit, None))
  <2>1. visit # None
    BY <1>4 DEF ConfirmHostVerdict
  <2>2. c.visit \in Visits /\ c.pos \in Positions \cup {None} /\ c.op # "check_in"
    BY <1>1 DEF ConfirmHostCommand
  <2>3. MarkCopresenceOk(visit, c.pos) \in SiteVisit
    BY <2>1, <2>2, MarkCopresenceOkType DEF TypeInv, TypeOK
  <2>4. Ok(c.visit, None) \in Response
    BY <2>2 DEF Ok, Response
  <2> QED BY <1>2, <1>4, <2>2, <2>3, <2>4, ProceedType DEF LoadConfirmHost
<1> QED BY <1>3, <1>4 DEF LoadConfirmHost

LEMMA LoadCheckOutType ==
    ASSUME TypeInv, NEW s \in Slots, LoadCheckOut(s)
    PROVE  TypeInv'
<1> DEFINE c == req[s].cmd
           visit == visits[c.visit]
           verdict == CheckOutRequestVerdict(c, visit, missions[c.mission])
<1>1. c \in CheckOutCommand
  BY CommandByOp DEF LoadCheckOut, TypeInv, RequestsWellFormed, WellFormed
<1>2. UNCHANGED <<now, missions, tables, issued, acks>>
  BY DEF LoadCheckOut
<1>3. CASE verdict # "OK" /\ Refuse(s, verdict)
  <2>1. verdict \in ErrorCode
    BY <1>3, CheckOutVerdictType
  <2> QED BY <1>2, <1>3, <2>1, RefuseType DEF LoadCheckOut
<1>4. CASE verdict = "OK" /\ Proceed(s, c.visit, CheckOut(visit, now), Ok(c.visit, now))
  <2>1. visit # None
    BY <1>4 DEF CheckOutRequestVerdict
  <2>2. c.visit \in Visits /\ c.op # "check_in" /\ now \in Time
    BY <1>1 DEF CheckOutCommand, TypeInv, TypeOK
  <2>3. CheckOut(visit, now) \in SiteVisit
    BY <2>1, <2>2, CheckOutType DEF TypeInv, TypeOK
  <2>4. Ok(c.visit, now) \in Response
    BY <2>2 DEF Ok, Response
  <2> QED BY <1>2, <1>4, <2>2, <2>3, <2>4, ProceedType DEF LoadCheckOut
<1> QED BY <1>3, <1>4 DEF LoadCheckOut

LEMMA SaveType ==
    ASSUME TypeInv, NEW s \in Slots, Save(s)
    PROVE  TypeInv'
<1> DEFINE q == [req[s] EXCEPT !.pc = IF ReplyFirst THEN "reply" ELSE "commit",
                               !.base = visits[req[s].visit]]
<1>1. /\ req[s] \in Request /\ WellFormed(req[s])
      /\ req[s].pc = "save" /\ HasObject(req[s])
      /\ visits[req[s].visit] \in SiteVisit \cup {None}
  BY DEF Save, TypeInv, TypeOK, RequestsWellFormed, WellFormed, HasObject
<1>2. q \in Request
  BY <1>1 DEF Request
<1>3. WellFormed(q)
  BY <1>1 DEF WellFormed, HasObject, Request
<1>4. req' = [req EXCEPT ![s] = q] /\ UNCHANGED <<now, missions, tables, issued, acks>>
  BY DEF Save
<1> HIDE DEF q
<1> QED BY <1>2, <1>3, <1>4, RequestStep DEF TypeInv, TypeOK

\* What a request leaves behind when it commits.
LEMMA CommittedTypes ==
    ASSUME TypeInv, NEW s \in Slots, req[s].pc = "commit"
    PROVE  /\ ProofsOf(req[s]) \in Seq(PresenceProof)
           /\ EventsOf(req[s]) \in Seq(CoPresenceEvent)
           /\ RecordOf(req[s]) \in IdempotencyRecord
           /\ req[s].cmd.mission \in Missions
<1> DEFINE q == req[s]
<1>1. q \in Request /\ HasObject(q) /\ WellFormed(q)
  BY DEF TypeInv, TypeOK, RequestsWellFormed, HasObject
<1>2. q.cmd \in Commands /\ q.object \in SiteVisit /\ q.at \in Time /\ q.response \in Response
  BY <1>1 DEF WellFormed, Request
<1>3. RecordOf(q) \in IdempotencyRecord
  BY <1>2, ScopeType DEF RecordOf, IdempotencyRecord
<1>4. EventsOf(q) \in Seq(CoPresenceEvent)
  <2>1. [validatedAt |-> q.at, mode |-> q.object.mode] \in CoPresenceEvent
    BY <1>2 DEF CoPresenceEvent, SiteVisit
  <2> QED BY <2>1, SingletonType DEF EventsOf
<1>5. CASE q.cmd.op = "check_in"
  <2>1. q.cmd \in CheckInCommand
    BY <1>2, <1>5, CommandByOp
  <2>2. GeofenceStatus(Haversine(q.cmd.pos, 0)) \in {"OK", "APPROXIMATE"}
    BY <1>1, <1>5, <2>1, GeofenceType, ConstantsAssumption DEF WellFormed, CheckInCommand
  <2> QED BY <1>2, <1>3, <1>4, <1>5, <2>1, <2>2 DEF ProofsOf, PresenceProof, CheckInCommand
<1>6. CASE q.cmd.op = "confirm_host"
  <2>1. q.cmd \in ConfirmHostCommand
    BY <1>2, <1>6, CommandByOp
  <2> QED BY <1>2, <1>3, <1>4, <1>6, <2>1
          DEF ProofsOf, PresenceProof, ConfirmHostCommand, SiteVisit
<1>7. CASE q.cmd.op = "check_out"
  <2>1. q.cmd \in CheckOutCommand
    BY <1>2, <1>7, CommandByOp
  <2> QED BY <1>2, <1>3, <1>4, <1>7, <2>1 DEF ProofsOf, CheckOutCommand
<1> QED BY <1>2, <1>5, <1>6, <1>7, CommandByOp

\* The row a commit writes: the visit's, which keeps its mission if it existed.
LEMMA CommittedRow ==
    ASSUME TypeInv, NEW s \in Slots, Commit(s)
    PROVE  LET q == req[s]
               row == IF q.base = None THEN q.object
                      ELSE Merge(visits[q.visit], q.base, q.object)
           IN  /\ q.visit \in Visits
               /\ q.object \in SiteVisit
               /\ row \in SiteVisit
               /\ visits' = [visits EXCEPT ![q.visit] = row]
               /\ q.base # None => /\ visits[q.visit] \in SiteVisit
                                   /\ q.base \in SiteVisit
                                   /\ row.mission = visits[q.visit].mission
               /\ q.base = None => /\ row = q.object
                                   /\ VisitsOf(q.object.mission) = {}
<1> DEFINE q == req[s]
<1>1. q.pc = "commit" /\ q \in Request /\ HasObject(q) /\ WellFormed(q)
  BY DEF Commit, TypeInv, TypeOK, RequestsWellFormed, HasObject
<1>2. q.visit \in Visits /\ q.object \in SiteVisit
  BY <1>1 DEF WellFormed
<1>3. CASE q.base = None
  BY <1>2, <1>3 DEF Commit, IntegrityError, MissionTaken
<1>4. CASE q.base # None
  <2>1. visits[q.visit] \in SiteVisit /\ q.base \in SiteVisit
    BY <1>1, <1>4 DEF WellFormed, Request
  <2> QED BY <1>2, <1>4, <2>1, MergeType DEF Commit
<1> QED BY <1>3, <1>4

\* The request after its commit: forgotten, or about to be answered.
LEMMA CommittedRequest ==
    ASSUME TypeInv, NEW s \in Slots, Commit(s)
    PROVE  \E q \in Request :
              /\ req' = [req EXCEPT ![s] = q]
              /\ q = Idle \/ q = [req[s] EXCEPT !.pc = "reply"]
              /\ q = Idle <=> ReplyFirst
              /\ WellFormed(q)
<1> DEFINE q == IF ReplyFirst THEN Idle ELSE [req[s] EXCEPT !.pc = "reply"]
<1>1. req[s] \in Request /\ WellFormed(req[s]) /\ req[s].pc = "commit"
  BY DEF Commit, TypeInv, TypeOK, RequestsWellFormed
<1>2. q \in Request
  BY <1>1, IdleType DEF Request
<1>3. WellFormed(q)
  BY <1>1, IdleType DEF WellFormed, HasObject, Request
<1>4. req' = [req EXCEPT ![s] = q]
  BY DEF Commit
<1>5. q = Idle <=> ReplyFirst
  BY <1>1 DEF Idle, Request
<1> HIDE DEF q
<1>6. q = Idle \/ q = [req[s] EXCEPT !.pc = "reply"]
  BY DEF q
<1> QED BY <1>2, <1>3, <1>4, <1>5, <1>6

LEMMA CommitType ==
    ASSUME TypeInv, NEW s \in Slots, Commit(s)
    PROVE  TypeInv'
<1>1. PICK q \in Request : req' = [req EXCEPT ![s] = q] /\ WellFormed(q)
  BY CommittedRequest
<1>2. PICK row \in SiteVisit : visits' = [visits EXCEPT ![req[s].visit] = row]
  BY CommittedRow
<1>3. /\ req[s].pc = "commit"
      /\ ProofsOf(req[s]) \in Seq(PresenceProof)
      /\ EventsOf(req[s]) \in Seq(CoPresenceEvent)
      /\ RecordOf(req[s]) \in IdempotencyRecord
      /\ req[s].cmd.mission \in Missions
  BY CommittedTypes DEF Commit
<1>4. TypeOK'
  <2>1. visits' \in [Visits -> SiteVisit \cup {None}] /\ req' \in [Slots -> Request]
    BY <1>1, <1>2 DEF TypeInv, TypeOK
  <2>2. proofs' \in [Visits -> Seq(PresenceProof)] /\ events' \in [Visits -> Seq(CoPresenceEvent)]
    <3> DEFINE more(f, extra) == [f EXCEPT ![req[s].visit] = @ \o extra]
    <3>1. \A S : \A f \in [Visits -> Seq(S)], extra \in Seq(S) :
             more(f, extra) \in [Visits -> Seq(S)]
      BY ConcatenationType
    <3>2. proofs' = more(proofs, ProofsOf(req[s])) /\ events' = more(events, EventsOf(req[s]))
      BY DEF Commit
    <3> HIDE DEF more
    <3> QED BY <1>3, <3>1, <3>2 DEF TypeInv, TypeOK
  <2>3. idem' \subseteq IdempotencyRecord /\ usedJti' \in [Jtis -> Missions \cup {None}]
    BY <1>3 DEF Commit, TypeInv, TypeOK
  <2> QED BY <2>1, <2>2, <2>3 DEF Commit, TypeInv, TypeOK
<1>5. RequestsWellFormed'
  <2>1. SUFFICES ASSUME NEW t \in Slots PROVE WellFormed(req[t])'
    BY DEF RequestsWellFormed
  <2>2. req'[t] = IF t = s THEN q ELSE req[t]
    BY <1>1 DEF TypeInv, TypeOK
  <2>3. \A v \in Visits : visits[v] \in SiteVisit => visits'[v] \in SiteVisit
    BY <1>2 DEF TypeInv, TypeOK
  <2> QED BY <1>1, <2>2, <2>3 DEF TypeInv, RequestsWellFormed, WellFormed, HasObject
<1> QED BY <1>4, <1>5 DEF TypeInv

\* A request that is over, without trace.
LEMMA ForgetType ==
    ASSUME TypeInv, NEW s \in Slots, req' = [req EXCEPT ![s] = Idle],
           UNCHANGED <<now, missions, tables, issued>>,
           acks' \subseteq [scope : ScopeSet, key : Keys, response : Response]
    PROVE  TypeInv'
BY IdleType, RequestStep

LEMMA RollBackType ==
    ASSUME TypeInv, NEW s \in Slots, RollBack(s)
    PROVE  TypeInv'
<1>1. req[s].pc # "idle" /\ UNCHANGED <<now, missions, tables, issued, acks>>
  BY DEF RollBack
<1>2. "INTERNAL_ERROR" \in ErrorCode
  BY DEF ErrorCode
<1>3. CASE ReplyFirst
  BY <1>1, <1>3, ForgetType DEF RollBack, TypeInv, TypeOK
<1>4. CASE ~ReplyFirst
  BY <1>1, <1>2, <1>4, RefuseType DEF RollBack
<1> QED BY <1>3, <1>4

LEMMA ReplyType ==
    ASSUME TypeInv, NEW s \in Slots, Reply(s)
    PROVE  TypeInv'
<1>1. req[s] \in Request /\ WellFormed(req[s]) /\ req[s].pc = "reply"
  BY DEF Reply, TypeInv, TypeOK, RequestsWellFormed
<1>2. acks' \subseteq [scope : ScopeSet, key : Keys, response : Response]
  BY <1>1, ScopeType DEF Reply, WellFormed, Request, TypeInv, TypeOK
<1>3. UNCHANGED <<now, missions, tables, issued>>
  BY DEF Reply
<1>4. CASE ReplyFirst /\ req[s].object # None
  <2> DEFINE q == [req[s] EXCEPT !.pc = "commit"]
  <2>1. q \in Request
    BY <1>1 DEF Request
  <2>2. WellFormed(q)
    BY <1>1, <1>4 DEF WellFormed, HasObject, Request
  <2>3. req' = [req EXCEPT ![s] = q]
    BY <1>4 DEF Reply
  <2> HIDE DEF q
  <2> QED BY <1>2, <1>3, <2>1, <2>2, <2>3, RequestStep
<1>5. CASE ~(ReplyFirst /\ req[s].object # None)
  BY <1>2, <1>3, <1>5, ForgetType DEF Reply
<1> QED BY <1>4, <1>5

LEMMA AroundType ==
    ASSUME TypeInv,
           \/ \E m \in Missions, j \in Jtis : IssueHostQrJwt(m, j)
           \/ \E m \in Missions, row \in MissionRows : MissionSaved(m, row)
           \/ Restart
           \/ Tick
    PROVE  TypeInv'
<1>1. CASE \E m \in Missions, j \in Jtis : IssueHostQrJwt(m, j)
  <2>1. PICK m \in Missions, j \in Jtis : IssueHostQrJwt(m, j)
    BY <1>1
  <2>2. missions[m].windowEnd \in Nat /\ now + JwtTtl \in Nat
    BY ConstantsAssumption DEF TypeInv, TypeOK, MissionRow, Time
  <2> DEFINE token == [mission |-> m,
                       exp |-> IF now + JwtTtl > missions[m].windowEnd
                               THEN missions[m].windowEnd ELSE now + JwtTtl]
  <2>3. token \in [mission : Missions, exp : Nat]
    BY <2>2
  <2>4. issued' = [issued EXCEPT ![j] = token]
    BY <2>1 DEF IssueHostQrJwt
  <2> HIDE DEF token
  <2>5. TypeOK'
    BY <2>1, <2>3, <2>4 DEF IssueHostQrJwt, TypeInv, TypeOK, tables
  <2> QED BY <2>1, <2>5
          DEF IssueHostQrJwt, TypeInv, tables, RequestsWellFormed, WellFormed, HasObject
<1>2. CASE \E m \in Missions, row \in MissionRows : MissionSaved(m, row)
  <2>1. TypeOK'
    BY <1>2 DEF MissionSaved, TypeInv, TypeOK, tables
  <2> QED BY <1>2, <2>1
          DEF MissionSaved, TypeInv, tables, RequestsWellFormed, WellFormed, HasObject
<1>3. CASE Restart
  <2>1. TypeOK'
    BY <1>3, IdleType DEF Restart, TypeInv, TypeOK
  <2>2. RequestsWellFormed'
    BY <1>3, IdleType DEF Restart, RequestsWellFormed, WellFormed, HasObject, Idle
  <2> QED BY <2>1, <2>2 DEF TypeInv
<1>4. CASE Tick
  <2>1. TypeOK'
    BY <1>4, ConstantsAssumption DEF Tick, Time, TypeInv, TypeOK, tables
  <2> QED BY <1>4, <2>1
          DEF Tick, TypeInv, tables, RequestsWellFormed, WellFormed, HasObject
<1> QED BY <1>1, <1>2, <1>3, <1>4

LEMMA TypeStep == TypeInv /\ [Next]_vars => TypeInv'
<1>1. SUFFICES ASSUME TypeInv, [Next]_vars PROVE TypeInv'
  OBVIOUS
<1>2. ASSUME NEW s \in Slots, NEW c \in Commands, Receive(s, c) PROVE TypeInv'
  BY <1>1, <1>2, ReceiveType
<1>3. ASSUME NEW s \in Slots, LoadCheckIn(s) PROVE TypeInv'
  BY <1>1, <1>3, LoadCheckInType
<1>4. ASSUME NEW s \in Slots, LoadConfirmHost(s) PROVE TypeInv'
  BY <1>1, <1>4, LoadConfirmHostType
<1>5. ASSUME NEW s \in Slots, LoadCheckOut(s) PROVE TypeInv'
  BY <1>1, <1>5, LoadCheckOutType
<1>6. ASSUME NEW s \in Slots, Save(s) PROVE TypeInv'
  BY <1>1, <1>6, SaveType
<1>7. ASSUME NEW s \in Slots, Commit(s) PROVE TypeInv'
  BY <1>1, <1>7, CommitType
<1>8. ASSUME NEW s \in Slots, RollBack(s) PROVE TypeInv'
  BY <1>1, <1>8, RollBackType
<1>9. ASSUME NEW s \in Slots, Reply(s) PROVE TypeInv'
  BY <1>1, <1>9, ReplyType
<1>10. ASSUME NEW s \in Slots, Drop(s) PROVE TypeInv'
  BY <1>1, <1>10, ForgetType DEF Drop, TypeInv, TypeOK
<1>11. CASE UNCHANGED vars
  BY <1>1, <1>11
     DEF vars, tables, TypeInv, TypeOK, RequestsWellFormed, WellFormed, HasObject
<1> QED BY <1>1, <1>2, <1>3, <1>4, <1>5, <1>6, <1>7, <1>8, <1>9, <1>10, <1>11, AroundType
        DEF Next

\* Every table, every request in flight and every answer keeps its type,
\* whatever clients send, in every order of the steps of their requests.
THEOREM TypeCorrect == Spec => []TypeOK
<1>1. Init => TypeInv
  BY TypeInit
<1>2. TypeInv /\ [Next]_vars => TypeInv'
  BY TypeStep
<1>3. TypeInv => TypeOK
  BY DEF TypeInv
<1> QED BY <1>1, <1>2, <1>3, PTL DEF Spec

-----------------------------------------------------------------------------
(* One visit per mission.  Only a commit writes rows; the row it adds is that *)
(* of a mission without visit (the unique constraint), and a merge keeps the  *)
(* mission of the row, so OneVisitPerMission is inductive relative to TypeInv. *)

\* Steps other than a commit leave the tables of visits and evidence alone.
LEMMA OnlyCommitWrites ==
    ASSUME [Next]_vars
    PROVE  \/ UNCHANGED <<visits, proofs, events, usedJti>>
           \/ \E s \in Slots : Commit(s)
<1>1. CASE \E s \in Slots :
              \/ \E c \in Commands : Receive(s, c)
              \/ LoadCheckIn(s) \/ LoadConfirmHost(s) \/ LoadCheckOut(s)
              \/ Save(s) \/ RollBack(s) \/ Reply(s) \/ Drop(s)
  BY <1>1 DEF Receive, LoadCheckIn, LoadConfirmHost, LoadCheckOut, Save, RollBack,
              Reply, Drop, tables
<1>2. CASE \/ \E m \in Missions, j \in Jtis : IssueHostQrJwt(m, j)
           \/ \E m \in Missions, row \in MissionRows : MissionSaved(m, row)
           \/ Restart
           \/ Tick
  BY <1>2 DEF IssueHostQrJwt, MissionSaved, Restart, Tick, tables
<1>3. CASE UNCHANGED vars
  BY <1>3 DEF vars, tables
<1> QED BY <1>1, <1>2, <1>3 DEF Next

LEMMA OneVisitStep ==
    TypeInv /\ OneVisitPerMission /\ [Next]_vars => OneVisitPerMission'
<1>1. SUFFICES ASSUME TypeInv, OneVisitPerMission, [Next]_vars
               PROVE  OneVisitPerMission'
  OBVIOUS
<1>2. CASE UNCHANGED visits
  BY <1>1, <1>2 DEF OneVisitPerMission
<1>3. ASSUME NEW s \in Slots, Commit(s) PROVE OneVisitPerMission'
  <2> DEFINE q == req[s]
             row == IF q.base = None THEN q.object
                    ELSE Merge(visits[q.visit], q.base, q.object)
  <2>1. /\ q.visit \in Visits
        /\ visits' = [visits EXCEPT ![q.visit] = row]
        /\ row \in SiteVisit
        /\ q.base # None => /\ visits[q.visit] \in SiteVisit
                            /\ row.mission = visits[q.visit].mission
        /\ q.base = None => /\ row = q.object
                            /\ VisitsOf(q.object.mission) = {}
    BY <1>1, <1>3, CommittedRow
  <2> HIDE DEF row
  <2>2. visits \in [Visits -> SiteVisit \cup {None}]
    BY <1>1 DEF TypeInv, TypeOK
  <2>3. CASE q.base = None
    \* No other row has the mission of the new one.
    BY <1>1, <2>1, <2>2, <2>3 DEF OneVisitPerMission, VisitsOf
  <2>4. CASE q.base # None
    <3>1. visits[q.visit] # None
      BY <2>1, <2>4, NoneAssumption
    <3> QED BY <1>1, <2>1, <2>2, <2>4, <3>1 DEF OneVisitPerMission
  <2> QED BY <2>3, <2>4
<1> QED BY <1>1, <1>2, <1>3, OnlyCommitWrites

\* A mission never has two visits, however many check-ins race on it.
THEOREM OneVisit == Spec => []OneVisitPerMission
<1>1. Init => TypeInv /\ OneVisitPerMission
  BY TypeInit DEF Init, OneVisitPerMission
<1>2. TypeInv /\ OneVisitPerMission /\ [Next]_vars => TypeInv' /\ OneVisitPerMission'
  BY TypeStep, OneVisitStep
<1> QED BY <1>1, <1>2, PTL DEF Spec

-----------------------------------------------------------------------------
(* Evidence before status.  A check-out that passed its checks may commit    *)
(* much later, when the row has changed: what holds until then is that the   *)
(* visit has an event, because events are only ever added.                   *)

CheckOutsBacked ==
    \A s \in Slots :
        LET q == req[s]
        IN  HasObject(q) /\ q.object.status \in {CopresenceOk, Completed}
                => q.cmd.op = "confirm_host" \/ events[q.visit] # <<>>

EvidenceInv == TypeInv /\ EvidenceBacksStatus /\ CheckOutsBacked

\* A step of request s that adds events only, and leaves s backed.
LEMMA BackedStep ==
    ASSUME EvidenceInv, NEW s \in Slots, TypeInv', EvidenceBacksStatus',
           NEW q, req' = [req EXCEPT ![s] = q],
           \A v \in Visits : events[v] # <<>> => events'[v] # <<>>,
           HasObject(q) /\ q.object.status \in {CopresenceOk, Completed}
                => q.cmd.op = "confirm_host" \/ events'[q.visit] # <<>>
    PROVE  EvidenceInv'
<1>1. SUFFICES ASSUME NEW t \in Slots,
                      HasObject(req'[t]),
                      req'[t].object.status \in {CopresenceOk, Completed}
               PROVE  req'[t].cmd.op = "confirm_host" \/ events'[req'[t].visit] # <<>>
  BY DEF EvidenceInv, CheckOutsBacked, HasObject
<1>2. req'[t] = IF t = s THEN q ELSE req[t]
  BY DEF EvidenceInv, TypeInv, TypeOK
<1>3. CASE t = s
  BY <1>1, <1>2, <1>3
<1>4. CASE t # s
  <2>1. HasObject(req[t]) => req[t].visit \in Visits
    BY DEF EvidenceInv, TypeInv, RequestsWellFormed, WellFormed
  <2> QED BY <1>1, <1>2, <1>4, <2>1 DEF EvidenceInv, CheckOutsBacked
<1> QED BY <1>3, <1>4

\* A step in memory: the object of the request is the one it had, or backed.
LEMMA BackedInMemory ==
    ASSUME EvidenceInv, NEW s \in Slots, TypeInv', UNCHANGED <<visits, events>>,
           NEW q, req' = [req EXCEPT ![s] = q],
           \/ ~HasObject(q)
           \/ /\ HasObject(req[s])
              /\ q.cmd = req[s].cmd /\ q.object = req[s].object /\ q.visit = req[s].visit
           \/ q.object.status \in {CopresenceOk, Completed}
                => q.cmd.op = "confirm_host" \/ events[q.visit] # <<>>
    PROVE  EvidenceInv'
<1>1. EvidenceBacksStatus'
  BY DEF EvidenceInv, EvidenceBacksStatus
<1> QED BY <1>1, BackedStep DEF EvidenceInv, CheckOutsBacked

LEMMA LoadBacked ==
    ASSUME EvidenceInv, TypeInv', NEW s \in Slots,
           LoadCheckIn(s) \/ LoadConfirmHost(s) \/ LoadCheckOut(s)
    PROVE  EvidenceInv'
<1> DEFINE c == req[s].cmd
<1>1. req[s] \in Request /\ WellFormed(req[s]) /\ req[s].pc = "load" /\ c \in Commands
  BY DEF EvidenceInv, TypeInv, TypeOK, RequestsWellFormed, WellFormed,
         LoadCheckIn, LoadConfirmHost, LoadCheckOut
<1>2. UNCHANGED <<visits, events>>
  BY DEF LoadCheckIn, LoadConfirmHost, LoadCheckOut, tables
<1>3. ASSUME NEW code, Refuse(s, code) PROVE EvidenceInv'
  <2> DEFINE q == [req[s] EXCEPT !.pc = "reply", !.response = Error(code)]
  <2>1. /\ HasObject(q) => HasObject(req[s])
        /\ q.cmd = req[s].cmd /\ q.object = req[s].object /\ q.visit = req[s].visit
    BY <1>1 DEF HasObject, Request
  <2>2. req' = [req EXCEPT ![s] = q]
    BY <1>3 DEF Refuse
  <2> HIDE DEF q
  <2> QED BY <1>2, <2>1, <2>2, BackedInMemory
<1>4. ASSUME NEW v \in Visits, NEW o, NEW r, Proceed(s, v, o, r),
             o.status \in {CopresenceOk, Completed}
                => c.op = "confirm_host" \/ events[v] # <<>>
      PROVE  EvidenceInv'
  <2> DEFINE q == [req[s] EXCEPT !.pc = "save", !.at = now, !.visit = v,
                                 !.object = o, !.response = r]
  <2>1. q.cmd = c /\ q.object = o /\ q.visit = v
    BY <1>1 DEF Request
  <2>2. req' = [req EXCEPT ![s] = q]
    BY <1>4 DEF Proceed
  <2> HIDE DEF q
  <2> QED BY <1>2, <1>4, <2>1, <2>2, BackedInMemory
<1>5. CASE LoadCheckIn(s)
  <2>1. CASE \E code : Refuse(s, code)
    BY <1>3, <2>1
  <2>2. CASE \E v \in Visits, visit \in SiteVisit :
                Proceed(s, v, StartCheckIn(visit, now, c.mode, c.pos), Ok(v, None))
    <3>1. PICK v \in Visits, visit \in SiteVisit :
                Proceed(s, v, StartCheckIn(visit, now, c.mode, c.pos), Ok(v, None))
      BY <2>2
    <3>2. StartCheckIn(visit, now, c.mode, c.pos).status = PendingHost
      BY DEF StartCheckIn, SiteVisit
    <3> QED BY <1>4, <3>1, <3>2 DEF PendingHost, CopresenceOk, Completed
  <2>3. c \in CheckInCommand
    BY <1>1, <1>5, CommandByOp DEF LoadCheckIn
  <2>4. ASSUME NEW v \in IF VisitsOf(c.mission) = {} THEN FreshIds ELSE VisitsOf(c.mission)
        PROVE  v \in Visits /\ (IF visits[v] = None THEN NewVisit(c.mission)
                                                   ELSE visits[v]) \in SiteVisit
    BY <2>3, <2>4, NewVisitType
       DEF FreshIds, VisitsOf, CheckInCommand, EvidenceInv, TypeInv, TypeOK
  <2> QED BY <1>5, <2>1, <2>2, <2>4 DEF LoadCheckIn
<1>6. CASE LoadConfirmHost(s)
  <2>1. c \in ConfirmHostCommand
    BY <1>1, <1>6, CommandByOp DEF LoadConfirmHost
  <2> QED BY <1>3, <1>4, <1>6, <2>1 DEF LoadConfirmHost, ConfirmHostCommand
<1>7. CASE LoadCheckOut(s)
  <2> DEFINE visit == visits[c.visit]
             verdict == CheckOutRequestVerdict(c, visit, missions[c.mission])
  <2>1. c.visit \in Visits
    BY <1>1, <1>7, CommandByOp DEF LoadCheckOut, CheckOutCommand
  <2>2. CASE verdict # "OK" /\ Refuse(s, verdict)
    BY <1>3, <2>2
  <2>3. CASE verdict = "OK" /\ Proceed(s, c.visit, CheckOut(visit, now), Ok(c.visit, now))
    <3>1. visit # None /\ visit.status = CopresenceOk
      BY <2>3 DEF CheckOutRequestVerdict, CheckOutVerdict
    <3>2. events[c.visit] # <<>>
      BY <2>1, <3>1 DEF EvidenceInv, EvidenceBacksStatus
    <3> QED BY <1>4, <2>1, <2>3, <3>2
  <2> QED BY <1>7, <2>2, <2>3 DEF LoadCheckOut
<1> QED BY <1>5, <1>6, <1>7

LEMMA CommitBacked ==
    ASSUME EvidenceInv, TypeInv', NEW s \in Slots, Commit(s)
    PROVE  EvidenceInv'
<1> DEFINE q == req[s]
           row == IF q.base = None THEN q.object
                  ELSE Merge(visits[q.visit], q.base, q.object)
<1>1. /\ q.visit \in Visits
      /\ q.object \in SiteVisit
      /\ visits' = [visits EXCEPT ![q.visit] = row]
      /\ q.base # None => visits[q.visit] \in SiteVisit /\ q.base \in SiteVisit
      /\ q.base = None => row = q.object
  BY CommittedRow DEF EvidenceInv
<1>2. q.pc = "commit" /\ HasObject(q)
  BY DEF Commit, HasObject
<1>3. /\ visits \in [Visits -> SiteVisit \cup {None}]
      /\ events \in [Visits -> Seq(CoPresenceEvent)]
      /\ EventsOf(q) \in Seq(CoPresenceEvent)
  BY <1>2, CommittedTypes DEF EvidenceInv, TypeInv, TypeOK
<1>4. events' = [events EXCEPT ![q.visit] = @ \o EventsOf(q)]
  BY DEF Commit
<1>5. \A v \in Visits : events[v] # <<>> => events'[v] # <<>>
  BY <1>3, <1>4, ConcatenationType
<1>6. row.status \in {CopresenceOk, Completed} => events'[q.visit] # <<>>
  <2>1. CASE q.cmd.op = "confirm_host"
    BY <1>1, <1>3, <1>4, <2>1, ConcatenationType DEF EventsOf
  <2>2. CASE q.object.status \in {CopresenceOk, Completed} /\ q.cmd.op # "confirm_host"
    BY <1>1, <1>2, <1>5, <2>2 DEF EvidenceInv, CheckOutsBacked
  <2>3. CASE q.object.status \notin {CopresenceOk, Completed}
    <3>1. CASE q.base = None
      BY <1>1, <2>3, <3>1
    <3>2. CASE q.base # None
      <4>1. row.status \in {visits[q.visit].status, q.object.status}
        BY <1>1, <3>2, MergeType
      <4>2. visits[q.visit] # None
        BY <1>1, <3>2, NoneAssumption
      <4> QED BY <1>1, <1>5, <2>3, <4>1, <4>2 DEF EvidenceInv, EvidenceBacksStatus
    <3> QED BY <3>1, <3>2
  <2> QED BY <2>1, <2>2, <2>3
<1> HIDE DEF row
<1>7. EvidenceBacksStatus'
  BY <1>1, <1>3, <1>5, <1>6 DEF EvidenceInv, EvidenceBacksStatus
<1>8. PICK p \in Request :
         /\ req' = [req EXCEPT ![s] = p]
         /\ p = Idle \/ p = [req[s] EXCEPT !.pc = "reply"]
  BY CommittedRequest DEF EvidenceInv
<1>9. HasObject(p) /\ p.object.status \in {CopresenceOk, Completed}
         => p.cmd.op = "confirm_host" \/ events'[p.visit] # <<>>
  <2>1. req[s] \in Request
    BY DEF EvidenceInv, TypeInv, TypeOK
  <2>2. CASE p = Idle
    BY <2>2 DEF Idle, HasObject
  <2>3. CASE p = [req[s] EXCEPT !.pc = "reply"]
    <3>1. p.cmd = q.cmd /\ p.object = q.object /\ p.visit = q.visit
      BY <2>1, <2>3 DEF Request
    <3> QED BY <1>1, <1>2, <1>5, <3>1 DEF EvidenceInv, CheckOutsBacked
  <2> QED BY <1>8, <2>2, <2>3
<1> QED BY <1>5, <1>7, <1>8, <1>9, BackedStep

LEMMA EvidenceStep == EvidenceInv /\ [Next]_vars => EvidenceInv'
<1>1. SUFFICES ASSUME EvidenceInv, [Next]_vars PROVE EvidenceInv'
  OBVIOUS
<1>2. TypeInv'
  BY <1>1, TypeStep DEF EvidenceInv
<1>3. ASSUME NEW s \in Slots PROVE req[s] \in Request
  BY <1>1 DEF EvidenceInv, TypeInv, TypeOK
<1>4. ASSUME NEW s \in Slots, NEW c \in Commands, Receive(s, c) PROVE EvidenceInv'
  <2> DEFINE q == IF Recorded(c) = {}
                  THEN [Idle EXCEPT !.pc = "load", !.cmd = c]
                  ELSE [Idle EXCEPT !.pc = "reply", !.cmd = c,
                          !.response = (CHOOSE r \in Recorded(c) : TRUE).response]
  <2>1. ~HasObject(q)
    BY DEF HasObject, Idle
  <2>2. req' = [req EXCEPT ![s] = q] /\ UNCHANGED <<visits, events>>
    BY <1>4 DEF Receive, tables
  <2> HIDE DEF q
  <2> QED BY <1>1, <1>2, <2>1, <2>2, BackedInMemory
<1>5. ASSUME NEW s \in Slots, LoadCheckIn(s) \/ LoadConfirmHost(s) \/ LoadCheckOut(s)
      PROVE  EvidenceInv'
  BY <1>1, <1>2, <1>5, LoadBacked
<1>6. ASSUME NEW s \in Slots, Save(s) \/ RollBack(s) \/ Reply(s) \/ Drop(s)
      PROVE  EvidenceInv'
  <2>1. UNCHANGED <<visits, events>>
    BY <1>6 DEF Save, RollBack, Reply, Drop, tables
  <2>2. CASE req' = [req EXCEPT ![s] = Idle]
    <3>1. ~HasObject(Idle)
      BY DEF HasObject, Idle
    <3> QED BY <1>1, <1>2, <2>1, <2>2, <3>1, BackedInMemory
  <2>3. ASSUME NEW q, req' = [req EXCEPT ![s] = q], HasObject(q) => HasObject(req[s]),
               q.cmd = req[s].cmd, q.object = req[s].object, q.visit = req[s].visit
        PROVE  EvidenceInv'
    BY <1>1, <1>2, <2>1, <2>3, BackedInMemory
  <2>4. CASE Save(s)
    <3> DEFINE q == [req[s] EXCEPT !.pc = IF ReplyFirst THEN "reply" ELSE "commit",
                                   !.base = visits[req[s].visit]]
    <3>1. /\ HasObject(q) => HasObject(req[s])
          /\ q.cmd = req[s].cmd /\ q.object = req[s].object /\ q.visit = req[s].visit
      BY <1>3, <2>4 DEF Save, HasObject, Request
    <3>2. req' = [req EXCEPT ![s] = q]
      BY <2>4 DEF Save
    <3> HIDE DEF q
    <3> QED BY <2>3, <3>1, <3>2
  <2>5. CASE RollBack(s)
    <3> DEFINE q == [req[s] EXCEPT !.pc = "reply", !.response = Error("INTERNAL_ERROR")]
    <3>1. /\ HasObject(q) => HasObject(req[s])
          /\ q.cmd = req[s].cmd /\ q.object = req[s].object /\ q.visit = req[s].visit
      BY <1>3 DEF HasObject, Request
    <3>2. req' = [req EXCEPT ![s] = Idle] \/ req' = [req EXCEPT ![s] = q]
      BY <2>5 DEF RollBack, Refuse
    <3> HIDE DEF q
    <3> QED BY <2>2, <2>3, <3>1, <3>2
  <2>6. CASE Reply(s)
    <3> DEFINE q == [req[s] EXCEPT !.pc = "commit"]
    <3>1. CASE req' = [req EXCEPT ![s] = q] /\ req[s].object # None
      <4>1. /\ HasObject(q) => HasObject(req[s])
            /\ q.cmd = req[s].cmd /\ q.object = req[s].object /\ q.visit = req[s].visit
        BY <1>3, <3>1 DEF HasObject, Request
      <4> HIDE DEF q
      <4> QED BY <2>3, <3>1, <4>1
    <3> QED BY <2>2, <2>6, <3>1 DEF Reply
  <2> QED BY <1>6, <2>2, <2>4, <2>5, <2>6 DEF Drop
<1>7. ASSUME NEW s \in Slots, Commit(s) PROVE EvidenceInv'
  BY <1>1, <1>2, <1>7, CommitBacked
<1>8. CASE \/ \E m \in Missions, j \in Jtis : IssueHostQrJwt(m, j)
           \/ \E m \in Missions, row \in MissionRows : MissionSaved(m, row)
           \/ Tick
           \/ UNCHANGED vars
  <2>1. UNCHANGED <<visits, events, req>>
    BY <1>8 DEF IssueHostQrJwt, MissionSaved, Tick, vars, tables
  <2> QED BY <1>1, <1>2, <2>1
          DEF EvidenceInv, EvidenceBacksStatus, CheckOutsBacked, HasObject
<1>9. CASE Restart
  BY <1>1, <1>2, <1>9
     DEF Restart, EvidenceInv, EvidenceBacksStatus, CheckOutsBacked, HasObject, Idle
<1> QED BY <1>1, <1>4, <1>5, <1>6, <1>7, <1>8, <1>9 DEF Next

\* No visit is validated or completed without a co-presence event, whatever
\* the requests in flight when it is checked out.
THEOREM EvidenceBeforeStatus == Spec => []EvidenceBacksStatus
<1>1. Init => EvidenceInv
  <2>1. SUFFICES ASSUME Init PROVE EvidenceBacksStatus /\ CheckOutsBacked
    BY TypeInit DEF EvidenceInv
  <2> QED BY <2>1 DEF Init, EvidenceBacksStatus, CheckOutsBacked, HasObject, Idle
<1>2. EvidenceInv /\ [Next]_vars => EvidenceInv'
  BY EvidenceStep
<1>3. EvidenceInv => EvidenceBacksStatus
  BY DEF EvidenceInv
<1> QED BY <1>1, <1>2, <1>3, PTL DEF Spec

-----------------------------------------------------------------------------
(* Answers.  As long as no record is purged and the answer follows the        *)
(* commit, a success is only ever answered from a record, the unique          *)
(* constraint makes the record of a key unique, and records stay.             *)

Matches(r, c, response) ==
    r.scope = Scope(c) /\ r.key = c.key /\ r.response = response

UniqueRecords ==
    \A a, b \in idem : a.scope = b.scope /\ a.key = b.key => a = b

AcksRecorded ==
    \A a \in acks : \E r \in idem :
        r.scope = a.scope /\ r.key = a.key /\ r.response = a.response

RepliesRecorded ==
    \A s \in Slots :
        req[s].pc = "reply" /\ req[s].response.code = "OK"
            => \E r \in idem : Matches(r, req[s].cmd, req[s].response)

AnswerInv == TypeInv /\ UniqueRecords /\ AcksRecorded /\ RepliesRecorded

\* A step of request s that records nothing and acknowledges nothing.
LEMMA SilentStep ==
    ASSUME AnswerInv, TypeInv', NEW s \in Slots, UNCHANGED <<idem, acks>>,
           NEW q, req' = [req EXCEPT ![s] = q],
           q.pc = "reply" /\ q.response.code = "OK"
               => \E r \in idem : Matches(r, q.cmd, q.response)
    PROVE  AnswerInv'
<1>1. UniqueRecords' /\ AcksRecorded'
  BY DEF AnswerInv, UniqueRecords, AcksRecorded
<1>2. RepliesRecorded'
  <2>1. SUFFICES ASSUME NEW t \in Slots,
                        req'[t].pc = "reply" /\ req'[t].response.code = "OK"
                 PROVE  \E r \in idem : Matches(r, req'[t].cmd, req'[t].response)
    BY DEF RepliesRecorded, Matches, Scope
  <2>2. req'[t] = IF t = s THEN q ELSE req[t]
    BY DEF AnswerInv, TypeInv, TypeOK
  <2> QED BY <2>1, <2>2 DEF AnswerInv, RepliesRecorded
<1> QED BY <1>1, <1>2 DEF AnswerInv

LEMMA ReceiveAnswers ==
    ASSUME AnswerInv, TypeInv', NEW s \in Slots, NEW c \in Commands, Receive(s, c)
    PROVE  AnswerInv'
<1> DEFINE r == CHOOSE x \in Recorded(c) : TRUE
           q == IF Recorded(c) = {}
                THEN [Idle EXCEPT !.pc = "load", !.cmd = c]
                ELSE [Idle EXCEPT !.pc = "reply", !.cmd = c, !.response = r.response]
<1>1. req' = [req EXCEPT ![s] = q] /\ UNCHANGED <<idem, acks>>
  BY DEF Receive, tables
<1>2. CASE Recorded(c) = {}
  <2>1. q.pc = "load"
    BY <1>2 DEF Idle
  <2> HIDE DEF q
  <2> QED BY <1>1, <2>1, SilentStep
<1>3. CASE Recorded(c) # {}
  <2>1. r \in Recorded(c)
    BY <1>3
  <2> HIDE DEF r
  <2>2. q.cmd = c /\ q.response = r.response
    BY <1>3 DEF Idle
  <2>3. r \in idem /\ Matches(r, q.cmd, q.response)
    BY <2>1, <2>2 DEF Recorded, Matches
  <2> HIDE DEF q
  <2> QED BY <1>1, <2>3, SilentStep
<1> QED BY <1>2, <1>3

LEMMA LoadAnswers ==
    ASSUME AnswerInv, TypeInv', NEW s \in Slots,
           LoadCheckIn(s) \/ LoadConfirmHost(s) \/ LoadCheckOut(s)
    PROVE  AnswerInv'
<1>1. req[s] \in Request /\ UNCHANGED <<idem, acks>>
  BY DEF AnswerInv, TypeInv, TypeOK, LoadCheckIn, LoadConfirmHost, LoadCheckOut, tables
<1>2. ASSUME NEW code, code # "OK", Refuse(s, code) PROVE AnswerInv'
  <2> DEFINE q == [req[s] EXCEPT !.pc = "reply", !.response = Error(code)]
  <2>1. q.response.code # "OK"
    BY <1>1, <1>2 DEF Request, Error
  <2>2. req' = [req EXCEPT ![s] = q]
    BY <1>2 DEF Refuse
  <2> HIDE DEF q
  <2> QED BY <1>1, <2>1, <2>2, SilentStep
<1>3. ASSUME NEW v, NEW o, NEW r, Proceed(s, v, o, r) PROVE AnswerInv'
  <2> DEFINE q == [req[s] EXCEPT !.pc = "save", !.at = now, !.visit = v,
                                 !.object = o, !.response = r]
  <2>1. q.pc = "save"
    BY <1>1 DEF Request
  <2>2. req' = [req EXCEPT ![s] = q]
    BY <1>3 DEF Proceed
  <2> HIDE DEF q
  <2> QED BY <1>1, <2>1, <2>2, SilentStep
<1>4. CASE LoadCheckIn(s)
  BY <1>2, <1>3, <1>4 DEF LoadCheckIn
<1>5. CASE LoadConfirmHost(s)
  BY <1>2, <1>3, <1>5 DEF LoadConfirmHost
<1>6. CASE LoadCheckOut(s)
  BY <1>2, <1>3, <1>6 DEF LoadCheckOut
<1> QED BY <1>4, <1>5, <1>6

LEMMA CommitAnswers ==
    ASSUME AnswerInv, TypeInv', ~ReplyFirst, NEW s \in Slots, Commit(s)
    PROVE  AnswerInv'
<1> DEFINE q == req[s]
           record == RecordOf(q)
<1>1. /\ req' = [req EXCEPT ![s] = [q EXCEPT !.pc = "reply"]]
      /\ idem' = idem \cup {record}
      /\ acks' = acks
      /\ Recorded(q.cmd) = {}
  BY DEF Commit, IntegrityError, KeyTaken
<1>2. Matches(record, q.cmd, q.response)
  BY DEF RecordOf, Matches
<1> HIDE DEF record
<1>3. UniqueRecords'
  BY <1>1, <1>2 DEF Recorded, Matches, AnswerInv, UniqueRecords
<1>4. AcksRecorded'
  BY <1>1 DEF AnswerInv, AcksRecorded
<1>5. RepliesRecorded'
  <2>1. SUFFICES ASSUME NEW t \in Slots,
                        req'[t].pc = "reply" /\ req'[t].response.code = "OK"
                 PROVE  \E r \in idem' : Matches(r, req'[t].cmd, req'[t].response)
    BY DEF RepliesRecorded, Matches, Scope
  <2>2. req \in [Slots -> Request]
    BY DEF AnswerInv, TypeInv, TypeOK
  <2>3. CASE t = s
    <3>1. req'[t].cmd = q.cmd /\ req'[t].response = q.response
      BY <1>1, <2>2, <2>3 DEF Request
    <3> QED BY <1>1, <1>2, <3>1
  <2>4. CASE t # s
    <3>1. req'[t] = req[t]
      BY <1>1, <2>2, <2>4
    <3> QED BY <1>1, <2>1, <3>1 DEF AnswerInv, RepliesRecorded
  <2> QED BY <2>3, <2>4
<1> QED BY <1>3, <1>4, <1>5 DEF AnswerInv

LEMMA ReplyAnswers ==
    ASSUME AnswerInv, TypeInv', ~ReplyFirst, NEW s \in Slots, Reply(s)
    PROVE  AnswerInv'
<1> DEFINE q == req[s]
           ack == [scope |-> Scope(q.cmd), key |-> q.cmd.key, response |-> q.response]
<1>1. q.pc = "reply" /\ req' = [req EXCEPT ![s] = Idle] /\ idem' = idem
  BY DEF Reply, tables
<1>2. acks' = IF q.response.code = "OK" THEN acks \cup {ack} ELSE acks
  BY DEF Reply
<1>3. UniqueRecords'
  BY <1>1 DEF AnswerInv, UniqueRecords
<1>4. AcksRecorded'
  <2>1. SUFFICES ASSUME NEW a \in acks'
                 PROVE  \E r \in idem :
                           r.scope = a.scope /\ r.key = a.key /\ r.response = a.response
    BY <1>1 DEF AcksRecorded
  <2>2. CASE a \in acks
    BY <2>2 DEF AnswerInv, AcksRecorded
  <2>3. CASE a = ack /\ q.response.code = "OK"
    BY <1>1, <2>3 DEF AnswerInv, RepliesRecorded, Matches
  <2> QED BY <1>2, <2>2, <2>3
<1>5. RepliesRecorded'
  <2>1. SUFFICES ASSUME NEW t \in Slots,
                        req'[t].pc = "reply" /\ req'[t].response.code = "OK"
                 PROVE  \E r \in idem : Matches(r, req'[t].cmd, req'[t].response)
    BY <1>1 DEF RepliesRecorded, Matches, Scope
  <2>2. t # s /\ req'[t] = req[t]
    BY <1>1, <2>1 DEF AnswerInv, TypeInv, TypeOK, Idle
  <2> QED BY <2>1, <2>2 DEF AnswerInv, RepliesRecorded
<1> QED BY <1>3, <1>4, <1>5 DEF AnswerInv

LEMMA AnswerStep ==
    ASSUME ~ReplyFirst, Retention >= MaxTime
    PROVE  AnswerInv /\ [Next]_vars => AnswerInv'
<1>1. SUFFICES ASSUME AnswerInv, [Next]_vars PROVE AnswerInv'
  OBVIOUS
<1>2. TypeInv'
  BY <1>1, TypeStep DEF AnswerInv
<1>3. ASSUME NEW s \in Slots PROVE req[s] \in Request
  BY <1>1 DEF AnswerInv, TypeInv, TypeOK
<1>4. ASSUME NEW s \in Slots, NEW c \in Commands, Receive(s, c) PROVE AnswerInv'
  BY <1>1, <1>2, <1>4, ReceiveAnswers
<1>5. ASSUME NEW s \in Slots, LoadCheckIn(s) \/ LoadConfirmHost(s) \/ LoadCheckOut(s)
      PROVE  AnswerInv'
  BY <1>1, <1>2, <1>5, LoadAnswers
<1>6. ASSUME NEW s \in Slots, Save(s) PROVE AnswerInv'
  <2> DEFINE q == [req[s] EXCEPT !.pc = "commit", !.base = visits[req[s].visit]]
  <2>1. q.pc = "commit"
    BY <1>3 DEF Request
  <2>2. req' = [req EXCEPT ![s] = q] /\ UNCHANGED <<idem, acks>>
    BY <1>6 DEF Save, tables
  <2> HIDE DEF q
  <2> QED BY <1>1, <1>2, <2>1, <2>2, SilentStep
<1>7. ASSUME NEW s \in Slots, Commit(s) PROVE AnswerInv'
  BY <1>1, <1>2, <1>7, CommitAnswers
<1>8. ASSUME NEW s \in Slots, RollBack(s) PROVE AnswerInv'
  <2> DEFINE q == [req[s] EXCEPT !.pc = "reply", !.response = Error("INTERNAL_ERROR")]
  <2>1. q.response.code # "OK"
    BY <1>3 DEF Request, Error
  <2>2. req' = [req EXCEPT ![s] = q] /\ UNCHANGED <<idem, acks>>
    BY <1>8 DEF RollBack, Refuse, tables
  <2> HIDE DEF q
  <2> QED BY <1>1, <1>2, <2>1, <2>2, SilentStep
<1>9. ASSUME NEW s \in Slots, Reply(s) PROVE AnswerInv'
  BY <1>1, <1>2, <1>9, ReplyAnswers
<1>10. ASSUME NEW s \in Slots, Drop(s) PROVE AnswerInv'
  BY <1>1, <1>2, <1>10, SilentStep DEF Drop, Idle, tables
<1>11. CASE \/ \E m \in Missions, j \in Jtis : IssueHostQrJwt(m, j)
            \/ \E m \in Missions, row \in MissionRows : MissionSaved(m, row)
            \/ Tick
            \/ UNCHANGED vars
  <2>1. UNCHANGED <<idem, acks, req>>
    BY <1>11 DEF IssueHostQrJwt, MissionSaved, Tick, vars, tables
  <2> QED BY <1>1, <1>2, <2>1
          DEF AnswerInv, UniqueRecords, AcksRecorded, RepliesRecorded, Matches, Scope
<1>12. CASE Restart
  \* No record is old enough to be purged.
  <2>1. PICK r \in idem : r.createdAt + Retention < now
    BY <1>12 DEF Restart
  <2>2. r.createdAt \in Nat /\ now \in Nat /\ now <= MaxTime
    BY <1>1, ConstantsAssumption
       DEF AnswerInv, TypeInv, TypeOK, IdempotencyRecord, Time
  <2> QED BY <2>1, <2>2, ConstantsAssumption
<1> QED BY <1>1, <1>4, <1>5, <1>6, <1>7, <1>8, <1>9, <1>10, <1>11, <1>12 DEF Next

\* While records are kept and answers follow commits, two successes answered
\* to the same key are equal, whatever is lost, replayed or run concurrently.
THEOREM AnswersNeverDisagree ==
    ASSUME ~ReplyFirst, Retention >= MaxTime
    PROVE  Spec => []AnswersAgree
<1>1. Init => AnswerInv
  <2>1. SUFFICES ASSUME Init PROVE UniqueRecords /\ AcksRecorded /\ RepliesRecorded
    BY TypeInit DEF AnswerInv
  <2> QED BY <2>1 DEF Init, UniqueRecords, AcksRecorded, RepliesRecorded, Idle
<1>2. AnswerInv /\ [Next]_vars => AnswerInv'
  BY AnswerStep
<1>3. AnswerInv => AnswersAgree
  <2>1. SUFFICES ASSUME AnswerInv, NEW a \in acks, NEW b \in acks,
                        a.scope = b.scope, a.key = b.key
                 PROVE  a = b
    BY DEF AnswersAgree
  <2>2. a.response = b.response
    BY <2>1 DEF AnswerInv, AcksRecorded, UniqueRecords
  <2>3. a \in [scope : ScopeSet, key : Keys, response : Response]
        /\ b \in [scope : ScopeSet, key : Keys, response : Response]
    BY <2>1 DEF AnswerInv, TypeInv, TypeOK
  <2> QED BY <2>1, <2>2, <2>3
<1> QED BY <1>1, <1>2, <1>3, PTL DEF Spec

-----------------------------------------------------------------------------
(* The requests that will still write something *)

\* A request that passed its checks and has not committed.
Pending(q) ==
    \/ q.pc \in {"save", "commit"}
    \/ ReplyFirst /\ q.pc = "reply" /\ q.object # None

\* Of these, one whose save has read the row.
Saved(q) == Pending(q) /\ q.pc # "save"

LoadsAreClean == \A s \in Slots : req[s].pc = "load" => req[s].object = None

\* What the check-in records, and what no other request may alter.
SameArrival(a, b) ==
    /\ a.mission = b.mission
    /\ a.checkedInAt = b.checkedInAt
    /\ a.mode = b.mode
    /\ a.inspectorPos = b.inspectorPos

\* A check-in writes an id without row; the object is all it has read.
CheckInKnows(q) ==
    /\ visits[q.visit] = None
    /\ q.base = None
    /\ q.object = StartCheckIn(NewVisit(q.cmd.mission), q.at, q.cmd.mode, q.cmd.pos)

\* A confirmation or a check-out writes a row that is there, of the mission it
\* names.  Its object and the row it read again have the arrival of that row,
\* and a row read as validated is still validated.
FollowUpKnows(q) ==
    /\ q.visit = q.cmd.visit
    /\ visits[q.visit] # None
    /\ visits[q.visit].mission = q.cmd.mission
    /\ SameArrival(q.object, visits[q.visit])
    /\ q.object.status = IF q.cmd.op = "confirm_host" THEN CopresenceOk ELSE Completed
    /\ Saved(q) => /\ q.base # None
                   /\ SameArrival(q.base, visits[q.visit])
                   /\ q.base.status # PendingHost
                         => visits[q.visit].status # PendingHost

Knows(q) ==
    /\ q.response.visit = q.visit
    /\ q.cmd.op = "check_in" => CheckInKnows(q)
    /\ q.cmd.op # "check_in" => FollowUpKnows(q)

\* The row of a visit has its arrival.
Arrived(row) ==
    /\ row.status # Scheduled
    /\ row.checkedInAt \in Time
    /\ row.inspectorPos \in Positions

ArrivalInv ==
    /\ TypeInv
    /\ LoadsAreClean
    /\ \A v \in Visits : visits[v] # None => Arrived(visits[v])
    /\ \A s \in Slots : Pending(req[s]) => Knows(req[s])
    /\ \A s, t \in Slots :
          s # t /\ Pending(req[s]) /\ Pending(req[t]) /\ req[s].cmd.op = "check_in"
             => req[s].visit # req[t].visit

-----------------------------------------------------------------------------
(* The life of a pending request *)

SameRequest(p, q) ==
    /\ p.cmd = q.cmd /\ p.at = q.at /\ p.visit = q.visit
    /\ p.object = q.object /\ p.base = q.base /\ p.response = q.response
    /\ Saved(p) <=> Saved(q)

\* A commit ends what is pending.
LEMMA CommitEnds ==
    ASSUME TypeInv, NEW s \in Slots, Commit(s)
    PROVE  Pending(req[s]) /\ Saved(req[s]) /\ ~Pending(req'[s])
<1>1. req[s] \in Request /\ req \in [Slots -> Request] /\ req[s].pc = "commit"
  BY DEF Commit, TypeInv, TypeOK
<1>2. CASE ReplyFirst
  <2>1. req'[s] = Idle
    BY <1>1, <1>2 DEF Commit
  <2> QED BY <1>1, <2>1 DEF Pending, Saved, Idle
<1>3. CASE ~ReplyFirst
  <2>1. req'[s].pc = "reply"
    BY <1>1, <1>3 DEF Commit, Request
  <2> QED BY <1>1, <1>3, <2>1 DEF Pending, Saved
<1> QED BY <1>2, <1>3

\* A step of one request leaves the others as they are.
LEMMA OtherRequests ==
    ASSUME TypeInv, NEW s \in Slots, NEW t \in Slots, s # t,
           \/ \E c \in Commands : Receive(s, c)
           \/ LoadCheckIn(s) \/ LoadConfirmHost(s) \/ LoadCheckOut(s)
           \/ Save(s) \/ Commit(s) \/ RollBack(s) \/ Reply(s) \/ Drop(s)
    PROVE  req'[t] = req[t]
<1>1. req \in [Slots -> Request]
  BY DEF TypeInv, TypeOK
<1>2. ASSUME NEW q, req' = [req EXCEPT ![s] = q] PROVE req'[t] = req[t]
  BY <1>1, <1>2
<1>3. CASE LoadCheckIn(s) \/ LoadConfirmHost(s) \/ LoadCheckOut(s)
  BY <1>2, <1>3 DEF LoadCheckIn, LoadConfirmHost, LoadCheckOut, Refuse, Proceed
<1>4. CASE \E c \in Commands : Receive(s, c)
  BY <1>2, <1>4 DEF Receive
<1>5. CASE Save(s) \/ Reply(s) \/ Drop(s)
  BY <1>2, <1>5 DEF Save, Reply, Drop
<1>6. CASE Commit(s)
  BY <1>2, <1>6 DEF Commit
<1>7. CASE RollBack(s)
  BY <1>2, <1>7 DEF RollBack, Refuse
<1> QED BY <1>3, <1>4, <1>5, <1>6, <1>7

\* A pending request was pending with the same content, or has just been saved,
\* or has just passed its checks.
LEMMA PendingStep ==
    ASSUME TypeInv, LoadsAreClean, [Next]_vars, NEW t \in Slots, Pending(req'[t])
    PROVE  \/ Pending(req[t]) /\ SameRequest(req[t], req'[t])
           \/ Save(t)
           \/ LoadCheckIn(t) \/ LoadConfirmHost(t) \/ LoadCheckOut(t)
<1>1. req[t] \in Request /\ req \in [Slots -> Request]
  BY DEF TypeInv, TypeOK
<1>2. ~Pending(Idle)
  BY DEF Pending, Idle
<1>3. CASE req'[t] = req[t]
  BY <1>3 DEF SameRequest, Saved, Pending
<1>4. ASSUME NEW c \in Commands, Receive(t, c) PROVE FALSE
  <2>1. CASE Recorded(c) = {}
    BY <1>1, <1>4, <2>1 DEF Receive, Pending, Idle
  <2>2. CASE Recorded(c) # {}
    <3>1. req'[t].pc = "reply" /\ req'[t].object = None
      BY <1>1, <1>4, <2>2 DEF Receive, Idle
    <3> QED BY <3>1 DEF Pending
  <2> QED BY <2>1, <2>2
<1>5. ASSUME Reply(t)
      PROVE  Pending(req[t]) /\ SameRequest(req[t], req'[t])
  <2>1. ReplyFirst /\ req[t].object # None /\ req[t].pc = "reply"
    BY <1>1, <1>2, <1>5 DEF Reply
  <2>2. req'[t] = [req[t] EXCEPT !.pc = "commit"]
    BY <1>1, <1>5, <2>1 DEF Reply
  <2> QED BY <1>1, <2>1, <2>2 DEF Pending, Saved, SameRequest, Request
<1>6. ASSUME RollBack(t) PROVE FALSE
  <2>1. CASE ReplyFirst
    BY <1>1, <1>2, <1>6, <2>1 DEF RollBack
  <2>2. CASE ~ReplyFirst
    <3>1. req'[t].pc = "reply"
      BY <1>1, <1>6, <2>2 DEF RollBack, Refuse, Request
    <3> QED BY <2>2, <3>1 DEF Pending
  <2> QED BY <2>1, <2>2
<1>7. ~Drop(t)
  BY <1>1, <1>2 DEF Drop
<1>8. ~Commit(t)
  BY CommitEnds
<1>9. CASE \/ \E m \in Missions, j \in Jtis : IssueHostQrJwt(m, j)
           \/ \E m \in Missions, row \in MissionRows : MissionSaved(m, row)
           \/ Tick
           \/ UNCHANGED vars
  BY <1>3, <1>9 DEF IssueHostQrJwt, MissionSaved, Tick, vars
<1>10. ~Restart
  BY <1>2 DEF Restart
<1>11. ASSUME NEW s \in Slots,
              \/ \E c \in Commands : Receive(s, c)
              \/ LoadCheckIn(s) \/ LoadConfirmHost(s) \/ LoadCheckOut(s)
              \/ Save(s) \/ Commit(s) \/ RollBack(s) \/ Reply(s) \/ Drop(s)
       PROVE  \/ Pending(req[t]) /\ SameRequest(req[t], req'[t])
              \/ Save(t)
              \/ LoadCheckIn(t) \/ LoadConfirmHost(t) \/ LoadCheckOut(t)
  <2>1. CASE s = t
    BY <1>4, <1>5, <1>6, <1>7, <1>8, <1>11, <2>1
  <2>2. CASE s # t
    BY <1>3, <1>11, <2>2, OtherRequests
  <2> QED BY <2>1, <2>2
<1> QED BY <1>9, <1>10, <1>11 DEF Next

\* What a save does to its request: it is saved, with the row as it is.
LEMMA SaveStep ==
    ASSUME TypeInv, NEW t \in Slots, Save(t)
    PROVE  /\ Pending(req[t]) /\ ~Saved(req[t]) /\ Saved(req'[t])
           /\ req'[t].cmd = req[t].cmd /\ req'[t].at = req[t].at
           /\ req'[t].visit = req[t].visit /\ req'[t].object = req[t].object
           /\ req'[t].response = req[t].response
           /\ req'[t].base = visits[req[t].visit]
           /\ UNCHANGED <<now, missions, tables, issued>>
<1>1. req[t] \in Request /\ req \in [Slots -> Request] /\ req[t].pc = "save"
  BY DEF Save, TypeInv, TypeOK
<1>2. req[t].object # None
  BY <1>1, NoneAssumption DEF TypeInv, RequestsWellFormed, WellFormed, HasObject
<1>3. req'[t] = [req[t] EXCEPT !.pc = IF ReplyFirst THEN "reply" ELSE "commit",
                               !.base = visits[req[t].visit]]
  BY <1>1 DEF Save
<1>4. /\ req'[t].pc = IF ReplyFirst THEN "reply" ELSE "commit"
      /\ req'[t].cmd = req[t].cmd /\ req'[t].at = req[t].at
      /\ req'[t].visit = req[t].visit /\ req'[t].object = req[t].object
      /\ req'[t].response = req[t].response
      /\ req'[t].base = visits[req[t].visit]
  BY <1>1, <1>3 DEF Request
<1>5. UNCHANGED <<now, missions, tables, issued>>
  BY DEF Save
<1> QED BY <1>1, <1>2, <1>4, <1>5 DEF Pending, Saved

LEMMA ProceedStep ==
    ASSUME TypeInv, NEW t \in Slots, NEW v, NEW o, NEW r, Proceed(t, v, o, r)
    PROVE  /\ req'[t].pc = "save" /\ req'[t].cmd = req[t].cmd /\ req'[t].at = now
           /\ req'[t].visit = v /\ req'[t].object = o /\ req'[t].response = r
           /\ req'[t].base = req[t].base
           /\ Pending(req'[t]) /\ ~Saved(req'[t])
BY DEF Proceed, TypeInv, TypeOK, Request, Pending, Saved

LEMMA RefuseEnds ==
    ASSUME TypeInv, LoadsAreClean, NEW t \in Slots, req[t].pc = "load", NEW code,
           Refuse(t, code)
    PROVE  ~Pending(req'[t])
<1>1. req[t] \in Request /\ req \in [Slots -> Request] /\ req[t].object = None
  BY DEF TypeInv, TypeOK, LoadsAreClean
<1>2. req'[t].pc = "reply" /\ req'[t].object = None
  BY <1>1 DEF Refuse, Request
<1> QED BY <1>2 DEF Pending

\* What a check-in that passes its checks will write.
LEMMA CheckInAccepted ==
    ASSUME ArrivalInv, NEW t \in Slots, LoadCheckIn(t), Pending(req'[t])
    PROVE  LET c == req[t].cmd
               q == req'[t]
           IN  /\ UNCHANGED <<now, missions, tables, issued>>
               /\ c \in CheckInCommand
               /\ CheckInVerdict(c, missions[c.mission]) = "OK"
               /\ ~Saved(q) /\ q.cmd = c /\ q.at = now /\ q.base = None
               /\ q.visit \in FreshIds
               /\ q.object = StartCheckIn(NewVisit(c.mission), now, c.mode, c.pos)
               /\ q.response = Ok(q.visit, None)
               /\ VisitsOf(c.mission) = {}
<1> DEFINE c == req[t].cmd
           m == missions[c.mission]
<1>1. /\ TypeInv /\ LoadsAreClean /\ req[t].pc = "load" /\ c.op = "check_in"
      /\ UNCHANGED <<now, missions, tables, issued>>
  BY DEF ArrivalInv, LoadCheckIn
<1>2. c \in CheckInCommand /\ req[t].base = None
  BY <1>1, CommandByOp DEF TypeInv, RequestsWellFormed, WellFormed
<1>3. CheckInVerdict(c, m) = "OK"
  BY <1>1, RefuseEnds DEF LoadCheckIn
<1>4. VisitsOf(c.mission) = {}
  \* A visit that is there is no longer scheduled.
  BY <1>3 DEF CheckInVerdict, VisitsOf, ArrivalInv, Arrived
<1>5. PICK v \in FreshIds :
          Proceed(t, v, StartCheckIn(NewVisit(c.mission), now, c.mode, c.pos), Ok(v, None))
  <2>1. PICK v \in FreshIds :
          LET visit == IF visits[v] = None THEN NewVisit(c.mission) ELSE visits[v]
          IN  Proceed(t, v, StartCheckIn(visit, now, c.mode, c.pos), Ok(v, None))
    BY <1>1, <1>3, <1>4, RefuseEnds DEF LoadCheckIn
  <2>2. visits[v] = None
    BY DEF FreshIds
  <2> QED BY <2>1, <2>2
<1> QED BY <1>1, <1>2, <1>3, <1>4, <1>5, ProceedStep

\* What a confirmation that passes its checks will write.
LEMMA ConfirmationAccepted ==
    ASSUME ArrivalInv, NEW t \in Slots, LoadConfirmHost(t), Pending(req'[t])
    PROVE  LET c == req[t].cmd
               q == req'[t]
           IN  /\ UNCHANGED <<now, missions, tables, issued>>
               /\ c \in ConfirmHostCommand /\ visits[c.visit] \in SiteVisit
               /\ ConfirmHostVerdict(c, visits[c.visit], missions[c.mission]) = "OK"
               /\ ~Saved(q) /\ q.cmd = c /\ q.at = now /\ q.base = None
               /\ q.visit = c.visit
               /\ q.object = MarkCopresenceOk(visits[c.visit], c.pos)
               /\ q.response = Ok(c.visit, None)
<1> DEFINE c == req[t].cmd
           visit == visits[c.visit]
<1>1. /\ TypeInv /\ LoadsAreClean /\ req[t].pc = "load" /\ c.op = "confirm_host"
      /\ UNCHANGED <<now, missions, tables, issued>>
  BY DEF ArrivalInv, LoadConfirmHost
<1>2. c \in ConfirmHostCommand /\ req[t].base = None
  BY <1>1, CommandByOp DEF TypeInv, RequestsWellFormed, WellFormed
<1>3. /\ ConfirmHostVerdict(c, visit, missions[c.mission]) = "OK"
      /\ Proceed(t, c.visit, MarkCopresenceOk(visit, c.pos), Ok(c.visit, None))
  BY <1>1, RefuseEnds DEF LoadConfirmHost
<1>4. visit # None
  BY <1>3 DEF ConfirmHostVerdict
<1>5. visit \in SiteVisit
  BY <1>1, <1>2, <1>4 DEF ConfirmHostCommand, TypeInv, TypeOK
<1> QED BY <1>1, <1>2, <1>3, <1>5, ProceedStep

\* What a check-out that passes its checks will write.
LEMMA CheckOutAccepted ==
    ASSUME ArrivalInv, NEW t \in Slots, LoadCheckOut(t), Pending(req'[t])
    PROVE  LET c == req[t].cmd
               q == req'[t]
           IN  /\ UNCHANGED <<now, missions, tables, issued>>
               /\ c \in CheckOutCommand /\ visits[c.visit] \in SiteVisit
               /\ CheckOutRequestVerdict(c, visits[c.visit], missions[c.mission]) = "OK"
               /\ ~Saved(q) /\ q.cmd = c /\ q.at = now /\ q.base = None
               /\ q.visit = c.visit
               /\ q.object = CheckOut(visits[c.visit], now)
               /\ q.response = Ok(c.visit, now)
<1> DEFINE c == req[t].cmd
           visit == visits[c.visit]
<1>1. /\ TypeInv /\ LoadsAreClean /\ req[t].pc = "load" /\ c.op = "check_out"
      /\ UNCHANGED <<now, missions, tables, issued>>
  BY DEF ArrivalInv, LoadCheckOut
<1>2. c \in CheckOutCommand /\ req[t].base = None
  BY <1>1, CommandByOp DEF TypeInv, RequestsWellFormed, WellFormed
<1>3. /\ CheckOutRequestVerdict(c, visit, missions[c.mission]) = "OK"
      /\ Proceed(t, c.visit, CheckOut(visit, now), Ok(c.visit, now))
  BY <1>1, RefuseEnds DEF LoadCheckOut
<1>4. visit # None
  BY <1>3 DEF CheckOutRequestVerdict
<1>5. visit \in SiteVisit
  BY <1>1, <1>2, <1>4 DEF CheckOutCommand, TypeInv, TypeOK
<1> QED BY <1>1, <1>2, <1>3, <1>5, ProceedStep

-----------------------------------------------------------------------------
(* The arrival *)

LEMMA StartCheckInFields ==
    ASSUME NEW m \in Missions, NEW t \in Time, NEW mode \in HostValidationMode,
           NEW p \in Positions
    PROVE  LET visit == StartCheckIn(NewVisit(m), t, mode, p)
           IN  /\ visit \in SiteVisit /\ visit.mission = m /\ visit.status = PendingHost
               /\ visit.mode = mode /\ visit.checkedInAt = t /\ visit.checkedOutAt = None
               /\ visit.inspectorPos = p /\ visit.hostPos = None
BY DEF StartCheckIn, NewVisit, SiteVisit, SiteVisitStatus, PendingHost, Scheduled

LEMMA MarkCopresenceOkFields ==
    ASSUME NEW visit \in SiteVisit, NEW p
    PROVE  /\ SameArrival(MarkCopresenceOk(visit, p), visit)
           /\ MarkCopresenceOk(visit, p).status = CopresenceOk
           /\ MarkCopresenceOk(visit, p).hostPos =
                 IF visit.mode = "app_gps" THEN p ELSE visit.hostPos
BY DEF MarkCopresenceOk, SiteVisit, SameArrival

LEMMA CheckOutFields ==
    ASSUME NEW visit \in SiteVisit, NEW t
    PROVE  /\ SameArrival(CheckOut(visit, t), visit)
           /\ CheckOut(visit, t).status = Completed
           /\ CheckOut(visit, t).hostPos = visit.hostPos
BY DEF CheckOut, SiteVisit, SameArrival

LEMMA MergeFields ==
    ASSUME NEW stored \in SiteVisit, NEW base \in SiteVisit, NEW object \in SiteVisit,
           SameArrival(base, stored), SameArrival(object, stored),
           object.status \in {CopresenceOk, Completed},
           base.status # PendingHost => stored.status # PendingHost,
           stored.status # Scheduled
    PROVE  /\ SameArrival(Merge(stored, base, object), stored)
           /\ Merge(stored, base, object).status \in {CopresenceOk, Completed}
           /\ Merge(stored, base, object).hostPos \in {stored.hostPos, object.hostPos}
<1>1. /\ SameArrival(Merge(stored, base, object), stored)
      /\ Merge(stored, base, object).hostPos \in {stored.hostPos, object.hostPos}
  BY DEF SameArrival, Merge, Column
<1>2. Merge(stored, base, object).status =
         IF object.status = base.status THEN stored.status ELSE object.status
  BY DEF Merge, Column
<1>3. stored.status \in {PendingHost, CopresenceOk, Completed}
  BY DEF SiteVisit, SiteVisitStatus
<1>4. PendingHost \notin {CopresenceOk, Completed}
  BY DEF PendingHost, CopresenceOk, Completed
<1> QED BY <1>1, <1>2, <1>3, <1>4

\* What a commit writes: a new row waiting for its host, or over a row with the
\* same arrival one that no longer waits.
LEMMA CommitArrives ==
    ASSUME ArrivalInv, NEW s \in Slots, Commit(s)
    PROVE  LET q == req[s]
               row == visits'[q.visit]
           IN  /\ q.visit \in Visits /\ q.cmd \in Commands /\ q.at \in Time
               /\ q.object \in SiteVisit /\ Knows(q) /\ Pending(q)
               /\ \A v \in Visits : v # q.visit => visits'[v] = visits[v]
               /\ row \in SiteVisit /\ row # None /\ Arrived(row)
               /\ q.cmd.op = "check_in" =>
                     /\ visits[q.visit] = None /\ row = q.object
                     /\ row.status = PendingHost
               /\ q.cmd.op # "check_in" =>
                     /\ visits[q.visit] \in SiteVisit /\ visits[q.visit] # None
                     /\ SameArrival(row, visits[q.visit])
                     /\ row.status \in {CopresenceOk, Completed}
                     /\ row.hostPos \in {visits[q.visit].hostPos, q.object.hostPos}
<1> DEFINE q == req[s]
           stored == visits[q.visit]
           row == visits'[q.visit]
           written == IF q.base = None THEN q.object ELSE Merge(stored, q.base, q.object)
<1>1. TypeInv /\ Pending(q) /\ Saved(q) /\ Knows(q)
  BY CommitEnds DEF ArrivalInv
<1>2. /\ q.visit \in Visits /\ q.object \in SiteVisit
      /\ written \in SiteVisit
      /\ visits' = [visits EXCEPT ![q.visit] = written]
      /\ q.base # None => stored \in SiteVisit /\ q.base \in SiteVisit
  BY <1>1, CommittedRow
<1>3. /\ visits \in [Visits -> SiteVisit \cup {None}] /\ q.at \in Time
      /\ q.cmd \in Commands
  BY <1>1 DEF TypeInv, TypeOK, Request, RequestsWellFormed, WellFormed, Commit
<1>4. row = written /\ \A v \in Visits : v # q.visit => visits'[v] = visits[v]
  BY <1>2, <1>3
<1>5. row \in SiteVisit /\ row # None
  BY <1>2, <1>4, NoneAssumption
<1>6. CASE q.cmd.op = "check_in"
  <2>1. stored = None /\ q.base = None
        /\ q.object = StartCheckIn(NewVisit(q.cmd.mission), q.at, q.cmd.mode, q.cmd.pos)
    BY <1>1, <1>6 DEF Knows, CheckInKnows
  <2>2. /\ q.cmd.mission \in Missions /\ q.cmd.mode \in HostValidationMode
        /\ q.cmd.pos \in Positions
    BY <1>3, <1>6, CommandByOp DEF CheckInCommand
  <2>3. /\ q.object.status = PendingHost /\ q.object.checkedInAt \in Time
        /\ q.object.inspectorPos \in Positions
    BY <1>3, <2>1, <2>2, StartCheckInFields
  <2>4. row = q.object
    BY <1>4, <2>1
  <2>5. Arrived(row)
    BY <2>3, <2>4 DEF Arrived, PendingHost, Scheduled
  <2> QED BY <1>1, <1>2, <1>3, <1>4, <1>5, <1>6, <2>1, <2>3, <2>4, <2>5
<1>7. CASE q.cmd.op # "check_in"
  <2>1. /\ stored # None /\ q.base # None /\ SameArrival(q.object, stored)
        /\ SameArrival(q.base, stored)
        /\ q.base.status # PendingHost => stored.status # PendingHost
        /\ q.object.status \in {CopresenceOk, Completed}
    BY <1>1, <1>7 DEF Knows, FollowUpKnows
  <2>2. Arrived(stored) /\ stored \in SiteVisit /\ q.base \in SiteVisit
    BY <1>2, <2>1 DEF ArrivalInv
  <2>3. row = Merge(stored, q.base, q.object)
    BY <1>4, <2>1
  <2>4. /\ SameArrival(row, stored)
        /\ row.status \in {CopresenceOk, Completed}
        /\ row.hostPos \in {stored.hostPos, q.object.hostPos}
    BY <1>2, <2>1, <2>2, <2>3, MergeFields DEF Arrived
  <2>5. Arrived(row)
    BY <2>2, <2>4 DEF Arrived, SameArrival, CopresenceOk, Completed, Scheduled
  <2> QED BY <1>1, <1>2, <1>3, <1>4, <1>5, <1>7, <2>1, <2>2, <2>4, <2>5
<1> QED BY <1>6, <1>7

\* What a pending request knows survives the commit of another one.
LEMMA CommitLeavesKnown ==
    ASSUME ArrivalInv, NEW s \in Slots, Commit(s), NEW t \in Slots, t # s,
           Pending(req[t])
    PROVE  /\ visits'[req[t].visit] = None <=> visits[req[t].visit] = None
           /\ visits[req[t].visit] # None =>
                 /\ SameArrival(visits'[req[t].visit], visits[req[t].visit])
                 /\ visits[req[t].visit].status # PendingHost
                       => visits'[req[t].visit].status # PendingHost
<1> DEFINE q == req[s]
           v == req[t].visit
<1>1. v \in Visits
  BY DEF ArrivalInv, TypeInv, RequestsWellFormed, WellFormed, HasObject, Pending
<1>2. CASE v # q.visit
  BY <1>1, <1>2, CommitArrives DEF SameArrival
<1>3. CASE v = q.visit
  <2>1. q.cmd.op # "check_in"
    BY <1>3, CommitArrives DEF ArrivalInv
  <2> QED BY <1>3, <2>1, CommitArrives DEF CopresenceOk, Completed, PendingHost
<1> QED BY <1>2, <1>3

LEMMA LoadsAreCleanStep ==
    ASSUME TypeInv, LoadsAreClean, [Next]_vars
    PROVE  LoadsAreClean'
<1> SUFFICES ASSUME NEW t \in Slots, req'[t].pc = "load" PROVE req'[t].object = None
  BY DEF LoadsAreClean
<1>1. req[t] \in Request /\ req \in [Slots -> Request] /\ Idle.pc # "load"
  BY DEF TypeInv, TypeOK, Idle
<1>2. CASE req'[t] = req[t]
  BY <1>2 DEF LoadsAreClean
<1>3. ASSUME NEW c \in Commands, Receive(t, c) PROVE req'[t].object = None
  BY <1>1, <1>3 DEF Receive, Idle
<1>4. ~LoadCheckIn(t) /\ ~LoadConfirmHost(t) /\ ~LoadCheckOut(t)
  <2>1. \A code : ~Refuse(t, code)
    BY <1>1 DEF Refuse, Request
  <2>2. \A v, o, r : ~Proceed(t, v, o, r)
    BY <1>1 DEF Proceed, Request
  <2> QED BY <2>1, <2>2 DEF LoadCheckIn, LoadConfirmHost, LoadCheckOut
<1>5. ~Save(t) /\ ~Reply(t) /\ ~Drop(t) /\ ~Commit(t) /\ ~RollBack(t)
  <2>1. "pc" \in DOMAIN req[t]
    BY <1>1 DEF Request
  <2>2. ~Save(t)
    BY <1>1, <2>1 DEF Save
  <2>3. ~Reply(t)
    BY <1>1, <2>1 DEF Reply
  <2>4. ~Drop(t)
    BY <1>1 DEF Drop
  <2>5. ~Commit(t)
    BY <1>1, <2>1 DEF Commit
  <2>6. ~RollBack(t)
    BY <1>1, <2>1 DEF RollBack, Refuse
  <2> QED BY <2>2, <2>3, <2>4, <2>5, <2>6
<1>6. CASE \/ \E m \in Missions, j \in Jtis : IssueHostQrJwt(m, j)
           \/ \E m \in Missions, row \in MissionRows : MissionSaved(m, row)
           \/ Tick
           \/ UNCHANGED vars
  BY <1>2, <1>6 DEF IssueHostQrJwt, MissionSaved, Tick, vars
<1>7. ~Restart
  BY <1>1 DEF Restart
<1>8. ASSUME NEW s \in Slots,
             \/ \E c \in Commands : Receive(s, c)
             \/ LoadCheckIn(s) \/ LoadConfirmHost(s) \/ LoadCheckOut(s)
             \/ Save(s) \/ Commit(s) \/ RollBack(s) \/ Reply(s) \/ Drop(s)
      PROVE  req'[t].object = None
  <2>1. CASE s = t
    BY <1>3, <1>4, <1>5, <1>8, <2>1
  <2>2. CASE s # t
    BY <1>2, <1>8, <2>2, OtherRequests
  <2> QED BY <2>1, <2>2
<1> QED BY <1>6, <1>7, <1>8 DEF Next

\* What a request knows when it has just passed its checks.
LEMMA AcceptedKnows ==
    ASSUME ArrivalInv, NEW t \in Slots, Pending(req'[t]),
           LoadCheckIn(t) \/ LoadConfirmHost(t) \/ LoadCheckOut(t)
    PROVE  Knows(req[t])'
<1> DEFINE q == req'[t]
           c == req[t].cmd
<1>1. CASE LoadCheckIn(t)
  <2>1. /\ q.cmd = c /\ c.op = "check_in" /\ q.base = None /\ visits' = visits
        /\ visits[q.visit] = None
        /\ q.object = StartCheckIn(NewVisit(c.mission), q.at, c.mode, c.pos)
        /\ q.response = Ok(q.visit, None)
    BY <1>1, CheckInAccepted DEF CheckInCommand, FreshIds, tables
  <2> QED BY <2>1 DEF Knows, CheckInKnows, Ok
<1>2. CASE LoadConfirmHost(t)
  <2> DEFINE visit == visits[c.visit]
  <2>1. /\ q.cmd = c /\ c.op = "confirm_host" /\ ~Saved(q) /\ visits' = visits
        /\ visit \in SiteVisit /\ visit.mission = c.mission
        /\ q.visit = c.visit /\ q.object = MarkCopresenceOk(visit, c.pos)
        /\ q.response = Ok(c.visit, None)
    BY <1>2, ConfirmationAccepted
       DEF ConfirmHostCommand, ConfirmHostVerdict, tables
  <2>2. SameArrival(q.object, visit) /\ q.object.status = CopresenceOk /\ visit # None
    BY <2>1, MarkCopresenceOkFields, NoneAssumption
  <2> QED BY <2>1, <2>2 DEF Knows, FollowUpKnows, Ok, Saved, Pending
<1>3. CASE LoadCheckOut(t)
  <2> DEFINE visit == visits[c.visit]
  <2>1. /\ q.cmd = c /\ c.op = "check_out" /\ ~Saved(q) /\ visits' = visits
        /\ visit \in SiteVisit /\ visit.mission = c.mission
        /\ q.visit = c.visit /\ q.object = CheckOut(visit, now)
        /\ q.response = Ok(c.visit, now)
    BY <1>3, CheckOutAccepted
       DEF CheckOutCommand, CheckOutRequestVerdict, tables
  <2>2. SameArrival(q.object, visit) /\ q.object.status = Completed /\ visit # None
    BY <2>1, CheckOutFields, NoneAssumption
  <2> QED BY <2>1, <2>2 DEF Knows, FollowUpKnows, Ok, Saved, Pending
<1> QED BY <1>1, <1>2, <1>3

LEMMA KnowsStep ==
    ASSUME ArrivalInv, [Next]_vars, NEW t \in Slots, Pending(req'[t])
    PROVE  Knows(req[t])'
<1> DEFINE p == req[t]
           q == req'[t]
<1>1. TypeInv /\ LoadsAreClean
  BY DEF ArrivalInv
<1>2. CASE Pending(p) /\ SameRequest(p, q)
  <2>1. Knows(p)
    BY <1>2 DEF ArrivalInv
  <2>2. CASE visits' = visits
    <3>1. CheckInKnows(p) => CheckInKnows(req[t])'
      BY <1>2, <2>2 DEF SameRequest, CheckInKnows
    <3>2. FollowUpKnows(p) => FollowUpKnows(req[t])'
      BY <1>2, <2>2 DEF SameRequest, FollowUpKnows, Saved, Pending
    <3> QED BY <1>2, <2>1, <3>1, <3>2 DEF Knows, SameRequest
  <2>3. ASSUME NEW s \in Slots, Commit(s) PROVE Knows(req[t])'
    <3>1. s # t
      BY <1>1, <2>3, CommitEnds
    <3>2. /\ visits'[p.visit] = None <=> visits[p.visit] = None
          /\ visits[p.visit] # None =>
                /\ SameArrival(visits'[p.visit], visits[p.visit])
                /\ visits[p.visit].status # PendingHost
                      => visits'[p.visit].status # PendingHost
      BY <1>2, <2>3, <3>1, CommitLeavesKnown
    <3>3. CheckInKnows(p) => CheckInKnows(req[t])'
      BY <1>2, <3>2 DEF SameRequest, CheckInKnows
    <3>4. ASSUME FollowUpKnows(p) PROVE FollowUpKnows(req[t])'
      <4>1. /\ q.visit = p.visit /\ q.cmd = p.cmd /\ q.object = p.object
            /\ q.base = p.base /\ Saved(q) = Saved(p)
        BY <1>2 DEF SameRequest, Saved
      <4>2. /\ visits'[p.visit] # None /\ visits'[p.visit].mission = p.cmd.mission
            /\ SameArrival(p.object, visits'[p.visit])
            /\ Saved(p) => SameArrival(p.base, visits'[p.visit])
            /\ Saved(p) /\ p.base.status # PendingHost
                  => visits'[p.visit].status # PendingHost
        BY <3>2, <3>4 DEF FollowUpKnows, SameArrival
      <4> QED BY <3>4, <4>1, <4>2 DEF FollowUpKnows, Saved, Pending
    <3> QED BY <1>2, <2>1, <3>3, <3>4 DEF Knows, SameRequest
  <2> QED BY <2>2, <2>3, OnlyCommitWrites
<1>3. CASE Save(t)
  <2>1. /\ Pending(p) /\ ~Saved(p) /\ Saved(q) /\ q.cmd = p.cmd /\ q.at = p.at
        /\ q.visit = p.visit /\ q.object = p.object /\ q.response = p.response
        /\ q.base = visits[p.visit] /\ visits' = visits
    BY <1>1, <1>3, SaveStep DEF tables
  <2>2. Knows(p)
    BY <2>1 DEF ArrivalInv
  <2>3. CheckInKnows(p) => CheckInKnows(req[t])'
    BY <2>1 DEF CheckInKnows
  <2>4. FollowUpKnows(p) => FollowUpKnows(req[t])'
    BY <2>1 DEF FollowUpKnows, SameArrival
  <2> QED BY <2>1, <2>2, <2>3, <2>4 DEF Knows
<1>4. CASE LoadCheckIn(t) \/ LoadConfirmHost(t) \/ LoadCheckOut(t)
  BY <1>4, AcceptedKnows
<1> QED BY <1>1, <1>2, <1>3, <1>4, PendingStep

LEMMA ArrivalInit == Init => ArrivalInv
BY TypeInit DEF Init, ArrivalInv, LoadsAreClean, Pending, Idle

LEMMA ArrivalStep == ArrivalInv /\ [Next]_vars => ArrivalInv'
<1> SUFFICES ASSUME ArrivalInv, [Next]_vars PROVE ArrivalInv'
  OBVIOUS
<1>1. TypeInv' /\ LoadsAreClean'
  BY TypeStep, LoadsAreCleanStep DEF ArrivalInv
<1>2. ASSUME NEW v \in Visits, visits'[v] # None PROVE Arrived(visits[v])'
  <2>1. CASE visits' = visits
    BY <1>2, <2>1 DEF ArrivalInv, Arrived
  <2>2. ASSUME NEW s \in Slots, Commit(s) PROVE Arrived(visits[v])'
    <3>1. CASE v = req[s].visit
      BY <2>2, <3>1, CommitArrives DEF Arrived
    <3>2. CASE v # req[s].visit
      BY <1>2, <2>2, <3>2, CommitArrives DEF ArrivalInv, Arrived
    <3> QED BY <3>1, <3>2
  <2> QED BY <2>1, <2>2, OnlyCommitWrites
<1>3. ASSUME NEW t \in Slots, Pending(req'[t]) PROVE Knows(req[t])'
  BY <1>3, KnowsStep
<1>4. ASSUME NEW s \in Slots, NEW t \in Slots, s # t, Pending(req'[s]),
             Pending(req'[t]), req'[s].cmd.op = "check_in"
      PROVE  req'[s].visit # req'[t].visit
  <2>1. ASSUME NEW u \in Slots, Pending(req'[u])
        PROVE  \/ /\ Pending(req[u]) /\ req'[u].visit = req[u].visit
                  /\ req'[u].cmd = req[u].cmd
               \/ LoadCheckIn(u) \/ LoadConfirmHost(u) \/ LoadCheckOut(u)
    BY <2>1, PendingStep, SaveStep DEF ArrivalInv, SameRequest
  <2>2. ASSUME NEW u \in Slots, NEW w \in Slots, u # w,
               LoadCheckIn(u) \/ LoadConfirmHost(u) \/ LoadCheckOut(u)
        PROVE  req'[w] = req[w]
    BY <2>2, OtherRequests DEF ArrivalInv
  <2>3. CASE /\ Pending(req[s]) /\ req'[s].visit = req[s].visit
             /\ req'[s].cmd = req[s].cmd
    <3>1. CASE Pending(req[t]) /\ req'[t].visit = req[t].visit
      BY <1>4, <2>3, <3>1 DEF ArrivalInv
    <3>2. CASE LoadCheckIn(t)
      BY <1>4, <2>3, <3>2, CheckInAccepted DEF FreshIds
    <3>3. CASE LoadConfirmHost(t) \/ LoadCheckOut(t)
      <4>1. visits[req'[t].visit] # None
        BY <1>4, <3>3, ConfirmationAccepted, CheckOutAccepted, NoneAssumption
      <4>2. visits[req[s].visit] = None
        BY <1>4, <2>3 DEF ArrivalInv, Knows, CheckInKnows
      <4> QED BY <2>3, <4>1, <4>2
    <3> QED BY <1>4, <2>1, <3>1, <3>2, <3>3
  <2>4. CASE LoadCheckIn(s)
    <3>1. req'[s].visit \in FreshIds
      BY <1>4, <2>4, CheckInAccepted
    <3>2. req'[t] = req[t]
      BY <1>4, <2>2, <2>4
    <3> QED BY <3>1, <3>2 DEF FreshIds
  <2>5. ~LoadConfirmHost(s) /\ ~LoadCheckOut(s)
    BY <1>4, ConfirmationAccepted, CheckOutAccepted
       DEF ConfirmHostCommand, CheckOutCommand
  <2> QED BY <1>4, <2>1, <2>3, <2>4, <2>5
<1> QED BY <1>1, <1>2, <1>3, <1>4 DEF ArrivalInv

LEMMA Arrival == Spec => []ArrivalInv
BY ArrivalInit, ArrivalStep, PTL DEF Spec

\* What the check-in recorded never changes and a validated visit never waits
\* for its host again, although every save assigns every column of the row from
\* an object that may be stale (SiteVisitRepositoryImpl.save).
THEOREM ArrivalNeverChanges == Spec => ArrivalIsFinal
<1>1. ArrivalInv /\ [Next]_vars =>
        [\A v \in Visits : visits[v] # None =>
            /\ visits'[v].mission = visits[v].mission
            /\ visits'[v].checkedInAt = visits[v].checkedInAt
            /\ visits'[v].mode = visits[v].mode
            /\ visits'[v].inspectorPos = visits[v].inspectorPos
            /\ visits[v].status \in {CopresenceOk, Completed}
                  => visits'[v].status # PendingHost]_vars
  <2> SUFFICES ASSUME ArrivalInv, [Next]_vars, NEW v \in Visits, visits[v] # None
               PROVE  /\ SameArrival(visits'[v], visits[v])
                      /\ visits[v].status \in {CopresenceOk, Completed}
                            => visits'[v].status # PendingHost
    BY DEF SameArrival
  <2>1. PendingHost \notin {CopresenceOk, Completed}
    BY DEF PendingHost, CopresenceOk, Completed
  <2>2. CASE visits' = visits
    BY <2>1, <2>2 DEF SameArrival
  <2>3. ASSUME NEW s \in Slots, Commit(s)
        PROVE  /\ SameArrival(visits'[v], visits[v])
               /\ visits[v].status \in {CopresenceOk, Completed}
                     => visits'[v].status # PendingHost
    <3>1. CASE v # req[s].visit
      BY <2>1, <2>3, <3>1, CommitArrives DEF SameArrival
    <3>2. CASE v = req[s].visit
      BY <2>1, <2>3, <3>2, CommitArrives
    <3> QED BY <3>1, <3>2
  <2> QED BY <2>2, <2>3, OnlyCommitWrites
<1> QED BY <1>1, Arrival, PTL DEF Spec, ArrivalIsFinal

\* Of the requests on a visit that is there, only the next one passes its
\* checks: no check-in of its mission, a confirmation while it waits for its
\* host, a check-out once it is validated, and nothing once it is completed.
AcceptsOnlyTheNext ==
    [][\A s \in Slots, v \in Visits :
          visits[v] # None /\ ~Pending(req[s]) /\ Pending(req'[s]) =>
             LET c == req'[s].cmd
             IN  /\ c.op = "check_in" => c.mission # visits[v].mission
                 /\ c.op = "confirm_host" /\ c.visit = v => visits[v].status = PendingHost
                 /\ c.op = "check_out" /\ c.visit = v => visits[v].status = CopresenceOk]_vars

\* check_in never finds the scheduled visit it provides for
\* (check_in_inspector.py): a row is stored with its arrival only, so that a
\* second check-in is always refused; the other two test the status they read.
THEOREM OnlyTheNextIsAccepted == Spec => AcceptsOnlyTheNext
<1>1. ASSUME ArrivalInv, [Next]_vars, NEW s \in Slots, NEW v \in Visits,
             visits[v] # None, ~Pending(req[s]), Pending(req'[s])
      PROVE  LET c == req'[s].cmd
             IN  /\ c.op = "check_in" => c.mission # visits[v].mission
                 /\ c.op = "confirm_host" /\ c.visit = v => visits[v].status = PendingHost
                 /\ c.op = "check_out" /\ c.visit = v => visits[v].status = CopresenceOk
  <2>1. TypeInv /\ LoadsAreClean
    BY <1>1 DEF ArrivalInv
  <2>2. LoadCheckIn(s) \/ LoadConfirmHost(s) \/ LoadCheckOut(s)
    BY <1>1, <2>1, PendingStep, SaveStep
  <2>3. CASE LoadCheckIn(s)
    BY <1>1, <2>3, CheckInAccepted DEF CheckInCommand, VisitsOf
  <2>4. CASE LoadConfirmHost(s)
    BY <1>1, <2>4, ConfirmationAccepted
       DEF ConfirmHostCommand, ConfirmHostVerdict, MarkCopresenceVerdict
  <2>5. CASE LoadCheckOut(s)
    BY <1>1, <2>5, CheckOutAccepted
       DEF CheckOutCommand, CheckOutRequestVerdict, CheckOutVerdict
  <2> QED BY <2>2, <2>3, <2>4, <2>5
<1>2. ArrivalInv /\ [Next]_vars =>
         [\A s \in Slots, v \in Visits :
             visits[v] # None /\ ~Pending(req[s]) /\ Pending(req'[s]) =>
                LET c == req'[s].cmd
                IN  /\ c.op = "check_in" => c.mission # visits[v].mission
                    /\ c.op = "confirm_host" /\ c.visit = v
                          => visits[v].status = PendingHost
                    /\ c.op = "check_out" /\ c.visit = v
                          => visits[v].status = CopresenceOk]_vars
  BY <1>1
<1> QED BY <1>2, Arrival, PTL DEF Spec, AcceptsOnlyTheNext

-----------------------------------------------------------------------------
(* The evidence *)

LEMMA Appended ==
    ASSUME NEW S, NEW seq \in Seq(S), NEW e \in S
    PROVE  seq \o <<e>> = Append(seq, e) /\ Len(Append(seq, e)) = Len(seq) + 1
OBVIOUS

\* What a commit adds to the evidence: to its visit only, an event for a
\* confirmation, a proof for a check-in or a confirmation.
LEMMA EvidenceAdded ==
    ASSUME ArrivalInv, NEW s \in Slots, Commit(s), NEW v \in Visits
    PROVE  LET q == req[s]
           IN  /\ events[v] \in Seq(CoPresenceEvent) /\ proofs[v] \in Seq(PresenceProof)
               /\ events'[v] = IF v = q.visit /\ q.cmd.op = "confirm_host"
                               THEN Append(events[v], [validatedAt |-> q.at,
                                                       mode |-> q.object.mode])
                               ELSE events[v]
               /\ Len(events'[v]) = IF v = q.visit /\ q.cmd.op = "confirm_host"
                                    THEN Len(events[v]) + 1 ELSE Len(events[v])
               /\ Len(proofs'[v]) = IF v = q.visit /\ q.cmd.op # "check_out"
                                    THEN Len(proofs[v]) + 1 ELSE Len(proofs[v])
<1> DEFINE q == req[s]
           event == [validatedAt |-> q.at, mode |-> q.object.mode]
<1>1. /\ TypeInv /\ q.pc = "commit" /\ q.visit \in Visits /\ q.cmd \in Commands
      /\ q.cmd.op \in {"check_in", "confirm_host", "check_out"}
  BY CommitArrives, CommandByOp DEF ArrivalInv, Commit
<1>2. /\ events \in [Visits -> Seq(CoPresenceEvent)]
      /\ proofs \in [Visits -> Seq(PresenceProof)]
      /\ EventsOf(q) \in Seq(CoPresenceEvent) /\ ProofsOf(q) \in Seq(PresenceProof)
  BY <1>1, CommittedTypes DEF TypeInv, TypeOK
<1>3. /\ events'[v] = IF v = q.visit THEN events[v] \o EventsOf(q) ELSE events[v]
      /\ proofs'[v] = IF v = q.visit THEN proofs[v] \o ProofsOf(q) ELSE proofs[v]
  BY <1>1, <1>2 DEF Commit
<1>4. EventsOf(q) = IF q.cmd.op = "confirm_host" THEN <<event>> ELSE <<>>
  BY DEF EventsOf
<1>5. Len(ProofsOf(q)) = IF q.cmd.op # "check_out" THEN 1 ELSE 0
  <2>1. CASE q.cmd.op = "check_in"
    BY <2>1 DEF ProofsOf
  <2>2. CASE q.cmd.op = "confirm_host"
    BY <2>2 DEF ProofsOf
  <2>3. CASE q.cmd.op = "check_out"
    BY <2>3 DEF ProofsOf
  <2> QED BY <1>1, <2>1, <2>2, <2>3
<1>6. Len(proofs'[v]) = IF v = q.visit /\ q.cmd.op # "check_out"
                        THEN Len(proofs[v]) + 1 ELSE Len(proofs[v])
  <2>1. Len(proofs[v] \o ProofsOf(q)) = Len(proofs[v]) + Len(ProofsOf(q))
        /\ Len(proofs[v]) \in Nat
    BY <1>2
  <2> DEFINE more == Len(ProofsOf(q))
             before == Len(proofs[v])
  <2>2. CASE v # q.visit
    BY <1>3, <2>2
  <2>3. CASE v = q.visit
    <3>1. Len(proofs'[v]) = before + more
      BY <1>3, <2>1, <2>3
    <3>2. more = (IF q.cmd.op # "check_out" THEN 1 ELSE 0) /\ before \in Nat
      BY <1>5, <2>1
    <3> HIDE DEF more, before
    <3>3. before + more = IF q.cmd.op # "check_out" THEN before + 1 ELSE before
      BY <3>2
    <3> QED BY <2>3, <3>1, <3>3 DEF before
  <2> QED BY <2>2, <2>3
<1>7. CASE v = q.visit /\ q.cmd.op = "confirm_host"
  <2>1. EventsOf(q) = <<event>> /\ events'[v] = events[v] \o EventsOf(q)
    BY <1>3, <1>4, <1>7, Zenon
  <2>2. events[v] \in Seq(CoPresenceEvent)
    BY <1>2
  <2> HIDE DEF event
  <2>3. event \in CoPresenceEvent
    BY <1>2, <2>1
  <2>4. events'[v] = Append(events[v], event) /\ Len(events'[v]) = Len(events[v]) + 1
    BY <2>1, <2>2, <2>3, Appended
  <2> QED BY <1>2, <1>6, <1>7, <2>4 DEF event
<1>8. CASE ~(v = q.visit /\ q.cmd.op = "confirm_host")
  <2>1. events'[v] = events[v]
    BY <1>2, <1>3, <1>4, <1>8
  <2> QED BY <1>2, <1>6, <1>8, <2>1
<1> QED BY <1>7, <1>8

ConfirmationsOf(v) == {r \in idem : r.scope = <<"confirm_host", v>>}

ArrivalsOf(v) == {r \in idem : r.scope[1] = "check_in" /\ r.response.visit = v}

\* The record of a commit is new, and counts for its visit and its operation.
LEMMA RecordAdded ==
    ASSUME ArrivalInv, NEW s \in Slots, Commit(s), NEW v \in Visits
    PROVE  LET q == req[s]
               record == RecordOf(q)
           IN  /\ record \notin idem /\ idem' = idem \cup {record}
               /\ record.key = q.cmd.key /\ Recorded(q.cmd) = {}
               /\ ConfirmationsOf(v)' = IF v = q.visit /\ q.cmd.op = "confirm_host"
                                      THEN ConfirmationsOf(v) \cup {record}
                                      ELSE ConfirmationsOf(v)
               /\ ArrivalsOf(v)' = IF v = q.visit /\ q.cmd.op = "check_in"
                                 THEN ArrivalsOf(v) \cup {record} ELSE ArrivalsOf(v)
<1> DEFINE q == req[s]
           record == RecordOf(q)
<1>1. Recorded(q.cmd) = {} /\ idem' = idem \cup {record}
  BY DEF Commit, IntegrityError, KeyTaken
<1>2. record.scope = Scope(q.cmd) /\ record.key = q.cmd.key /\ record.response = q.response
  BY DEF RecordOf
<1>3. /\ record.scope[1] = q.cmd.op /\ record.response.visit = q.visit
      /\ q.cmd.op = "confirm_host" => record.scope = <<"confirm_host", q.visit>>
  <2>1. Scope(q.cmd) = <<q.cmd.op, IF q.cmd.op = "check_in" THEN q.cmd.mission
                                   ELSE q.cmd.visit>>
    BY DEF Scope
  <2>2. q.response.visit = q.visit /\ (q.cmd.op # "check_in" => q.visit = q.cmd.visit)
    BY CommitArrives DEF Knows, FollowUpKnows
  <2> HIDE DEF record
  <2> QED BY <1>2, <2>1, <2>2
<1> HIDE DEF record
<1>4. record \notin idem
  BY <1>1, <1>2 DEF Recorded
<1>5. ConfirmationsOf(v)' = IF v = q.visit /\ q.cmd.op = "confirm_host"
                          THEN ConfirmationsOf(v) \cup {record} ELSE ConfirmationsOf(v)
  <2>1. record.scope = <<"confirm_host", v>> <=> v = q.visit /\ q.cmd.op = "confirm_host"
    BY <1>3
  <2> QED BY <1>1, <2>1 DEF ConfirmationsOf
<1>6. ArrivalsOf(v)' = IF v = q.visit /\ q.cmd.op = "check_in"
                     THEN ArrivalsOf(v) \cup {record} ELSE ArrivalsOf(v)
  BY <1>1, <1>3 DEF ArrivalsOf
<1> QED BY <1>1, <1>2, <1>4, <1>5, <1>6 DEF record

\* A record is added by a commit, and removed by a restart only.
LEMMA OnlyCommitRecords ==
    ASSUME [Next]_vars
    PROVE  \/ UNCHANGED <<visits, proofs, events, usedJti, idem>>
           \/ \E s \in Slots : Commit(s)
           \/ Restart
<1>1. CASE \E s \in Slots :
              \/ \E c \in Commands : Receive(s, c)
              \/ LoadCheckIn(s) \/ LoadConfirmHost(s) \/ LoadCheckOut(s)
              \/ Save(s) \/ RollBack(s) \/ Reply(s) \/ Drop(s)
  BY <1>1 DEF Receive, LoadCheckIn, LoadConfirmHost, LoadCheckOut, Save, RollBack,
              Reply, Drop, tables
<1>2. CASE \/ \E m \in Missions, j \in Jtis : IssueHostQrJwt(m, j)
           \/ \E m \in Missions, row \in MissionRows : MissionSaved(m, row)
           \/ Tick
  BY <1>2 DEF IssueHostQrJwt, MissionSaved, Tick, tables
<1>3. CASE UNCHANGED vars
  BY <1>3 DEF vars, tables
<1> QED BY <1>1, <1>2, <1>3 DEF Next

EffectsInv ==
    /\ ArrivalInv
    /\ IsFiniteSet(idem)
    /\ \A v \in Visits :
          /\ Len(events[v]) = Cardinality(ConfirmationsOf(v))
          /\ Len(proofs[v]) = Cardinality(ConfirmationsOf(v)) + Cardinality(ArrivalsOf(v))
          /\ ArrivalsOf(v) = {} <=> visits[v] = None

LEMMA CommitMatches ==
    ASSUME EffectsInv, NEW s \in Slots, Commit(s), NEW v \in Visits
    PROVE  /\ Len(events'[v]) = Cardinality(ConfirmationsOf(v)')
           /\ Len(proofs'[v]) = Cardinality(ConfirmationsOf(v)') + Cardinality(ArrivalsOf(v)')
           /\ ArrivalsOf(v)' = {} <=> visits'[v] = None
<1> DEFINE q == req[s]
           record == RecordOf(q)
<1>1. ArrivalInv /\ q.cmd.op \in {"check_in", "confirm_host", "check_out"}
  BY CommitArrives, CommandByOp DEF EffectsInv
<1>2. /\ IsFiniteSet(ConfirmationsOf(v)) /\ IsFiniteSet(ArrivalsOf(v))
      /\ record \notin ConfirmationsOf(v) /\ record \notin ArrivalsOf(v)
  <2>1. IsFiniteSet(idem) /\ record \notin idem
    BY <1>1, RecordAdded DEF EffectsInv
  <2>2. ConfirmationsOf(v) \in SUBSET idem /\ ArrivalsOf(v) \in SUBSET idem
    BY DEF ConfirmationsOf, ArrivalsOf
  <2> QED BY <2>1, <2>2, FS_Subset
<1>3. /\ Cardinality(ConfirmationsOf(v)) \in Nat /\ Cardinality(ArrivalsOf(v)) \in Nat
      /\ Cardinality(ConfirmationsOf(v) \cup {record}) = Cardinality(ConfirmationsOf(v)) + 1
      /\ Cardinality(ArrivalsOf(v) \cup {record}) = Cardinality(ArrivalsOf(v)) + 1
  BY <1>2, FS_AddElement, FS_CardinalityType
<1> HIDE DEF record
<1>4. /\ ConfirmationsOf(v)' = IF v = q.visit /\ q.cmd.op = "confirm_host"
                             THEN ConfirmationsOf(v) \cup {record} ELSE ConfirmationsOf(v)
      /\ ArrivalsOf(v)' = IF v = q.visit /\ q.cmd.op = "check_in"
                        THEN ArrivalsOf(v) \cup {record} ELSE ArrivalsOf(v)
  BY <1>1, RecordAdded DEF record
<1>5. /\ Len(events'[v]) = IF v = q.visit /\ q.cmd.op = "confirm_host"
                           THEN Len(events[v]) + 1 ELSE Len(events[v])
      /\ Len(proofs'[v]) = IF v = q.visit /\ q.cmd.op # "check_out"
                           THEN Len(proofs[v]) + 1 ELSE Len(proofs[v])
  BY <1>1, EvidenceAdded
<1>6. /\ Len(events[v]) = Cardinality(ConfirmationsOf(v))
      /\ Len(proofs[v]) = Cardinality(ConfirmationsOf(v)) + Cardinality(ArrivalsOf(v))
      /\ ArrivalsOf(v) = {} <=> visits[v] = None
  BY DEF EffectsInv
<1>7. Len(events'[v]) = Cardinality(ConfirmationsOf(v)')
  BY <1>3, <1>4, <1>5, <1>6
<1>8. Len(proofs'[v]) = Cardinality(ConfirmationsOf(v)') + Cardinality(ArrivalsOf(v)')
  <2>1. CASE v = q.visit /\ q.cmd.op = "check_in"
    BY <1>3, <1>4, <1>5, <1>6, <2>1
  <2>2. CASE v = q.visit /\ q.cmd.op = "confirm_host"
    BY <1>3, <1>4, <1>5, <1>6, <2>2
  <2>3. CASE v # q.visit \/ q.cmd.op = "check_out"
    BY <1>3, <1>4, <1>5, <1>6, <2>3
  <2> QED BY <1>1, <2>1, <2>2, <2>3
<1>9. ArrivalsOf(v)' = {} <=> visits'[v] = None
  <2>1. CASE v # q.visit
    BY <1>1, <1>4, <1>6, <2>1, CommitArrives
  <2>2. CASE v = q.visit /\ q.cmd.op = "check_in"
    BY <1>1, <1>4, <2>2, CommitArrives
  <2>3. CASE v = q.visit /\ q.cmd.op # "check_in"
    BY <1>1, <1>4, <1>6, <2>3, CommitArrives
  <2> QED BY <2>1, <2>2, <2>3
<1> QED BY <1>7, <1>8, <1>9

\* While records are kept, a visit has one event per confirmation that was
\* recorded and one proof per check-in or confirmation, whatever was replayed,
\* lost or run concurrently: an effect and its record are committed together.
THEOREM EffectsAreRecorded ==
    ASSUME Retention >= MaxTime
    PROVE  Spec => []EffectsMatchRecords
<1>1. Init => EffectsInv
  <2> SUFFICES ASSUME Init PROVE EffectsInv
    OBVIOUS
  <2>1. \A v \in Visits : ConfirmationsOf(v) = {} /\ ArrivalsOf(v) = {}
    BY DEF Init, ConfirmationsOf, ArrivalsOf
  <2>2. IsFiniteSet(idem) /\ Cardinality({}) = 0
    BY FS_EmptySet DEF Init
  <2>3. \A v \in Visits : /\ visits[v] = None
                          /\ Len(events[v]) = 0 /\ Len(proofs[v]) = 0
    <3>1. Len(<<>>) = 0
      OBVIOUS
    <3> QED BY <3>1 DEF Init
  <2>4. ASSUME NEW v \in Visits
        PROVE  /\ Len(events[v]) = Cardinality(ConfirmationsOf(v))
               /\ Len(proofs[v]) = Cardinality(ConfirmationsOf(v)) + Cardinality(ArrivalsOf(v))
               /\ ArrivalsOf(v) = {} <=> visits[v] = None
    <3>1. Cardinality(ConfirmationsOf(v)) = 0 /\ Cardinality(ArrivalsOf(v)) = 0
      BY <2>1, <2>2
    <3> QED BY <2>1, <2>3, <3>1
  <2>5. ArrivalInv
    BY ArrivalInit
  <2> QED BY <2>2, <2>4, <2>5 DEF EffectsInv
<1>2. EffectsInv /\ [Next]_vars => EffectsInv'
  <2> SUFFICES ASSUME EffectsInv, [Next]_vars PROVE EffectsInv'
    OBVIOUS
  <2>1. ArrivalInv'
    BY ArrivalStep DEF EffectsInv
  <2>2. CASE UNCHANGED <<visits, proofs, events, usedJti, idem>>
    BY <2>1, <2>2 DEF EffectsInv, ConfirmationsOf, ArrivalsOf
  <2>3. ASSUME NEW s \in Slots, Commit(s) PROVE EffectsInv'
    <3>1. IsFiniteSet(idem')
      BY <2>3, FS_AddElement DEF EffectsInv, Commit
    <3> QED BY <2>1, <2>3, <3>1, CommitMatches DEF EffectsInv
  <2>4. ~Restart
    \* No record is old enough to be purged.
    <3>1. SUFFICES ASSUME NEW r \in idem, r.createdAt + Retention < now PROVE FALSE
      BY DEF Restart
    <3>2. r.createdAt \in Nat /\ now \in Nat /\ now <= MaxTime
      BY ConstantsAssumption
         DEF EffectsInv, ArrivalInv, TypeInv, TypeOK, IdempotencyRecord, Time
    <3> QED BY <3>1, <3>2, ConstantsAssumption
  <2> QED BY <2>2, <2>3, <2>4, OnlyCommitRecords
<1>3. EffectsInv => EffectsMatchRecords
  BY DEF EffectsInv, EffectsMatchRecords, ConfirmationsOf, ArrivalsOf
<1> QED BY <1>1, <1>2, <1>3, PTL DEF Spec

\* A visit has at least the evidence of the records that are kept.
RecordsHaveEffects ==
    \A v \in Visits :
        /\ Cardinality(ConfirmationsOf(v)) <= Len(events[v])
        /\ Cardinality(ConfirmationsOf(v)) + Cardinality(ArrivalsOf(v)) <= Len(proofs[v])
        /\ ArrivalsOf(v) # {} => visits[v] # None

KeptInv == ArrivalInv /\ IsFiniteSet(idem) /\ RecordsHaveEffects

LEMMA CommitHasEffect ==
    ASSUME KeptInv, NEW s \in Slots, Commit(s), NEW v \in Visits
    PROVE  /\ Cardinality(ConfirmationsOf(v)') <= Len(events'[v])
           /\ Cardinality(ConfirmationsOf(v)') + Cardinality(ArrivalsOf(v)') <= Len(proofs'[v])
           /\ ArrivalsOf(v)' # {} => visits'[v] # None
<1> DEFINE q == req[s]
           record == RecordOf(q)
           confirms == v = q.visit /\ q.cmd.op = "confirm_host"
           arrives == v = q.visit /\ q.cmd.op = "check_in"
<1>1. ArrivalInv /\ q.cmd.op \in {"check_in", "confirm_host", "check_out"}
  BY CommitArrives, CommandByOp DEF KeptInv
<1>2. /\ IsFiniteSet(ConfirmationsOf(v)) /\ IsFiniteSet(ArrivalsOf(v))
      /\ record \notin ConfirmationsOf(v) /\ record \notin ArrivalsOf(v)
  <2>1. IsFiniteSet(idem) /\ record \notin idem
    BY <1>1, RecordAdded DEF KeptInv
  <2>2. ConfirmationsOf(v) \in SUBSET idem /\ ArrivalsOf(v) \in SUBSET idem
    BY DEF ConfirmationsOf, ArrivalsOf
  <2> QED BY <2>1, <2>2, FS_Subset
<1>3. /\ Cardinality(ConfirmationsOf(v)) \in Nat /\ Cardinality(ArrivalsOf(v)) \in Nat
      /\ Cardinality(ConfirmationsOf(v) \cup {record}) = Cardinality(ConfirmationsOf(v)) + 1
      /\ Cardinality(ArrivalsOf(v) \cup {record}) = Cardinality(ArrivalsOf(v)) + 1
  BY <1>2, FS_AddElement, FS_CardinalityType
<1> HIDE DEF record
<1>4. /\ ConfirmationsOf(v)' = IF confirms THEN ConfirmationsOf(v) \cup {record}
                               ELSE ConfirmationsOf(v)
      /\ ArrivalsOf(v)' = IF arrives THEN ArrivalsOf(v) \cup {record} ELSE ArrivalsOf(v)
  BY <1>1, RecordAdded DEF record
<1>5. /\ Len(events'[v]) = IF confirms THEN Len(events[v]) + 1 ELSE Len(events[v])
      /\ Len(proofs'[v]) = IF confirms \/ arrives THEN Len(proofs[v]) + 1
                           ELSE Len(proofs[v])
      /\ Len(events[v]) \in Nat /\ Len(proofs[v]) \in Nat
  <2>1. /\ Len(events'[v]) = IF confirms THEN Len(events[v]) + 1 ELSE Len(events[v])
        /\ Len(proofs'[v]) = IF v = q.visit /\ q.cmd.op # "check_out"
                             THEN Len(proofs[v]) + 1 ELSE Len(proofs[v])
        /\ events[v] \in Seq(CoPresenceEvent) /\ proofs[v] \in Seq(PresenceProof)
    BY <1>1, EvidenceAdded
  <2>2. confirms \/ arrives <=> v = q.visit /\ q.cmd.op # "check_out"
    BY <1>1
  <2>3. Len(events[v]) \in Nat /\ Len(proofs[v]) \in Nat
    BY <2>1
  <2> HIDE DEF confirms, arrives
  <2> QED BY <2>1, <2>2, <2>3
<1>6. /\ Cardinality(ConfirmationsOf(v)) <= Len(events[v])
      /\ Cardinality(ConfirmationsOf(v)) + Cardinality(ArrivalsOf(v)) <= Len(proofs[v])
      /\ ArrivalsOf(v) # {} => visits[v] # None
  BY DEF KeptInv, RecordsHaveEffects
<1>7. ArrivalsOf(v)' # {} => visits'[v] # None
  <2>1. CASE v = q.visit
    BY <1>1, <2>1, CommitArrives
  <2>2. CASE v # q.visit
    <3>1. ArrivalsOf(v)' = ArrivalsOf(v) /\ visits'[v] = visits[v]
      BY <1>1, <1>4, <2>2, CommitArrives
    <3> QED BY <1>6, <3>1
  <2> QED BY <2>1, <2>2
<1>8. ~(confirms /\ arrives)
  OBVIOUS
<1> HIDE DEF confirms, arrives
<1>9. CASE confirms
  BY <1>3, <1>4, <1>5, <1>6, <1>7, <1>8, <1>9
<1>10. CASE arrives
  BY <1>3, <1>4, <1>5, <1>6, <1>7, <1>8, <1>10
<1>11. CASE ~confirms /\ ~arrives
  BY <1>4, <1>5, <1>6, <1>7, <1>11
<1> QED BY <1>9, <1>10, <1>11

\* What a key was answered has been done, and is never undone: the evidence of
\* a visit covers the records of it, whatever was replayed, lost or run
\* concurrently, and whatever a restart has purged.
THEOREM AnswersHaveEffects == Spec => []RecordsHaveEffects
<1>1. Init => KeptInv
  <2> SUFFICES ASSUME Init PROVE KeptInv
    OBVIOUS
  <2>1. \A v \in Visits : ConfirmationsOf(v) = {} /\ ArrivalsOf(v) = {}
    BY DEF Init, ConfirmationsOf, ArrivalsOf
  <2>2. IsFiniteSet(idem) /\ Cardinality({}) = 0
    BY FS_EmptySet DEF Init
  <2>3. \A v \in Visits : Len(events[v]) = 0 /\ Len(proofs[v]) = 0
    <3>1. Len(<<>>) = 0
      OBVIOUS
    <3> QED BY <3>1 DEF Init
  <2>4. ASSUME NEW v \in Visits
        PROVE  /\ Cardinality(ConfirmationsOf(v)) <= Len(events[v])
               /\ Cardinality(ConfirmationsOf(v)) + Cardinality(ArrivalsOf(v)) <= Len(proofs[v])
               /\ ArrivalsOf(v) # {} => visits[v] # None
    <3>1. Cardinality(ConfirmationsOf(v)) = 0 /\ Cardinality(ArrivalsOf(v)) = 0
      BY <2>1, <2>2
    <3> QED BY <2>1, <2>3, <3>1
  <2> QED BY <2>2, <2>4, ArrivalInit DEF KeptInv, RecordsHaveEffects
<1>2. KeptInv /\ [Next]_vars => KeptInv'
  <2> SUFFICES ASSUME KeptInv, [Next]_vars PROVE KeptInv'
    OBVIOUS
  <2>1. ArrivalInv'
    BY ArrivalStep DEF KeptInv
  <2>2. CASE UNCHANGED <<visits, proofs, events, usedJti, idem>>
    BY <2>1, <2>2 DEF KeptInv, RecordsHaveEffects, ConfirmationsOf, ArrivalsOf
  <2>3. ASSUME NEW s \in Slots, Commit(s) PROVE KeptInv'
    <3>1. IsFiniteSet(idem')
      BY <2>3, FS_AddElement DEF KeptInv, Commit
    <3> QED BY <2>1, <2>3, <3>1, CommitHasEffect DEF KeptInv, RecordsHaveEffects
  <2>4. CASE Restart
    <3>1. UNCHANGED <<visits, proofs, events>> /\ idem' \subseteq idem /\ IsFiniteSet(idem')
      BY <2>4, FS_Subset DEF Restart, KeptInv
    <3>2. ASSUME NEW v \in Visits
          PROVE  /\ Cardinality(ConfirmationsOf(v)') <= Len(events[v])
                 /\ Cardinality(ConfirmationsOf(v)') + Cardinality(ArrivalsOf(v)')
                       <= Len(proofs[v])
                 /\ ArrivalsOf(v)' # {} => visits[v] # None
      <4>1. /\ ConfirmationsOf(v)' \subseteq ConfirmationsOf(v)
            /\ ArrivalsOf(v)' \subseteq ArrivalsOf(v)
        BY <3>1 DEF ConfirmationsOf, ArrivalsOf
      <4>2. IsFiniteSet(ConfirmationsOf(v)) /\ IsFiniteSet(ArrivalsOf(v))
        BY FS_Subset DEF KeptInv, ConfirmationsOf, ArrivalsOf
      <4>3. /\ Cardinality(ConfirmationsOf(v)') <= Cardinality(ConfirmationsOf(v))
            /\ Cardinality(ConfirmationsOf(v)') \in Nat
            /\ Cardinality(ConfirmationsOf(v)) \in Nat
        BY <4>1, <4>2, FS_Subset, FS_CardinalityType
      <4>4. /\ Cardinality(ArrivalsOf(v)') <= Cardinality(ArrivalsOf(v))
            /\ Cardinality(ArrivalsOf(v)') \in Nat
            /\ Cardinality(ArrivalsOf(v)) \in Nat
        BY <4>1, <4>2, FS_Subset, FS_CardinalityType
      <4>5. /\ Cardinality(ConfirmationsOf(v)) <= Len(events[v])
            /\ Cardinality(ConfirmationsOf(v)) + Cardinality(ArrivalsOf(v)) <= Len(proofs[v])
            /\ ArrivalsOf(v) # {} => visits[v] # None
        BY DEF KeptInv, RecordsHaveEffects
      <4>6. Len(events[v]) \in Nat /\ Len(proofs[v]) \in Nat
        BY DEF KeptInv, ArrivalInv, TypeInv, TypeOK
      <4> QED BY <4>1, <4>3, <4>4, <4>5, <4>6
    <3> QED BY <2>1, <3>1, <3>2 DEF KeptInv, RecordsHaveEffects
  <2> QED BY <2>2, <2>3, <2>4, OnlyCommitRecords
<1>3. KeptInv => RecordsHaveEffects
  BY DEF KeptInv
<1> QED BY <1>1, <1>2, <1>3, PTL DEF Spec

-----------------------------------------------------------------------------
(* Evidence is bounded even when records are purged: once a visit has an     *)
(* event no confirmation passes its checks any more, and those that had      *)
(* passed them have keys that are still recorded, since a restart ends them. *)

ConfirmedKeys(v) == {k \in Keys : \E r \in ConfirmationsOf(v) : r.key = k}

BoundedInv ==
    /\ ArrivalInv
    /\ \A v \in Visits :
          /\ Len(events[v]) <= Cardinality(Keys)
          /\ visits[v] = None => Len(events[v]) = 0 /\ Len(proofs[v]) = 0
          /\ visits[v] # None => Len(proofs[v]) = Len(events[v]) + 1
          /\ visits[v] # None /\ visits[v].status = PendingHost => Len(events[v]) = 0
    /\ \A s \in Slots :
          Pending(req[s]) /\ req[s].cmd.op = "confirm_host"
             => Len(events[req[s].visit]) <= Cardinality(ConfirmedKeys(req[s].visit))

LEMMA ConfirmedKeysType ==
    ASSUME IsFiniteSet(Keys), NEW v
    PROVE  /\ IsFiniteSet(ConfirmedKeys(v))
           /\ Cardinality(ConfirmedKeys(v)) \in Nat
           /\ Cardinality(Keys) \in Nat
           /\ Cardinality(ConfirmedKeys(v)) <= Cardinality(Keys)
<1>1. ConfirmedKeys(v) \in SUBSET Keys
  BY DEF ConfirmedKeys
<1> QED BY <1>1, FS_Subset, FS_CardinalityType

\* The key of a confirmation that commits is a new one for its visit.
LEMMA KeyAdded ==
    ASSUME IsFiniteSet(Keys), ArrivalInv, NEW s \in Slots, Commit(s), NEW v \in Visits
    PROVE  Cardinality(ConfirmedKeys(v)') =
              IF v = req[s].visit /\ req[s].cmd.op = "confirm_host"
              THEN Cardinality(ConfirmedKeys(v)) + 1 ELSE Cardinality(ConfirmedKeys(v))
<1> DEFINE q == req[s]
           record == RecordOf(q)
<1>1. /\ Recorded(q.cmd) = {} /\ record.key = q.cmd.key
      /\ ConfirmationsOf(v)' = IF v = q.visit /\ q.cmd.op = "confirm_host"
                             THEN ConfirmationsOf(v) \cup {record} ELSE ConfirmationsOf(v)
  BY RecordAdded
<1>2. q.cmd.key \in Keys
  BY CommitArrives, ScopeType
<1>3. CASE v = q.visit /\ q.cmd.op = "confirm_host"
  <2>1. Scope(q.cmd) = <<"confirm_host", v>>
    BY <1>3, CommitArrives DEF Scope, Knows, FollowUpKnows
  <2>2. q.cmd.key \notin ConfirmedKeys(v)
    BY <1>1, <2>1 DEF Recorded, ConfirmedKeys, ConfirmationsOf
  <2> HIDE DEF record
  <2>3. ConfirmedKeys(v)' = ConfirmedKeys(v) \cup {q.cmd.key}
    BY <1>1, <1>2, <1>3 DEF ConfirmedKeys
  <2> QED BY <1>3, <2>2, <2>3, ConfirmedKeysType, FS_AddElement
<1>4. CASE ~(v = q.visit /\ q.cmd.op = "confirm_host")
  BY <1>1, <1>4 DEF ConfirmedKeys
<1> QED BY <1>3, <1>4

LEMMA BoundedCommit ==
    ASSUME IsFiniteSet(Keys), BoundedInv, NEW s \in Slots, Commit(s)
    PROVE  BoundedInv'
<1> DEFINE q == req[s]
<1>1. ArrivalInv /\ ArrivalInv'
  BY ArrivalStep DEF BoundedInv, Next
<1>2. ASSUME NEW v \in Visits
      PROVE  /\ Len(events[v]) \in Nat /\ Len(proofs[v]) \in Nat
             /\ Cardinality(ConfirmedKeys(v)) \in Nat /\ Cardinality(Keys) \in Nat
             /\ Cardinality(ConfirmedKeys(v)') <= Cardinality(Keys)
  <2>1. events[v] \in Seq(CoPresenceEvent) /\ proofs[v] \in Seq(PresenceProof)
    BY <1>1, EvidenceAdded
  <2>2. ConfirmedKeys(v)' \in SUBSET Keys
    BY DEF ConfirmedKeys
  <2>3. Cardinality(ConfirmedKeys(v)') <= Cardinality(Keys)
    BY <2>2, FS_Subset
  <2> QED BY <2>1, <2>3, ConfirmedKeysType
<1>3. ASSUME NEW v \in Visits
      PROVE  /\ Len(events'[v]) <= Cardinality(Keys)
             /\ visits'[v] = None => Len(events'[v]) = 0 /\ Len(proofs'[v]) = 0
             /\ visits'[v] # None => Len(proofs'[v]) = Len(events'[v]) + 1
             /\ visits'[v] # None /\ visits'[v].status = PendingHost
                   => Len(events'[v]) = 0
  <2>1. /\ Len(events[v]) <= Cardinality(Keys)
        /\ visits[v] = None => Len(events[v]) = 0 /\ Len(proofs[v]) = 0
        /\ visits[v] # None => Len(proofs[v]) = Len(events[v]) + 1
        /\ visits[v] # None /\ visits[v].status = PendingHost => Len(events[v]) = 0
    BY DEF BoundedInv
  <2>2. CASE v # q.visit
    BY <1>1, <2>1, <2>2, CommitArrives, EvidenceAdded
  <2>3. CASE v = q.visit /\ q.cmd.op = "check_in"
    <3>1. visits[v] = None /\ visits'[v] # None
      BY <1>1, <2>3, CommitArrives
    <3>2. Len(events'[v]) = Len(events[v]) /\ Len(proofs'[v]) = Len(proofs[v]) + 1
      BY <1>1, <2>3, EvidenceAdded
    <3> QED BY <1>2, <2>1, <3>1, <3>2
  <2>4. CASE v = q.visit /\ q.cmd.op # "check_in"
    <3>1. /\ visits[v] # None /\ visits'[v] # None
          /\ visits'[v].status \in {CopresenceOk, Completed}
      BY <1>1, <2>4, CommitArrives
    <3>2. visits'[v].status # PendingHost
      BY <3>1 DEF PendingHost, CopresenceOk, Completed
    <3>3. CASE q.cmd.op = "confirm_host"
      <4>1. /\ Len(events'[v]) = Len(events[v]) + 1
            /\ Len(proofs'[v]) = Len(proofs[v]) + 1
        BY <1>1, <2>4, <3>3, EvidenceAdded
      <4>2. Len(events[v]) <= Cardinality(ConfirmedKeys(v))
        BY <1>1, <2>4, <3>3, CommitEnds DEF BoundedInv, ArrivalInv
      <4>3. Cardinality(ConfirmedKeys(v)') = Cardinality(ConfirmedKeys(v)) + 1
        BY <1>1, <2>4, <3>3, KeyAdded
      <4>4. Len(events'[v]) <= Cardinality(Keys)
        BY <1>2, <4>1, <4>2, <4>3
      <4> QED BY <1>2, <2>1, <3>1, <3>2, <4>1, <4>4
    <3>4. CASE q.cmd.op # "confirm_host"
      <4>1. q.cmd.op = "check_out"
        BY <1>1, <2>4, <3>4, CommitArrives, CommandByOp
      <4>2. Len(events'[v]) = Len(events[v]) /\ Len(proofs'[v]) = Len(proofs[v])
        BY <1>1, <4>1, EvidenceAdded
      <4> QED BY <2>1, <3>1, <3>2, <4>2
    <3> QED BY <3>3, <3>4
  <2> QED BY <2>2, <2>3, <2>4
<1>4. ASSUME NEW t \in Slots, Pending(req'[t]), req'[t].cmd.op = "confirm_host"
      PROVE  Len(events'[req'[t].visit]) <= Cardinality(ConfirmedKeys(req[t].visit)')
  <2>1. t # s
    BY <1>1, <1>4, CommitEnds DEF ArrivalInv
  <2>2. req'[t] = req[t]
    BY <1>1, <2>1, OtherRequests DEF ArrivalInv
  <2> DEFINE v == req[t].visit
  <2>3. v \in Visits
    BY <1>1, <1>4, <2>2
       DEF ArrivalInv, TypeInv, RequestsWellFormed, WellFormed, HasObject, Pending
  <2>4. Len(events[v]) <= Cardinality(ConfirmedKeys(v))
    BY <1>4, <2>2 DEF BoundedInv
  <2>5. Len(events'[v]) <= Cardinality(ConfirmedKeys(v)')
    <3>1. PICK w \in Visits : w = v
      BY <2>3
    <3>2. Len(events'[w]) = IF w = q.visit /\ q.cmd.op = "confirm_host"
                            THEN Len(events[w]) + 1 ELSE Len(events[w])
      BY <1>1, EvidenceAdded
    <3>3. Cardinality(ConfirmedKeys(w)') =
              IF w = q.visit /\ q.cmd.op = "confirm_host"
              THEN Cardinality(ConfirmedKeys(w)) + 1 ELSE Cardinality(ConfirmedKeys(w))
      BY <1>1, KeyAdded
    <3>4. Len(events'[w]) <= Cardinality(ConfirmedKeys(w)')
      BY <1>2, <2>4, <3>1, <3>2, <3>3
    <3>5. ConfirmedKeys(req[t].visit)' = ConfirmedKeys(w)'
      BY <2>2, <3>1 DEF ConfirmedKeys, ConfirmationsOf
    <3> QED BY <2>2, <3>1, <3>4, <3>5
  <2> QED BY <2>2, <2>5
<1> QED BY <1>1, <1>3, <1>4 DEF BoundedInv

\* However often records are purged and requests replayed, a visit never has
\* more events than clients have keys, nor more proofs than one more: no
\* purged confirmation is confirmed again (MarkCopresenceVerdict).
THEOREM EvidenceIsBounded ==
    ASSUME IsFiniteSet(Keys)
    PROVE  Spec => []EffectsBoundedByKeys
<1>1. Init => BoundedInv
  <2> SUFFICES ASSUME Init PROVE BoundedInv
    OBVIOUS
  <2>1. Len(<<>>) = 0 /\ Cardinality(Keys) \in Nat
    BY FS_CardinalityType
  <2>2. \A v \in Visits :
            visits[v] = None /\ Len(events[v]) = 0 /\ Len(proofs[v]) = 0
    BY <2>1 DEF Init
  <2>3. \A s \in Slots : ~Pending(req[s])
    BY DEF Init, Pending, Idle
  <2> QED BY <2>1, <2>2, <2>3, ArrivalInit DEF BoundedInv
<1>2. BoundedInv /\ [Next]_vars => BoundedInv'
  <2> SUFFICES ASSUME BoundedInv, [Next]_vars PROVE BoundedInv'
    OBVIOUS
  <2>1. ArrivalInv /\ ArrivalInv'
    BY ArrivalStep DEF BoundedInv
  <2>2. CASE \E s \in Slots : Commit(s)
    BY <2>2, BoundedCommit
  <2>3. CASE Restart
    <3>1. \A t \in Slots : ~Pending(req'[t])
      BY <2>3 DEF Restart, Pending, Idle
    <3>2. UNCHANGED <<visits, events, proofs>>
      BY <2>3 DEF Restart
    <3> QED BY <2>1, <3>1, <3>2 DEF BoundedInv
  <2>4. CASE UNCHANGED <<visits, proofs, events, usedJti, idem>> /\ ~\E s \in Slots : Commit(s)
    <3>1. ASSUME NEW t \in Slots, Pending(req'[t]), req'[t].cmd.op = "confirm_host"
          PROVE  Len(events'[req'[t].visit]) <= Cardinality(ConfirmedKeys(req[t].visit)')
      <4>1. CASE \/ Pending(req[t]) /\ SameRequest(req[t], req'[t])
                 \/ Save(t)
        <5>1. /\ Pending(req[t]) /\ req'[t].visit = req[t].visit
              /\ req[t].cmd.op = "confirm_host"
          BY <2>1, <3>1, <4>1, SaveStep DEF ArrivalInv, SameRequest
        <5>2. Len(events[req[t].visit]) <= Cardinality(ConfirmedKeys(req[t].visit))
          BY <5>1 DEF BoundedInv
        <5>3. ConfirmedKeys(req[t].visit)' = ConfirmedKeys(req[t].visit)
          BY <2>4, <5>1 DEF ConfirmedKeys, ConfirmationsOf
        <5> QED BY <2>4, <5>1, <5>2, <5>3
      <4>2. CASE LoadConfirmHost(t)
        <5> DEFINE v == req[t].cmd.visit
        <5>1. /\ req'[t].visit = v /\ v \in Visits /\ visits[v] # None
              /\ ConfirmHostVerdict(req[t].cmd, visits[v], missions[req[t].cmd.mission]) = "OK"
          BY <2>1, <3>1, <4>2, ConfirmationAccepted, NoneAssumption
             DEF ConfirmHostCommand
        <5>2. visits[v].status = PendingHost
          BY <5>1 DEF ConfirmHostVerdict, MarkCopresenceVerdict
        <5>3. Len(events'[req'[t].visit]) = 0
          BY <2>4, <5>1, <5>2 DEF BoundedInv
        <5>4. Cardinality(ConfirmedKeys(req[t].visit)') \in Nat
          <6>1. ConfirmedKeys(req[t].visit)' \in SUBSET Keys
            BY DEF ConfirmedKeys
          <6> QED BY <6>1, FS_Subset, FS_CardinalityType
        <5> QED BY <5>3, <5>4
      <4>3. ~LoadCheckIn(t) /\ ~LoadCheckOut(t)
        BY <2>1, <3>1, CheckInAccepted, CheckOutAccepted
           DEF CheckInCommand, CheckOutCommand
      <4> QED BY <2>1, <3>1, <4>1, <4>2, <4>3, PendingStep DEF ArrivalInv
    <3> QED BY <2>1, <2>4, <3>1 DEF BoundedInv
  <2> QED BY <2>2, <2>3, <2>4, OnlyCommitRecords
<1>3. BoundedInv => EffectsBoundedByKeys
  <2> SUFFICES ASSUME BoundedInv, NEW v \in Visits
               PROVE  /\ Len(events[v]) <= Cardinality(Keys)
                      /\ Len(proofs[v]) <= Cardinality(Keys) + 1
    BY DEF EffectsBoundedByKeys
  <2>1. events[v] \in Seq(CoPresenceEvent) /\ Cardinality(Keys) \in Nat
    BY FS_CardinalityType DEF BoundedInv, ArrivalInv, TypeInv, TypeOK
  <2>2. Len(events[v]) \in Nat
    BY <2>1
  <2>3. /\ Len(events[v]) <= Cardinality(Keys)
        /\ Len(proofs[v]) \in {0, Len(events[v]) + 1}
    BY DEF BoundedInv
  <2> QED BY <2>1, <2>2, <2>3
<1> QED BY <1>1, <1>2, <1>3, PTL DEF Spec

-----------------------------------------------------------------------------
(* Tokens.  Those that a mission spent are at most the events of its only    *)
(* visit, and as many when every confirmation of the host carries a token: the *)
(* others, by the mission's static code, leave an event and spend nothing.    *)

TokensOnly == \A c \in Commands : c.op = "confirm_host" => c.jti # None

SpentOn(m) == {j \in Jtis : usedJti[j] = m}

Accounted(spent, recorded) ==
    /\ Cardinality(spent) <= Len(recorded)
    /\ TokensOnly => Cardinality(spent) = Len(recorded)

TokensInv ==
    /\ ArrivalInv
    /\ OneVisitPerMission
    /\ \A v \in Visits : visits[v] = None => events[v] = <<>>
    /\ \A v \in Visits : visits[v] # None =>
          /\ \A i \in DOMAIN events[v] : events[v][i].mode = visits[v].mode
          /\ IF visits[v].mode = "qr_static"
             THEN Accounted(SpentOn(visits[v].mission), events[v])
             ELSE SpentOn(visits[v].mission) = {}
    /\ \A m \in Missions : VisitsOf(m) = {} => SpentOn(m) = {}

\* The tokens a commit spends: its own if it confirms by QR, which was unspent.
LEMMA TokenSpent ==
    ASSUME ArrivalInv, NEW s \in Slots, Commit(s), NEW m \in Missions
    PROVE  LET q == req[s]
           IN  IF q.cmd.op = "confirm_host" /\ q.object.mode = "qr_static"
                  /\ q.cmd.jti # None /\ m = q.cmd.mission
               THEN /\ SpentOn(m)' = SpentOn(m) \cup {q.cmd.jti}
                    /\ q.cmd.jti \notin SpentOn(m)
               ELSE SpentOn(m)' = SpentOn(m)
<1> DEFINE q == req[s]
<1>1. /\ q.cmd \in Commands
      /\ usedJti' = [j \in Jtis |-> IF j \in ConsumedJtis(q) THEN q.cmd.mission
                                                            ELSE usedJti[j]]
      /\ \A j \in ConsumedJtis(q) : usedJti[j] = None
      /\ usedJti \in [Jtis -> Missions \cup {None}] /\ m # None
  <2>1. q.cmd \in Commands
    BY CommitArrives
  <2>2. usedJti \in [Jtis -> Missions \cup {None}] /\ m # None
    BY NoneAssumption DEF ArrivalInv, TypeInv, TypeOK
  <2>3. \A j \in ConsumedJtis(q) : usedJti[j] = None
    BY DEF Commit, IntegrityError, JtiTaken
  <2> QED BY <2>1, <2>2, <2>3 DEF Commit
<1>2. CASE q.cmd.op = "confirm_host" /\ q.object.mode = "qr_static" /\ q.cmd.jti # None
  <2>1. ConsumedJtis(q) = {q.cmd.jti} /\ q.cmd.jti \in Jtis
    BY <1>1, <1>2, CommandByOp DEF ConsumedJtis, ConfirmHostCommand
  <2>2. CASE m = q.cmd.mission
    BY <1>1, <1>2, <2>1, <2>2 DEF SpentOn
  <2>3. CASE m # q.cmd.mission
    BY <1>1, <1>2, <2>1, <2>3 DEF SpentOn
  <2> QED BY <1>2, <2>2, <2>3
<1>3. CASE ~(q.cmd.op = "confirm_host" /\ q.object.mode = "qr_static" /\ q.cmd.jti # None)
  <2>1. ConsumedJtis(q) = {}
    BY <1>3 DEF ConsumedJtis
  <2> QED BY <1>1, <1>3, <2>1 DEF SpentOn
<1> QED BY <1>2, <1>3

LEMMA TokensCommit ==
    ASSUME TokensInv, IsFiniteSet(Jtis), NEW s \in Slots, Commit(s)
    PROVE  TokensInv'
<1> DEFINE q == req[s]
           event == [validatedAt |-> q.at, mode |-> q.object.mode]
<1>1. ArrivalInv /\ OneVisitPerMission /\ ArrivalInv' /\ OneVisitPerMission'
  BY ArrivalStep, OneVisitStep DEF TokensInv, ArrivalInv, Next
<1>2. /\ q.visit \in Visits /\ q.cmd \in Commands /\ q.object \in SiteVisit
      /\ q.cmd.op \in {"check_in", "confirm_host", "check_out"}
      /\ \A v \in Visits : v # q.visit => visits'[v] = visits[v]
      /\ visits'[q.visit] \in SiteVisit /\ visits'[q.visit] # None
  BY <1>1, CommitArrives, CommandByOp
<1>3. \A m \in Missions : IsFiniteSet(SpentOn(m))
  <2>1. \A m : SpentOn(m) \in SUBSET Jtis
    BY DEF SpentOn
  <2> QED BY <2>1, FS_Subset
<1>4. ASSUME NEW v \in Visits
      PROVE  /\ events[v] \in Seq(CoPresenceEvent)
             /\ events'[v] = IF v = q.visit /\ q.cmd.op = "confirm_host"
                             THEN Append(events[v], event) ELSE events[v]
  BY <1>1, EvidenceAdded
<1>5. \A v \in Visits : visits[v] # None =>
         visits[v] \in SiteVisit /\ visits[v].mission \in Missions
  BY <1>1 DEF ArrivalInv, TypeInv, TypeOK, SiteVisit
<1>6. CASE q.cmd.op = "check_in"
  <2> DEFINE mine == q.object.mission
  <2>1. /\ visits[q.visit] = None /\ visits'[q.visit] = q.object /\ mine \in Missions
        /\ events[q.visit] = <<>>
    BY <1>1, <1>2, <1>6, CommitArrives DEF SiteVisit, TokensInv
  <2>2. VisitsOf(mine) = {}
    <3>1. q.base = None
      BY <1>1, <1>6, CommitArrives DEF Knows, CheckInKnows
    <3> QED BY <1>1, <3>1, CommittedRow DEF ArrivalInv
  <2>3. SpentOn(mine) = {}
    BY <2>1, <2>2 DEF TokensInv
  <2>4. \A m \in Missions : SpentOn(m)' = SpentOn(m)
    BY <1>1, <1>6, TokenSpent
  <2>5. \A v \in Visits : events'[v] = events[v]
    BY <1>4, <1>6
  <2>6. Accounted({}, <<>>) /\ DOMAIN <<>> = {}
    <3>1. Len(<<>>) = 0 /\ Cardinality({}) = 0 /\ DOMAIN <<>> = {}
      BY FS_EmptySet
    <3> QED BY <3>1 DEF Accounted
  <2>7. ASSUME NEW v \in Visits, visits'[v] # None
        PROVE  /\ \A i \in DOMAIN events'[v] : events'[v][i].mode = visits'[v].mode
               /\ IF visits'[v].mode = "qr_static"
                  THEN Accounted(SpentOn(visits[v].mission)', events'[v])
                  ELSE SpentOn(visits[v].mission)' = {}
    <3>1. CASE v = q.visit
      <4>1. visits'[v].mission = mine /\ SpentOn(visits[v].mission)' = {}
        BY <2>1, <2>3, <2>4, <3>1 DEF SpentOn
      <4> QED BY <2>1, <2>5, <2>6, <3>1, <4>1
    <3>2. CASE v # q.visit
      <4>1. visits'[v] = visits[v] /\ visits[v] # None
        BY <1>2, <2>7, <3>2
      <4>2. SpentOn(visits[v].mission)' = SpentOn(visits[v].mission)
        BY <1>5, <2>4, <4>1 DEF SpentOn
      <4> QED BY <2>5, <4>1, <4>2 DEF TokensInv
    <3> QED BY <3>1, <3>2
  <2>8. \A v \in Visits : visits'[v] = None => events'[v] = <<>>
    BY <1>2, <2>5 DEF TokensInv
  <2>9. \A m \in Missions : VisitsOf(m)' = {} => SpentOn(m)' = {}
    <3>1. \A m \in Missions : VisitsOf(m)' = {} => VisitsOf(m) = {}
      BY <1>2, <2>1 DEF VisitsOf
    <3> QED BY <2>4, <3>1 DEF TokensInv
  <2> QED BY <1>1, <2>7, <2>8, <2>9 DEF TokensInv
<1>7. CASE q.cmd.op # "check_in"
  <2>1. /\ visits[q.visit] # None /\ SameArrival(visits'[q.visit], visits[q.visit])
        /\ SameArrival(q.object, visits[q.visit])
        /\ visits[q.visit].mission = q.cmd.mission
        /\ q.cmd.mission \in Missions
    BY <1>1, <1>2, <1>5, <1>7, CommitArrives DEF Knows, FollowUpKnows
  <2>2. PICK mine \in Missions : mine = q.cmd.mission
    BY <2>1
  <2>3. \A v \in Visits :
           /\ visits'[v] = None <=> visits[v] = None
           /\ visits[v] # None => SameArrival(visits'[v], visits[v])
    BY <1>2, <2>1 DEF SameArrival
  <2>4. \A v \in Visits : v # q.visit /\ visits[v] # None => visits[v].mission # mine
    BY <1>1, <1>2, <2>1, <2>2 DEF OneVisitPerMission
  <2>5. \A m \in Missions \ {mine} : SpentOn(m)' = SpentOn(m)
    BY <1>1, <2>2, TokenSpent
  <2>6. ASSUME NEW v \in Visits, visits'[v] # None
        PROVE  /\ \A i \in DOMAIN events'[v] : events'[v][i].mode = visits'[v].mode
               /\ IF visits'[v].mode = "qr_static"
                  THEN Accounted(SpentOn(visits[v].mission)', events'[v])
                  ELSE SpentOn(visits[v].mission)' = {}
    <3>1. /\ visits[v] # None /\ visits'[v].mode = visits[v].mode
          /\ visits'[v].mission = visits[v].mission
          /\ \A i \in DOMAIN events[v] : events[v][i].mode = visits[v].mode
          /\ IF visits[v].mode = "qr_static"
             THEN Accounted(SpentOn(visits[v].mission), events[v])
             ELSE SpentOn(visits[v].mission) = {}
      BY <2>3, <2>6 DEF SameArrival, TokensInv
    <3>2. CASE v # q.visit
      <4>1. events'[v] = events[v]
        BY <1>4, <3>2
      <4>2. SpentOn(visits[v].mission)' = SpentOn(visits[v].mission)
        BY <1>5, <2>4, <2>5, <3>1, <3>2 DEF SpentOn
      <4> QED BY <3>1, <4>1, <4>2
    <3>3. CASE v = q.visit /\ q.cmd.op = "confirm_host"
      <4>1. events'[v] = Append(events[v], event) /\ events[v] \in Seq(CoPresenceEvent)
        BY <1>4, <3>3
      <4>2. event.mode = visits[v].mode /\ visits[v].mission = mine
        BY <2>1, <2>2, <3>3 DEF SameArrival
      <4>3. \A i \in DOMAIN events'[v] : events'[v][i].mode = visits'[v].mode
        <5>1. TAKE i \in DOMAIN events'[v]
        <5>2. events'[v][i] = event \/ (i \in DOMAIN events[v] /\ events'[v][i] = events[v][i])
          BY <4>1
        <5> QED BY <3>1, <4>2, <5>2
      <4>4. Len(events'[v]) = Len(events[v]) + 1
        BY <4>1
      <4>5. SpentOn(visits[v].mission)' = SpentOn(mine)'
        BY <3>1, <4>2 DEF SpentOn
      <4>6. CASE visits[v].mode = "qr_static"
        <5>1. /\ Accounted(SpentOn(mine), events[v])
              /\ Len(events[v]) \in Nat /\ Cardinality(SpentOn(mine)) \in Nat
          BY <1>3, <2>2, <3>1, <4>1, <4>2, <4>6, FS_CardinalityType
        <5>2. CASE q.cmd.jti # None
          <6>1. /\ SpentOn(mine)' = SpentOn(mine) \cup {q.cmd.jti}
                /\ q.cmd.jti \notin SpentOn(mine)
            BY <1>1, <2>2, <3>3, <4>2, <4>6, <5>2, TokenSpent
          <6>2. Cardinality(SpentOn(mine)') = Cardinality(SpentOn(mine)) + 1
            BY <1>3, <2>2, <6>1, FS_AddElement
          <6>3. Accounted(SpentOn(mine)', events'[v])
            BY <4>4, <5>1, <6>2 DEF Accounted
          <6> QED BY <3>1, <4>3, <4>5, <4>6, <6>3
        <5>3. CASE q.cmd.jti = None
          <6>1. SpentOn(mine)' = SpentOn(mine)
            BY <1>1, <2>2, <5>3, TokenSpent
          <6>2. ~TokensOnly
            BY <1>2, <3>3, <5>3 DEF TokensOnly
          <6>3. Accounted(SpentOn(mine)', events'[v])
            BY <4>4, <5>1, <6>1, <6>2 DEF Accounted
          <6> QED BY <3>1, <4>3, <4>5, <4>6, <6>3
        <5> QED BY <5>2, <5>3
      <4>7. CASE visits[v].mode # "qr_static"
        <5>1. SpentOn(mine)' = SpentOn(mine)
          BY <1>1, <2>2, <3>3, <4>2, <4>7, TokenSpent
        <5> QED BY <3>1, <4>2, <4>3, <4>5, <4>7, <5>1
      <4> QED BY <4>6, <4>7
    <3>4. CASE v = q.visit /\ q.cmd.op # "confirm_host"
      <4>1. events'[v] = events[v]
        BY <1>4, <3>4
      <4>2. SpentOn(mine)' = SpentOn(mine)
        BY <1>1, <2>2, <3>4, TokenSpent
      <4>3. SpentOn(visits[v].mission)' = SpentOn(visits[v].mission)
        BY <2>1, <2>2, <3>1, <3>4, <4>2 DEF SpentOn
      <4> QED BY <3>1, <4>1, <4>3
    <3> QED BY <3>2, <3>3, <3>4
  <2>7. \A v \in Visits : visits'[v] = None => events'[v] = <<>>
    BY <1>2, <1>4 DEF TokensInv
  <2>8. \A m \in Missions : VisitsOf(m)' = {} => SpentOn(m)' = {}
    <3>1. \A m \in Missions : VisitsOf(m)' = VisitsOf(m)
      BY <2>3 DEF VisitsOf, SameArrival
    <3>2. VisitsOf(mine) # {}
      BY <1>2, <2>1, <2>2 DEF VisitsOf
    <3> QED BY <2>5, <3>1, <3>2 DEF TokensInv
  <2> QED BY <1>1, <2>6, <2>7, <2>8 DEF TokensInv
<1> QED BY <1>6, <1>7

LEMMA Tokens == IsFiniteSet(Jtis) => (Spec => []TokensInv)
<1> SUFFICES ASSUME IsFiniteSet(Jtis) PROVE Spec => []TokensInv
  OBVIOUS
<1>1. Init => TokensInv
  <2> SUFFICES ASSUME Init PROVE TokensInv
    OBVIOUS
  <2>1. \A m \in Missions : SpentOn(m) = {}
    BY NoneAssumption DEF Init, SpentOn
  <2>2. ArrivalInv /\ OneVisitPerMission
    BY ArrivalInit DEF Init, OneVisitPerMission
  <2> QED BY <2>1, <2>2 DEF Init, TokensInv
<1>2. TokensInv /\ [Next]_vars => TokensInv'
  <2> SUFFICES ASSUME TokensInv, [Next]_vars PROVE TokensInv'
    OBVIOUS
  <2>1. ArrivalInv' /\ OneVisitPerMission'
    BY ArrivalStep, OneVisitStep DEF TokensInv, ArrivalInv
  <2>2. CASE \E s \in Slots : Commit(s)
    BY <2>2, TokensCommit
  <2>3. CASE UNCHANGED <<visits, proofs, events, usedJti>>
    BY <2>1, <2>3 DEF TokensInv, SpentOn, VisitsOf
  <2> QED BY <2>2, <2>3, OnlyCommitWrites
<1> QED BY <1>1, <1>2, PTL DEF Spec

\* The tokens a mission spent are backed by the events of its visit.
SpentTokensLeaveEvents ==
    \A m \in Missions : SpentOn(m) # {} =>
        \E v \in VisitsOf(m) :
            /\ \A i \in DOMAIN events[v] : events[v][i].mode = "qr_static"
            /\ Cardinality(SpentOn(m)) <= Len(events[v])

\* No token is spent for nothing, whether confirmations carry tokens, the static
\* code of the mission, or either: a mission whose visit is confirmed by GPS or
\* by SMS spends none, and another never more than it has QR events
\* (confirm_host_presence.py, used_qr_jti.consume).
THEOREM NoTokenIsWasted ==
    ASSUME IsFiniteSet(Jtis)
    PROVE  Spec => []SpentTokensLeaveEvents
<1>1. TokensInv => SpentTokensLeaveEvents
  <2> SUFFICES ASSUME TokensInv, NEW m \in Missions, SpentOn(m) # {}
               PROVE  \E v \in VisitsOf(m) :
                         /\ \A i \in DOMAIN events[v] : events[v][i].mode = "qr_static"
                         /\ Cardinality(SpentOn(m)) <= Len(events[v])
    BY DEF SpentTokensLeaveEvents
  <2>1. PICK v \in VisitsOf(m) : v \in Visits /\ visits[v] # None /\ visits[v].mission = m
    BY DEF TokensInv, VisitsOf
  <2>2. visits[v].mode = "qr_static" /\ Accounted(SpentOn(m), events[v])
    BY <2>1 DEF TokensInv
  <2>3. \A i \in DOMAIN events[v] : events[v][i].mode = "qr_static"
    BY <2>1, <2>2 DEF TokensInv
  <2> QED BY <2>1, <2>2, <2>3 DEF Accounted
<1> QED BY <1>1, Tokens, PTL

\* A token is spent by exactly one committed confirmation, and a confirmation
\* that failed leaves its token unspent: a mission has spent as many tokens as
\* its visit has QR events, provided every confirmation carries a token
\* (used_qr_jti.consume, verify_host_qr_jwt).
THEOREM TokensAreSpentOnce ==
    ASSUME IsFiniteSet(Jtis), TokensOnly
    PROVE  Spec => []TokensMatchEvents
<1>1. TokensInv => TokensMatchEvents
  <2> SUFFICES ASSUME TokensInv, NEW m \in Missions
               PROVE  Cardinality(SpentOn(m)) =
                      Cardinality({x \in Visits \X (1 .. Cardinality(Jtis)) :
                          /\ x[1] \in VisitsOf(m)
                          /\ x[2] \in DOMAIN events[x[1]]
                          /\ events[x[1]][x[2]].mode = "qr_static"})
    BY DEF TokensMatchEvents, SpentOn
  <2> DEFINE N == 1 .. Cardinality(Jtis)
             E == {x \in Visits \X N : /\ x[1] \in VisitsOf(m)
                                       /\ x[2] \in DOMAIN events[x[1]]
                                       /\ events[x[1]][x[2]].mode = "qr_static"}
  <2> SUFFICES Cardinality(SpentOn(m)) = Cardinality(E)
    OBVIOUS
  <2>1. CASE VisitsOf(m) = {}
    <3>1. SpentOn(m) = {} /\ E = {}
      BY <2>1 DEF TokensInv
    <3> HIDE DEF E
    <3> QED BY <3>1
  <2>2. CASE VisitsOf(m) # {}
    <3>1. PICK v \in Visits : v \in VisitsOf(m)
      BY <2>2 DEF VisitsOf
    <3>2. /\ visits[v] # None /\ visits[v].mission = m
          /\ \A w \in VisitsOf(m) : w = v
      BY <3>1 DEF VisitsOf, TokensInv, OneVisitPerMission
    <3>3. /\ \A i \in DOMAIN events[v] : events[v][i].mode = visits[v].mode
          /\ IF visits[v].mode = "qr_static"
             THEN Len(events[v]) = Cardinality(SpentOn(m)) ELSE SpentOn(m) = {}
          /\ events[v] \in Seq(CoPresenceEvent)
      BY <3>2 DEF TokensInv, Accounted, ArrivalInv, TypeInv, TypeOK
    <3>4. CASE visits[v].mode # "qr_static"
      <4>1. E = {} /\ SpentOn(m) = {}
        BY <3>2, <3>3, <3>4
      <4> HIDE DEF E
      <4> QED BY <4>1
    <3>5. CASE visits[v].mode = "qr_static"
      <4> DEFINE n == Len(events[v])
      <4>1. /\ n \in Nat /\ Cardinality(Jtis) \in Nat /\ n <= Cardinality(Jtis)
            /\ DOMAIN events[v] = 1 .. n
        <5>1. SpentOn(m) \in SUBSET Jtis
          BY DEF SpentOn
        <5> QED BY <3>3, <3>5, <5>1, FS_Subset, FS_CardinalityType
      <4>2. E = {v} \X (1 .. n)
        <5>1. ASSUME NEW x \in E PROVE x \in {v} \X (1 .. n)
          BY <3>2, <4>1, <5>1
        <5>2. ASSUME NEW x \in {v} \X (1 .. n) PROVE x \in E
          <6>1. x[1] = v /\ x[2] \in 1 .. n /\ x[2] \in N /\ x \in Visits \X N
            BY <4>1, <5>2
          <6> QED BY <3>1, <3>3, <3>5, <4>1, <6>1
        <5> HIDE DEF E
        <5> QED BY <5>1, <5>2
      <4> HIDE DEF n, E
      <4>3. /\ IsFiniteSet(1 .. n) /\ Cardinality(1 .. n) = n
            /\ IsFiniteSet({v}) /\ Cardinality({v}) = 1
        <5>1. IsFiniteSet(1 .. n) /\ Cardinality(1 .. n) = IF 1 > n THEN 0 ELSE n - 1 + 1
          <6>1. 1 \in Int /\ n \in Int
            BY <4>1
          <6> QED BY <6>1, FS_Interval
        <5>2. IsFiniteSet({v}) /\ Cardinality({v}) = 1
          BY FS_Singleton
        <5> QED BY <4>1, <5>1, <5>2
      <4>4. Cardinality({v} \X (1 .. n)) = 1 * n
        <5>1. Cardinality({v} \X (1 .. n)) = Cardinality({v}) * Cardinality(1 .. n)
          BY <4>3, FS_Product, Zenon
        <5> QED BY <4>3, <5>1
      <4>5. Cardinality(E) = n
        BY <4>1, <4>2, <4>4
      <4> QED BY <3>3, <3>5, <4>5 DEF n
    <3> QED BY <3>4, <3>5
  <2> QED BY <2>1, <2>2
<1> QED BY <1>1, Tokens, PTL

-----------------------------------------------------------------------------
(* Timely evidence.  EvidenceIsTimely is about rows and events; it lasts   *)
(* because the object of every pending request is timely too, whatever its *)
(* request has waited since its checks.                                    *)

\* The windows of the missions stay what they are.
WindowsKept ==
    \A m \in Missions : /\ missions'[m].windowStart = missions[m].windowStart
                        /\ missions'[m].windowEnd = missions[m].windowEnd

Near(row) ==
    row.mode = "app_gps" /\ row.hostPos # None =>
        Haversine(row.inspectorPos, row.hostPos) <= MaxDistance

OnTime(row, at) ==
    IF row.mode = "app_gps" THEN at - row.checkedInAt <= MaxDelay
    ELSE InWindow(at, missions[row.mission])

TimelyRow(row) == InWindow(row.checkedInAt, missions[row.mission]) /\ Near(row)

TimelyInv ==
    /\ ArrivalInv
    /\ \A v \in Visits : visits[v] = None => events[v] = <<>>
    /\ \A v \in Visits : visits[v] # None =>
          /\ TimelyRow(visits[v])
          /\ \A i \in DOMAIN events[v] : OnTime(visits[v], events[v][i].validatedAt)
    /\ \A s \in Slots : Pending(req[s]) =>
          /\ TimelyRow(req[s].object)
          /\ req[s].cmd.op = "confirm_host" => OnTime(req[s].object, req[s].at)

\* Only the arrival and the host's position decide whether a row is timely.
LEMMA SameTime ==
    ASSUME NEW a \in SiteVisit, NEW b \in SiteVisit, SameArrival(a, b)
    PROVE  /\ TimelyRow(b) /\ a.hostPos = b.hostPos => TimelyRow(a)
           /\ TimelyRow(b) /\ Near(a) => TimelyRow(a)
           /\ \A at : OnTime(b, at) => OnTime(a, at)
BY DEF SameArrival, TimelyRow, Near, OnTime

\* While the windows stay, what was timely stays so.
LEMMA WindowsDecide ==
    ASSUME WindowsKept, NEW row \in SiteVisit
    PROVE  /\ TimelyRow(row) => InWindow(row.checkedInAt, missions'[row.mission])
           /\ \A at : OnTime(row, at) =>
                 IF row.mode = "app_gps" THEN at - row.checkedInAt <= MaxDelay
                 ELSE InWindow(at, missions'[row.mission])
<1>1. row.mission \in Missions
  BY DEF SiteVisit
<1> QED BY <1>1 DEF WindowsKept, TimelyRow, OnTime, InWindow

\* What a request that passes its checks will write is timely.
LEMMA AcceptedTimely ==
    ASSUME TimelyInv, NEW t \in Slots, Pending(req'[t]),
           LoadCheckIn(t) \/ LoadConfirmHost(t) \/ LoadCheckOut(t)
    PROVE  /\ TimelyRow(req'[t].object)
           /\ req'[t].cmd.op = "confirm_host" => OnTime(req'[t].object, req'[t].at)
<1> DEFINE q == req'[t]
           c == req[t].cmd
           visit == visits[c.visit]
           m == missions[c.mission]
<1>1. ArrivalInv /\ now \in Time
  BY DEF TimelyInv, ArrivalInv, TypeInv, TypeOK
<1>2. CASE LoadCheckIn(t)
  <2>1. /\ c \in CheckInCommand /\ CheckInVerdict(c, m) = "OK" /\ q.cmd = c
        /\ q.object = StartCheckIn(NewVisit(c.mission), now, c.mode, c.pos)
    BY <1>1, <1>2, CheckInAccepted
  <2>2. /\ c.mission \in Missions /\ c.mode \in HostValidationMode
        /\ c.pos \in Positions /\ c.op = "check_in"
    BY <2>1 DEF CheckInCommand
  <2>3. /\ q.object.mission = c.mission /\ q.object.checkedInAt = now
        /\ q.object.hostPos = None
    BY <1>1, <2>1, <2>2, StartCheckInFields
  <2>4. InWindow(now, m)
    BY <2>1 DEF CheckInVerdict
  <2> QED BY <2>1, <2>2, <2>3, <2>4 DEF TimelyRow, Near
<1>3. CASE LoadConfirmHost(t)
  <2>1. /\ c \in ConfirmHostCommand /\ visit \in SiteVisit /\ q.cmd = c /\ q.at = now
        /\ ConfirmHostVerdict(c, visit, m) = "OK"
        /\ q.object = MarkCopresenceOk(visit, c.pos)
    BY <1>1, <1>3, ConfirmationAccepted
  <2>2. visit.mission = c.mission /\ EvidenceVerdict(c, visit, m) = "OK"
    BY <2>1 DEF ConfirmHostVerdict
  <2>3. TimelyRow(visit) /\ c.visit \in Visits
    BY <2>1, NoneAssumption DEF TimelyInv, ConfirmHostCommand
  <2>4. /\ SameArrival(q.object, visit) /\ q.object \in SiteVisit
        /\ visit.mode = "app_gps" => q.object.hostPos = c.pos
    BY <2>1, MarkCopresenceOkFields, MarkCopresenceOkType DEF ConfirmHostCommand
  <2>5. CASE visit.mode = "app_gps"
    <3>1. CopresenceModeA(visit.checkedInAt, now, Haversine(visit.inspectorPos, c.pos)) = "OK"
      BY <2>2, <2>5 DEF EvidenceVerdict
    <3>2. /\ now - visit.checkedInAt <= MaxDelay
          /\ Haversine(visit.inspectorPos, c.pos) <= MaxDistance
      <4>1. /\ now \in Int /\ visit.checkedInAt \in Int
            /\ visit.inspectorPos \in Int /\ c.pos \in Int
        BY <1>1, <2>1, <2>2, <2>3, <2>5, NoneAssumption, ConstantsAssumption
           DEF ArrivalInv, Arrived, Time, ConfirmHostCommand, EvidenceVerdict
      <4>2. now - visit.checkedInAt \in Int /\ Haversine(visit.inspectorPos, c.pos) \in Int
        BY <4>1 DEF Haversine
      <4> QED BY <3>1, <4>2, RadiiAssumption DEF CopresenceModeA
    <3>3. Near(q.object) /\ OnTime(visit, now)
      BY <2>4, <2>5, <3>2 DEF Near, OnTime, SameArrival
    <3> QED BY <2>1, <2>3, <2>4, <3>3, SameTime
  <2>6. CASE visit.mode # "app_gps"
    <3>1. InWindow(now, m)
      BY <2>2, <2>6 DEF EvidenceVerdict, QrJwtVerdict, QrTokenValid, SmsCodeValid
    <3>2. Near(q.object) /\ OnTime(visit, now)
      BY <2>2, <2>4, <2>6, <3>1 DEF Near, OnTime, SameArrival
    <3> QED BY <2>1, <2>3, <2>4, <3>2, SameTime
  <2> QED BY <2>5, <2>6
<1>4. CASE LoadCheckOut(t)
  <2>1. /\ c \in CheckOutCommand /\ visit \in SiteVisit /\ q.cmd = c
        /\ q.object = CheckOut(visit, now)
    BY <1>1, <1>4, CheckOutAccepted
  <2>2. TimelyRow(visit) /\ c.op = "check_out"
    BY <2>1, NoneAssumption DEF TimelyInv, CheckOutCommand
  <2>3. /\ SameArrival(q.object, visit) /\ q.object \in SiteVisit
        /\ q.object.hostPos = visit.hostPos
    BY <1>1, <2>1, CheckOutFields, CheckOutType
  <2> QED BY <2>1, <2>2, <2>3, SameTime
<1> QED BY <1>2, <1>3, <1>4

\* A commit writes a timely row, and an event on time if any.
LEMMA TimelyCommit ==
    ASSUME TimelyInv, NEW s \in Slots, Commit(s), NEW v \in Visits
    PROVE  /\ visits'[v] = None => events'[v] = <<>>
           /\ visits'[v] # None =>
                 /\ visits'[v] \in SiteVisit
                 /\ TimelyRow(visits'[v])
                 /\ \A i \in DOMAIN events'[v] :
                       OnTime(visits'[v], events'[v][i].validatedAt)
<1> DEFINE q == req[s]
           event == [validatedAt |-> q.at, mode |-> q.object.mode]
<1>1. /\ ArrivalInv /\ q.object \in SiteVisit /\ Pending(q) /\ Knows(q)
      /\ \A w \in Visits : w # q.visit => visits'[w] = visits[w]
      /\ visits'[q.visit] \in SiteVisit /\ visits'[q.visit] # None
  BY CommitArrives DEF TimelyInv
<1>2. /\ TimelyRow(q.object)
      /\ q.cmd.op = "confirm_host" => OnTime(q.object, q.at)
  BY <1>1 DEF TimelyInv
<1>3. /\ events[v] \in Seq(CoPresenceEvent)
      /\ events'[v] = IF v = q.visit /\ q.cmd.op = "confirm_host"
                      THEN Append(events[v], event) ELSE events[v]
  BY <1>1, EvidenceAdded
<1>4. visits[v] # None => visits[v] \in SiteVisit
  BY <1>1 DEF ArrivalInv, TypeInv, TypeOK
<1>5. CASE v # q.visit
  BY <1>1, <1>3, <1>4, <1>5 DEF TimelyInv
<1>6. CASE v = q.visit /\ q.cmd.op = "check_in"
  <2>1. visits[v] = None /\ visits'[v] = q.object
    BY <1>1, <1>6, CommitArrives
  <2>2. events'[v] = <<>>
    BY <1>3, <1>6, <2>1 DEF TimelyInv
  <2> QED BY <1>1, <1>2, <1>6, <2>1, <2>2
<1>7. CASE v = q.visit /\ q.cmd.op # "check_in"
  <2>1. /\ visits[v] # None /\ SameArrival(visits'[v], visits[v])
        /\ SameArrival(q.object, visits[v])
        /\ visits'[v].hostPos \in {visits[v].hostPos, q.object.hostPos}
    BY <1>1, <1>7, CommitArrives DEF Knows, FollowUpKnows
  <2>2. visits[v] \in SiteVisit /\ SameArrival(visits'[v], q.object)
    BY <1>4, <2>1 DEF SameArrival
  <2>3. /\ TimelyRow(visits[v])
        /\ \A i \in DOMAIN events[v] : OnTime(visits[v], events[v][i].validatedAt)
    BY <2>1 DEF TimelyInv
  <2>4. TimelyRow(visits'[v])
    BY <1>1, <1>2, <1>7, <2>1, <2>2, <2>3, SameTime
  <2>5. ASSUME NEW i \in DOMAIN events'[v]
        PROVE  OnTime(visits'[v], events'[v][i].validatedAt)
    <3>1. \/ i \in DOMAIN events[v] /\ events'[v][i] = events[v][i]
          \/ q.cmd.op = "confirm_host" /\ events'[v][i] = event
      BY <1>3, <2>5
    <3>2. CASE i \in DOMAIN events[v] /\ events'[v][i] = events[v][i]
      BY <1>1, <1>7, <2>1, <2>2, <2>3, <3>2, SameTime
    <3>3. CASE q.cmd.op = "confirm_host" /\ events'[v][i] = event
      BY <1>1, <1>2, <1>7, <2>2, <3>3, SameTime
    <3> QED BY <3>1, <3>2, <3>3
  <2> QED BY <1>1, <1>7, <2>4, <2>5
<1> QED BY <1>5, <1>6, <1>7

LEMMA TimelyStep == TimelyInv /\ [Next]_vars /\ WindowsKept => TimelyInv'
<1> SUFFICES ASSUME TimelyInv, [Next]_vars, WindowsKept PROVE TimelyInv'
  OBVIOUS
<1>1. ArrivalInv /\ ArrivalInv'
  BY ArrivalStep DEF TimelyInv
<1>2. ASSUME NEW v \in Visits
      PROVE  /\ visits'[v] = None => events'[v] = <<>>
             /\ visits'[v] # None =>
                   /\ visits'[v] \in SiteVisit
                   /\ TimelyRow(visits'[v])
                   /\ \A i \in DOMAIN events'[v] :
                         OnTime(visits'[v], events'[v][i].validatedAt)
  <2>1. CASE UNCHANGED <<visits, proofs, events, usedJti>>
    BY <1>1, <2>1 DEF TimelyInv, ArrivalInv, TypeInv, TypeOK
  <2> QED BY <2>1, TimelyCommit, OnlyCommitWrites
<1>3. ASSUME NEW v \in Visits, visits'[v] # None
      PROVE  /\ TimelyRow(visits[v])'
             /\ \A i \in DOMAIN events'[v] :
                   OnTime(visits[v], events[v][i].validatedAt)'
  <2>1. PICK row \in SiteVisit : row = visits'[v]
    BY <1>2, <1>3
  <2>2. TimelyRow(row)' /\ \A i \in DOMAIN events'[v] : OnTime(row, events[v][i].validatedAt)'
    BY <1>2, <1>3, <2>1, WindowsDecide DEF TimelyRow, Near, OnTime
  <2> QED BY <2>1, <2>2 DEF TimelyRow, Near, OnTime
<1>4. ASSUME NEW t \in Slots, Pending(req'[t])
      PROVE  /\ req'[t].object \in SiteVisit
             /\ TimelyRow(req'[t].object)
             /\ req'[t].cmd.op = "confirm_host" => OnTime(req'[t].object, req'[t].at)
  <2>1. req'[t].object \in SiteVisit
    BY <1>1, <1>4 DEF ArrivalInv, TypeInv, RequestsWellFormed, WellFormed, HasObject, Pending
  <2>2. CASE Pending(req[t]) /\ SameRequest(req[t], req'[t])
    BY <2>1, <2>2 DEF TimelyInv, SameRequest
  <2>3. CASE Save(t)
    BY <1>1, <2>1, <2>3, SaveStep DEF TimelyInv, ArrivalInv
  <2>4. CASE LoadCheckIn(t) \/ LoadConfirmHost(t) \/ LoadCheckOut(t)
    BY <1>4, <2>1, <2>4, AcceptedTimely
  <2> QED BY <1>1, <1>4, <2>2, <2>3, <2>4, PendingStep DEF ArrivalInv
<1>5. ASSUME NEW t \in Slots, Pending(req'[t])
      PROVE  /\ TimelyRow(req[t].object)'
             /\ req'[t].cmd.op = "confirm_host" => OnTime(req[t].object, req[t].at)'
  <2>1. PICK row \in SiteVisit : row = req'[t].object
    BY <1>4, <1>5
  <2>2. TimelyRow(row)' /\ (req'[t].cmd.op = "confirm_host" => OnTime(row, req[t].at)')
    BY <1>4, <1>5, <2>1, WindowsDecide DEF TimelyRow, Near, OnTime
  <2> QED BY <2>1, <2>2 DEF TimelyRow, Near, OnTime
<1>6. \A t \in Slots : Pending(req[t])' <=> Pending(req'[t])
  BY DEF Pending
<1> QED BY <1>1, <1>2, <1>3, <1>5, <1>6 DEF TimelyInv

\* Whatever a request waits between its checks and its commit, the evidence it
\* stores is timely and, by GPS, near, as long as no mission route moves the
\* window of a mission: the rows are tested against today's window, the
\* requests were tested against the one they read (ensure_mission_window,
\* assert_copresence_mode_a).
THEOREM EvidenceStaysTimely ==
    Spec /\ [][WindowsKept]_vars => []EvidenceIsTimely
<1>1. Init => TimelyInv
  <2> SUFFICES ASSUME Init PROVE TimelyInv
    OBVIOUS
  <2>1. \A s \in Slots : ~Pending(req[s])
    BY DEF Init, Pending, Idle
  <2> QED BY <2>1, ArrivalInit DEF Init, TimelyInv
<1>2. TimelyInv /\ [Next]_vars /\ [WindowsKept]_vars => TimelyInv'
  <2>1. UNCHANGED vars => WindowsKept
    BY DEF vars, WindowsKept
  <2> QED BY <2>1, TimelyStep
<1>3. TimelyInv => EvidenceIsTimely
  BY DEF TimelyInv, EvidenceIsTimely, TimelyRow, Near, OnTime
<1> QED BY <1>1, <1>2, <1>3, PTL DEF Spec

-----------------------------------------------------------------------------
(* Whose evidence it is.  The proofs of a visit are the inspector's, made at *)
(* the arrival, then one of the host for each event, made in its instant.     *)

\* Nobody becomes the inspector or the designated host of a mission that is there.
PartiesKept ==
    \A m \in Missions : /\ missions'[m].inspector = missions[m].inspector
                        /\ missions'[m].designatedHost = missions[m].designatedHost

\* The proofs ps and the events es of a visit, for the mission m.
Signed(visit, m, ps, es) ==
    /\ Len(ps) = Len(es) + 1
    /\ ps[1].actor = m.inspector
    /\ ps[1].recordedAt = visit.checkedInAt /\ ps[1].pos = visit.inspectorPos
    /\ \A i \in 1 .. Len(es) :
          /\ es[i].mode = visit.mode
          /\ es[i].validatedAt = ps[i + 1].recordedAt
          /\ m.designatedHost \in {None, ps[i + 1].actor}

EvidenceIsSigned ==
    \A v \in Visits : visits[v] # None =>
        Signed(visits[v], missions[visits[v].mission], proofs[v], events[v])

Entitled(c, m) ==
    /\ c.op = "check_in" => m.inspector = c.user
    /\ c.op = "confirm_host" => m.designatedHost \in {None, c.user}

SignedInv ==
    /\ ArrivalInv
    /\ \A v \in Visits : visits[v] = None => events[v] = <<>> /\ proofs[v] = <<>>
    /\ EvidenceIsSigned
    /\ \A s \in Slots : Pending(req[s]) => Entitled(req[s].cmd, missions[req[s].cmd.mission])

SameParties(m, n) == m.inspector = n.inspector /\ m.designatedHost = n.designatedHost

LEMMA SameSigned ==
    ASSUME NEW a \in SiteVisit, NEW b \in SiteVisit, SameArrival(a, b),
           NEW m \in MissionRow, NEW n \in MissionRow, SameParties(m, n),
           NEW ps \in Seq(PresenceProof), NEW es \in Seq(CoPresenceEvent),
           Signed(b, n, ps, es)
    PROVE  Signed(a, m, ps, es)
<1>1. /\ a.checkedInAt = b.checkedInAt /\ a.mode = b.mode
      /\ a.inspectorPos = b.inspectorPos
  BY DEF SameArrival
<1>2. m.inspector = n.inspector /\ m.designatedHost = n.designatedHost
  BY DEF SameParties
<1> QED BY <1>1, <1>2 DEF Signed

\* A confirmation of an entitled host keeps the evidence signed.
LEMMA SignedOnceMore ==
    ASSUME NEW visit \in SiteVisit, NEW m \in MissionRow,
           NEW ps \in Seq(PresenceProof), NEW es \in Seq(CoPresenceEvent),
           Signed(visit, m, ps, es),
           NEW x \in PresenceProof, NEW y \in CoPresenceEvent,
           y.mode = visit.mode, y.validatedAt = x.recordedAt,
           m.designatedHost \in {None, x.actor}
    PROVE  Signed(visit, m, Append(ps, x), Append(es, y))
<1> DEFINE qs == Append(ps, x)
           fs == Append(es, y)
<1>1. /\ Len(ps) = Len(es) + 1 /\ Len(es) \in Nat
      /\ Len(qs) = Len(ps) + 1 /\ Len(fs) = Len(es) + 1
  BY DEF Signed
<1>2. /\ \A i \in 1 .. Len(ps) : qs[i] = ps[i]
      /\ \A i \in 1 .. Len(es) : fs[i] = es[i]
      /\ qs[Len(ps) + 1] = x /\ fs[Len(es) + 1] = y
  OBVIOUS
<1> HIDE DEF qs, fs
<1>3. 1 \in 1 .. Len(ps) /\ \A i \in 1 .. Len(es) : i + 1 \in 1 .. Len(ps)
  BY <1>1
<1>4. /\ qs[1].actor = m.inspector
      /\ qs[1].recordedAt = visit.checkedInAt /\ qs[1].pos = visit.inspectorPos
  BY <1>2, <1>3 DEF Signed
<1>5. ASSUME NEW i \in 1 .. Len(fs)
      PROVE  /\ fs[i].mode = visit.mode
             /\ fs[i].validatedAt = qs[i + 1].recordedAt
             /\ m.designatedHost \in {None, qs[i + 1].actor}
  <2>1. CASE i \in 1 .. Len(es)
    <3>1. fs[i] = es[i] /\ qs[i + 1] = ps[i + 1]
      BY <1>2, <1>3, <2>1
    <3> QED BY <2>1, <3>1 DEF Signed
  <2>2. CASE i = Len(es) + 1
    <3>1. fs[i] = y /\ qs[i + 1] = x
      BY <1>1, <1>2, <2>2
    <3> QED BY <3>1
  <2> QED BY <1>1, <1>5, <2>1, <2>2
<1> QED BY <1>1, <1>4, <1>5 DEF Signed, qs, fs

\* The proof that a commit adds: its user's, made when it was checked.
LEMMA ProofAdded ==
    ASSUME ArrivalInv, NEW s \in Slots, Commit(s), req[s].cmd.op # "check_out"
    PROVE  LET q == req[s]
           IN  \E x \in PresenceProof :
                  /\ proofs[q.visit] \in Seq(PresenceProof)
                  /\ proofs'[q.visit] = Append(proofs[q.visit], x)
                  /\ x.actor = q.cmd.user /\ x.recordedAt = q.at
                  /\ q.cmd.op = "check_in" => x.pos = q.cmd.pos
<1> DEFINE q == req[s]
<1>1. /\ TypeInv /\ q.pc = "commit" /\ q.visit \in Visits
      /\ q.cmd.op \in {"check_in", "confirm_host"}
  BY CommitArrives, CommandByOp DEF ArrivalInv, Commit
<1>2. /\ proofs \in [Visits -> Seq(PresenceProof)]
      /\ ProofsOf(q) \in Seq(PresenceProof)
  BY <1>1, CommittedTypes DEF TypeInv, TypeOK
<1>3. proofs'[q.visit] = proofs[q.visit] \o ProofsOf(q) /\ proofs[q.visit] \in Seq(PresenceProof)
  BY <1>1, <1>2 DEF Commit
<1>4. PICK x : /\ ProofsOf(q) = <<x>>
               /\ x.actor = q.cmd.user /\ x.recordedAt = q.at
               /\ q.cmd.op = "check_in" => x.pos = q.cmd.pos
  <2>1. CASE q.cmd.op = "check_in"
    BY <2>1 DEF ProofsOf
  <2>2. CASE q.cmd.op = "confirm_host"
    BY <2>2 DEF ProofsOf
  <2> QED BY <1>1, <2>1, <2>2
<1>5. x \in PresenceProof
  BY <1>2, <1>4
<1>6. proofs[q.visit] \o <<x>> = Append(proofs[q.visit], x)
  BY <1>3, <1>5, Appended
<1> QED BY <1>3, <1>4, <1>5, <1>6

LEMMA SignedCommit ==
    ASSUME SignedInv, NEW s \in Slots, Commit(s), NEW v \in Visits
    PROVE  /\ visits'[v] = None => events'[v] = <<>> /\ proofs'[v] = <<>>
           /\ visits'[v] # None =>
                 Signed(visits'[v], missions[visits'[v].mission], proofs'[v], events'[v])
<1> DEFINE q == req[s]
           event == [validatedAt |-> q.at, mode |-> q.object.mode]
<1>1. /\ ArrivalInv /\ Pending(q) /\ Knows(q) /\ q.cmd \in Commands
      /\ q.visit \in Visits /\ q.object \in SiteVisit /\ q.at \in Time
      /\ q.cmd.op \in {"check_in", "confirm_host", "check_out"}
      /\ \A w \in Visits : w # q.visit => visits'[w] = visits[w]
      /\ visits'[q.visit] \in SiteVisit /\ visits'[q.visit] # None
  BY CommitArrives, CommandByOp DEF SignedInv
<1>2. /\ events[v] \in Seq(CoPresenceEvent) /\ proofs[v] \in Seq(PresenceProof)
      /\ events'[v] = IF v = q.visit /\ q.cmd.op = "confirm_host"
                      THEN Append(events[v], event) ELSE events[v]
      /\ Len(proofs'[v]) = IF v = q.visit /\ q.cmd.op # "check_out"
                           THEN Len(proofs[v]) + 1 ELSE Len(proofs[v])
  BY <1>1, EvidenceAdded
<1>3. Entitled(q.cmd, missions[q.cmd.mission])
  BY <1>1 DEF SignedInv
<1>4. v # q.visit \/ q.cmd.op = "check_out" => proofs'[v] = proofs[v]
  <2>1. /\ TypeInv /\ proofs \in [Visits -> Seq(PresenceProof)]
    BY <1>1 DEF ArrivalInv, TypeInv, TypeOK
  <2>2. CASE v # q.visit
    BY <2>1, <2>2 DEF Commit
  <2>3. CASE v = q.visit /\ q.cmd.op = "check_out"
    <3>1. ProofsOf(q) = <<>>
      BY <2>3 DEF ProofsOf
    <3>2. proofs'[v] = proofs[v] \o <<>>
      BY <2>1, <2>3, <3>1 DEF Commit
    <3> QED BY <1>2, <3>2
  <2> QED BY <2>2, <2>3
<1>5. \A m \in Missions : missions[m] \in MissionRow
  BY <1>1, ConstantsAssumption DEF ArrivalInv, TypeInv, TypeOK
<1>6. CASE v # q.visit
  BY <1>1, <1>2, <1>4, <1>6 DEF SignedInv, EvidenceIsSigned
<1>7. CASE v = q.visit /\ q.cmd.op = "check_in"
  <2>1. /\ visits[v] = None /\ visits'[v] = q.object
        /\ q.object = StartCheckIn(NewVisit(q.cmd.mission), q.at, q.cmd.mode, q.cmd.pos)
        /\ q.cmd \in CheckInCommand
    BY <1>1, <1>7, CommitArrives, CommandByOp DEF Knows, CheckInKnows
  <2>2. /\ q.object.mission = q.cmd.mission /\ q.object.checkedInAt = q.at
        /\ q.object.inspectorPos = q.cmd.pos
    BY <1>1, <2>1, StartCheckInFields DEF CheckInCommand
  <2>3. PICK x \in PresenceProof :
          /\ proofs'[v] = Append(proofs[v], x)
          /\ x.actor = q.cmd.user /\ x.recordedAt = q.at /\ x.pos = q.cmd.pos
    BY <1>1, <1>7, ProofAdded
  <2>4. proofs[v] = <<>> /\ events'[v] = <<>>
    BY <1>2, <1>7, <2>1 DEF SignedInv
  <2>5. Len(proofs'[v]) = 1 /\ proofs'[v][1] = x /\ Len(events'[v]) = 0
    BY <2>3, <2>4
  <2>6. missions[q.cmd.mission].inspector = q.cmd.user
    BY <1>3, <1>7 DEF Entitled
  <2>7. visits'[v].mission = q.cmd.mission
    BY <2>1, <2>2
  <2>8. Signed(q.object, missions[q.cmd.mission], proofs'[v], events'[v])
    <3>1. 1 .. Len(events'[v]) = {}
      BY <2>5
    <3> QED BY <2>2, <2>3, <2>5, <2>6, <3>1 DEF Signed
  <2> QED BY <1>1, <1>7, <2>1, <2>7, <2>8
<1>8. CASE v = q.visit /\ q.cmd.op # "check_in"
  <2>1. /\ visits[v] # None /\ visits[v] \in SiteVisit
        /\ SameArrival(visits'[v], visits[v]) /\ SameArrival(q.object, visits[v])
        /\ visits[v].mission = q.cmd.mission
    BY <1>1, <1>8, CommitArrives DEF Knows, FollowUpKnows
  <2> DEFINE m == missions[q.cmd.mission]
  <2>2. /\ m \in MissionRow /\ SameParties(m, m)
        /\ visits'[v] \in SiteVisit /\ visits'[v] # None /\ visits'[v].mission = q.cmd.mission
    BY <1>1, <1>5, <1>8, <2>1 DEF SiteVisit, SameArrival, SameParties
  <2>3. Signed(visits[v], m, proofs[v], events[v])
    BY <2>1 DEF SignedInv, EvidenceIsSigned
  <2> HIDE DEF m
  <2>4. Signed(visits'[v], m, proofs[v], events[v])
    BY <1>2, <2>1, <2>2, <2>3, SameSigned
  <2>5. CASE q.cmd.op = "check_out"
    BY <1>2, <1>4, <1>8, <2>2, <2>4, <2>5 DEF m
  <2>6. CASE q.cmd.op = "confirm_host"
    <3>1. PICK x \in PresenceProof :
            /\ proofs'[v] = Append(proofs[v], x)
            /\ x.actor = q.cmd.user /\ x.recordedAt = q.at
      BY <1>1, <1>8, <2>6, ProofAdded
    <3>2. PICK y \in CoPresenceEvent :
            /\ events'[v] = Append(events[v], y)
            /\ y.mode = visits'[v].mode /\ y.validatedAt = q.at
      <4>1. event \in CoPresenceEvent
        BY <1>1 DEF CoPresenceEvent, SiteVisit
      <4>2. event.mode = visits'[v].mode
        BY <2>1 DEF SameArrival
      <4> QED BY <1>2, <1>8, <2>6, <4>1, <4>2
    <3>3. m.designatedHost \in {None, x.actor}
      BY <1>3, <2>6, <3>1 DEF Entitled, m
    <3>4. Signed(visits'[v], m, Append(proofs[v], x), Append(events[v], y))
      BY <1>2, <2>2, <2>4, <3>1, <3>2, <3>3, SignedOnceMore
    <3> QED BY <2>2, <3>1, <3>2, <3>4 DEF m
  <2> QED BY <1>1, <1>8, <2>5, <2>6
<1> QED BY <1>6, <1>7, <1>8

LEMMA AcceptedEntitled ==
    ASSUME ArrivalInv, NEW t \in Slots, Pending(req'[t]),
           LoadCheckIn(t) \/ LoadConfirmHost(t) \/ LoadCheckOut(t)
    PROVE  Entitled(req'[t].cmd, missions[req'[t].cmd.mission])
<1>1. CASE LoadCheckIn(t)
  BY <1>1, CheckInAccepted DEF CheckInVerdict, Entitled, CheckInCommand
<1>2. CASE LoadConfirmHost(t)
  BY <1>2, ConfirmationAccepted DEF ConfirmHostVerdict, Entitled, ConfirmHostCommand
<1>3. CASE LoadCheckOut(t)
  BY <1>3, CheckOutAccepted DEF Entitled, CheckOutCommand
<1> QED BY <1>1, <1>2, <1>3

LEMMA SignedStep == SignedInv /\ [Next]_vars /\ PartiesKept => SignedInv'
<1> SUFFICES ASSUME SignedInv, [Next]_vars, PartiesKept PROVE SignedInv'
  OBVIOUS
<1>1. /\ ArrivalInv /\ ArrivalInv' /\ TypeInv /\ TypeInv' /\ LoadsAreClean
      /\ \A m \in Missions : /\ missions[m] \in MissionRow /\ missions'[m] \in MissionRow
                             /\ SameParties(missions'[m], missions[m])
  <2>1. ArrivalInv /\ ArrivalInv' /\ TypeInv /\ TypeInv' /\ LoadsAreClean
    BY ArrivalStep DEF SignedInv, ArrivalInv
  <2>2. /\ missions \in [Missions -> MissionRows] /\ missions' \in [Missions -> MissionRows]
    BY <2>1 DEF TypeInv, TypeOK
  <2> QED BY <2>1, <2>2, ConstantsAssumption DEF PartiesKept, SameParties
<1>2. ASSUME NEW v \in Visits
      PROVE  /\ visits'[v] = None => events'[v] = <<>> /\ proofs'[v] = <<>>
             /\ visits'[v] # None =>
                   Signed(visits'[v], missions[visits'[v].mission], proofs'[v], events'[v])
  <2>1. CASE UNCHANGED <<visits, proofs, events, usedJti>>
    BY <2>1 DEF SignedInv, EvidenceIsSigned
  <2> QED BY <2>1, SignedCommit, OnlyCommitWrites
<1>3. ASSUME NEW v \in Visits, visits'[v] # None
      PROVE  Signed(visits'[v], missions'[visits'[v].mission], proofs'[v], events'[v])
  <2>1. /\ visits'[v] \in SiteVisit /\ visits'[v].mission \in Missions
        /\ proofs'[v] \in Seq(PresenceProof) /\ events'[v] \in Seq(CoPresenceEvent)
    BY <1>1, <1>3 DEF TypeInv, TypeOK, SiteVisit
  <2>2. SameArrival(visits'[v], visits'[v])
    BY DEF SameArrival
  <2> QED BY <1>1, <1>2, <1>3, <2>1, <2>2, SameSigned
<1>4. ASSUME NEW t \in Slots, Pending(req'[t])
      PROVE  Entitled(req'[t].cmd, missions'[req'[t].cmd.mission])
  <2>1. Entitled(req'[t].cmd, missions[req'[t].cmd.mission])
    <3>1. CASE Pending(req[t]) /\ SameRequest(req[t], req'[t])
      BY <3>1 DEF SignedInv, SameRequest
    <3>2. CASE Save(t)
      BY <1>1, <3>2, SaveStep DEF SignedInv
    <3>3. CASE LoadCheckIn(t) \/ LoadConfirmHost(t) \/ LoadCheckOut(t)
      BY <1>1, <1>4, <3>3, AcceptedEntitled
    <3> QED BY <1>1, <1>4, <3>1, <3>2, <3>3, PendingStep
  <2>2. req'[t].cmd.mission \in Missions
    <3>1. req'[t].cmd \in Commands
      BY <1>1, <1>4 DEF TypeInv, RequestsWellFormed, WellFormed, HasObject, Pending
    <3> QED BY <3>1, CommandByOp DEF CheckInCommand, ConfirmHostCommand, CheckOutCommand
  <2> QED BY <1>1, <2>1, <2>2 DEF Entitled, SameParties
<1>5. \A t \in Slots : Pending(req[t])' <=> Pending(req'[t])
  BY DEF Pending
<1> QED BY <1>1, <1>2, <1>3, <1>4, <1>5 DEF SignedInv, EvidenceIsSigned

\* A visit has the inspector's proof, made at the arrival it records, then one
\* proof for each co-presence event, made in the same instant by a user the
\* mission lets confirm, as long as no mission changes hands: whatever a request
\* waits between its checks and its commit, and whatever is retried, purged or
\* run meanwhile, no evidence is anyone else's (confirm_host_presence.py,
\* check_in_inspector.py).
THEOREM EvidenceStaysSigned ==
    Spec /\ [][PartiesKept]_vars => []EvidenceIsSigned
<1>1. Init => SignedInv
  <2> SUFFICES ASSUME Init PROVE SignedInv
    OBVIOUS
  <2>1. \A s \in Slots : ~Pending(req[s])
    BY DEF Init, Pending, Idle
  <2>2. \A v \in Visits : visits[v] = None /\ events[v] = <<>> /\ proofs[v] = <<>>
    BY DEF Init
  <2> QED BY <2>1, <2>2, ArrivalInit DEF SignedInv, EvidenceIsSigned
<1>2. SignedInv /\ [Next]_vars /\ [PartiesKept]_vars => SignedInv'
  <2>1. UNCHANGED vars => PartiesKept
    BY DEF vars, PartiesKept
  <2> QED BY <2>1, SignedStep
<1>3. SignedInv => EvidenceIsSigned
  BY DEF SignedInv
<1> QED BY <1>1, <1>2, <1>3, PTL DEF Spec

-----------------------------------------------------------------------------
(* The life cycle.  While no two confirmations or check-outs of a visit are  *)
(* pending together, what such a request read is still there when it         *)
(* commits: its transaction is one atomic step of VisitLifecycle.             *)

FollowUp(q) == Pending(q) /\ q.cmd.op # "check_in"

FollowUpsApart ==
    \A s, t \in Slots :
        s # t /\ FollowUp(req[s]) /\ FollowUp(req[t]) => req[s].visit # req[t].visit

SerialInv ==
    /\ ArrivalInv
    /\ OneVisitPerMission
    /\ \A v \in Visits : visits[v] = None => events[v] = <<>> /\ proofs[v] = <<>>
    /\ \A s \in Slots : FollowUp(req[s]) =>
          LET q == req[s]
          IN  /\ visits[q.visit].status =
                    IF q.cmd.op = "confirm_host" THEN PendingHost ELSE CopresenceOk
              /\ Saved(q) => q.base = visits[q.visit]

\* A mission's stage and evidence are its visit's.
StagesAreVisits ==
    \A v \in Visits : visits[v] # None =>
        LET m == visits[v].mission
        IN  /\ VisitsOf(m) = {v}
            /\ StageOf(m) = visits[v].status
            /\ EvidenceOf(m) = [proofs |-> Len(proofs[v]), events |-> Len(events[v])]

LEMMA StageOfVisit == OneVisitPerMission => StagesAreVisits
<1> SUFFICES ASSUME OneVisitPerMission, NEW v \in Visits, visits[v] # None
             PROVE  LET m == visits[v].mission
                    IN  /\ VisitsOf(m) = {v}
                        /\ StageOf(m) = visits[v].status
                        /\ EvidenceOf(m) = [proofs |-> Len(proofs[v]),
                                            events |-> Len(events[v])]
  BY DEF StagesAreVisits
<1> DEFINE m == visits[v].mission
<1>1. VisitsOf(m) = {v}
  BY DEF VisitsOf, OneVisitPerMission
<1>2. (CHOOSE w \in VisitsOf(m) : TRUE) = v
  BY <1>1
<1> HIDE DEF m
<1> QED BY <1>1, <1>2 DEF StageOf, EvidenceOf, m

\* One step of the life cycle, in terms of the stages it goes through.
LEMMA Advances ==
    ASSUME NEW m \in Missions, NEW from, NEW to, NEW p, NEW e, StageOf(m) = from,
           \A n \in Missions : StageOf(n)' = IF n = m THEN to ELSE StageOf(n),
           \A n \in Missions : EvidenceOf(n)' =
              IF n = m THEN [proofs |-> EvidenceOf(m).proofs + p,
                             events |-> EvidenceOf(m).events + e]
              ELSE EvidenceOf(n)
    PROVE  VL!Advance(m, from, to, p, e)
BY DEF VL!Advance

\* The missions whose visit a commit does not write see nothing of it.
LEMMA OtherMissions ==
    ASSUME ArrivalInv, NEW s \in Slots, Commit(s), NEW n \in Missions,
           req[s].object.mission # n
    PROVE  StageOf(n)' = StageOf(n) /\ EvidenceOf(n)' = EvidenceOf(n)
<1> DEFINE v == req[s].visit
<1>1. /\ v \in Visits /\ \A w \in Visits : w # v => visits'[w] = visits[w]
      /\ visits'[v].mission # n /\ (visits[v] # None => visits[v].mission # n)
  BY CommitArrives DEF Knows, FollowUpKnows, SameArrival
<1>2. VisitsOf(n)' = VisitsOf(n) /\ v \notin VisitsOf(n) /\ VisitsOf(n) \subseteq Visits
  BY <1>1 DEF VisitsOf
<1>3. /\ proofs \in [Visits -> Seq(PresenceProof)] /\ events \in [Visits -> Seq(CoPresenceEvent)]
  BY DEF ArrivalInv, TypeInv, TypeOK
<1>4. \A w \in Visits : w # v => proofs'[w] = proofs[w] /\ events'[w] = events[w]
  BY <1>1, <1>3 DEF Commit
<1>5. CASE VisitsOf(n) = {}
  BY <1>2, <1>5 DEF StageOf, EvidenceOf
<1>6. CASE VisitsOf(n) # {}
  <2>1. PICK w \in Visits : w = CHOOSE x \in VisitsOf(n) : TRUE
    BY <1>2, <1>6
  <2>2. /\ w # v /\ visits'[w] = visits[w]
        /\ proofs'[w] = proofs[w] /\ events'[w] = events[w]
        /\ w = (CHOOSE x \in VisitsOf(n) : TRUE)'
    BY <1>1, <1>2, <1>4, <1>6, <2>1
  <2>3. VisitsOf(n)' # {}
    BY <1>2, <1>6
  <2>4. /\ StageOf(n) = visits[w].status
        /\ EvidenceOf(n) = [proofs |-> Len(proofs[w]), events |-> Len(events[w])]
    BY <1>6, <2>1 DEF StageOf, EvidenceOf
  <2>5. /\ StageOf(n)' = visits'[w].status
        /\ EvidenceOf(n)' = [proofs |-> Len(proofs'[w]), events |-> Len(events'[w])]
    BY <2>2, <2>3 DEF StageOf, EvidenceOf
  <2> QED BY <2>2, <2>4, <2>5
<1> QED BY <1>5, <1>6

\* A commit advances its mission.
LEMMA CommitAdvances ==
    ASSUME SerialInv, NEW s \in Slots, Commit(s)
    PROVE  VL!Step
<1> DEFINE q == req[s]
<1>1. /\ ArrivalInv /\ OneVisitPerMission
      /\ q.visit \in Visits /\ q.cmd \in Commands /\ q.object \in SiteVisit
      /\ q.cmd.op \in {"check_in", "confirm_host", "check_out"}
      /\ Knows(q) /\ Pending(q) /\ Saved(q)
      /\ visits'[q.visit] \in SiteVisit /\ visits'[q.visit] # None
  BY CommitArrives, CommitEnds, CommandByOp DEF SerialInv, ArrivalInv
<1>2. OneVisitPerMission'
  BY <1>1, OneVisitStep DEF ArrivalInv, Next
<1>3. PICK m \in Missions : m = q.object.mission
  BY <1>1 DEF SiteVisit
<1>4. PICK v \in Visits : v = q.visit
  BY <1>1
<1>5. /\ visits'[v].mission = m
      /\ q.cmd.op # "check_in" => visits[v] # None /\ visits[v].mission = m
  BY <1>1, <1>3, <1>4, CommitArrives DEF Knows, FollowUpKnows, SameArrival
<1>6. /\ StageOf(m)' = visits'[v].status
      /\ EvidenceOf(m)' = [proofs |-> Len(proofs'[v]), events |-> Len(events'[v])]
  <2>1. StagesAreVisits'
    BY <1>2, StageOfVisit, PTL
  <2>2. v \in Visits /\ visits'[v] # None /\ visits'[v].mission = m
    BY <1>1, <1>4, <1>5
  <2>3. /\ StageOf(visits[v].mission)' = visits'[v].status
        /\ EvidenceOf(visits[v].mission)' =
              [proofs |-> Len(proofs'[v]), events |-> Len(events'[v])]
    BY <2>1, <2>2 DEF StagesAreVisits
  <2>4. /\ StageOf(visits[v].mission)' = StageOf(m)'
        /\ EvidenceOf(visits[v].mission)' = EvidenceOf(m)'
    BY <2>2 DEF StageOf, EvidenceOf, VisitsOf
  <2> QED BY <2>3, <2>4
<1>7. \A n \in Missions : n # m =>
          StageOf(n)' = StageOf(n) /\ EvidenceOf(n)' = EvidenceOf(n)
  BY <1>1, <1>3, OtherMissions
<1>8. /\ proofs[v] \in Seq(PresenceProof) /\ events[v] \in Seq(CoPresenceEvent)
      /\ Len(events'[v]) = IF q.cmd.op = "confirm_host"
                           THEN Len(events[v]) + 1 ELSE Len(events[v])
      /\ Len(proofs'[v]) = IF q.cmd.op # "check_out"
                           THEN Len(proofs[v]) + 1 ELSE Len(proofs[v])
  BY <1>1, <1>4, EvidenceAdded
<1>9. Len(proofs[v]) \in Nat /\ Len(events[v]) \in Nat
  BY <1>8
<1>10. CASE q.cmd.op = "check_in"
  <2>1. /\ visits[v] = None /\ visits'[v].status = PendingHost /\ q.cmd.mission \in Missions
        /\ q.object = StartCheckIn(NewVisit(q.cmd.mission), q.at, q.cmd.mode, q.cmd.pos)
    BY <1>1, <1>4, <1>10, CommitArrives, CommandByOp
       DEF Knows, CheckInKnows, CheckInCommand
  <2>2. m = q.cmd.mission
    BY <1>3, <2>1 DEF StartCheckIn, NewVisit
  <2>3. VisitsOf(m) = {} /\ proofs[v] = <<>> /\ events[v] = <<>>
    <3>1. q.base = None
      BY <1>1, <1>10 DEF Knows, CheckInKnows
    <3>2. VisitsOf(m) = {}
      BY <1>1, <1>3, <3>1, CommittedRow DEF ArrivalInv
    <3> QED BY <1>4, <2>1, <3>2 DEF SerialInv
  <2>4. StageOf(m) = "not_started" /\ EvidenceOf(m) = [proofs |-> 0, events |-> 0]
    BY <2>3 DEF StageOf, EvidenceOf
  <2>5. StageOf(m)' = "pending_host_validation" /\ EvidenceOf(m)' = [proofs |-> 1, events |-> 0]
    <3>1. Len(<<>>) = 0
      OBVIOUS
    <3> QED BY <1>6, <1>8, <1>10, <2>1, <2>3, <3>1 DEF PendingHost
  <2>6. VL!Advance(m, "not_started", "pending_host_validation", 1, 0)
    BY <1>7, <2>4, <2>5, Advances
  <2> QED BY <2>6 DEF VL!Step, VL!CheckInAccepted
<1>11. CASE q.cmd.op # "check_in"
  <2>1. /\ StageOf(m) = visits[v].status
        /\ EvidenceOf(m) = [proofs |-> Len(proofs[v]), events |-> Len(events[v])]
    BY <1>1, <1>5, <1>11, StageOfVisit DEF StagesAreVisits
  <2>2. /\ q.base = visits[v] /\ visits[v] # None
        /\ visits[v].status = IF q.cmd.op = "confirm_host" THEN PendingHost ELSE CopresenceOk
        /\ q.object.status = IF q.cmd.op = "confirm_host" THEN CopresenceOk ELSE Completed
    BY <1>1, <1>4, <1>5, <1>11 DEF SerialInv, FollowUp, Knows, FollowUpKnows
  <2>3. visits'[v] = Merge(visits[v], q.base, q.object)
    BY <1>1, <1>4, <2>2 DEF Commit, ArrivalInv, TypeInv, TypeOK
  <2>4. visits'[v].status = q.object.status
    BY <2>2, <2>3 DEF Merge, Column, PendingHost, CopresenceOk, Completed
  <2>5. CASE q.cmd.op = "confirm_host"
    <3>1. /\ StageOf(m) = "pending_host_validation" /\ StageOf(m)' = "copresence_validated"
          /\ EvidenceOf(m)' = [proofs |-> EvidenceOf(m).proofs + 1,
                               events |-> EvidenceOf(m).events + 1]
      BY <1>6, <1>8, <2>1, <2>2, <2>4, <2>5 DEF PendingHost, CopresenceOk
    <3>2. VL!Advance(m, "pending_host_validation", "copresence_validated", 1, 1)
      BY <1>7, <3>1, Advances
    <3> QED BY <3>2 DEF VL!Step, VL!HostConfirmed
  <2>6. CASE q.cmd.op = "check_out"
    <3>1. /\ StageOf(m) = "copresence_validated" /\ StageOf(m)' = "completed"
          /\ EvidenceOf(m)' = [proofs |-> EvidenceOf(m).proofs + 0,
                               events |-> EvidenceOf(m).events + 0]
      BY <1>6, <1>8, <1>9, <2>1, <2>2, <2>4, <2>6 DEF CopresenceOk, Completed
    <3>2. VL!Advance(m, "copresence_validated", "completed", 0, 0)
      BY <1>7, <3>1, Advances
    <3> QED BY <3>2 DEF VL!Step, VL!CheckOutAccepted
  <2> QED BY <1>1, <1>11, <2>5, <2>6
<1> QED BY <1>10, <1>11

LEMMA SerialStep ==
    ASSUME SerialInv, FollowUpsApart, [Next]_vars
    PROVE  SerialInv'
<1>1. ArrivalInv /\ TypeInv /\ LoadsAreClean /\ ArrivalInv' /\ OneVisitPerMission'
  BY ArrivalStep, OneVisitStep DEF SerialInv, ArrivalInv
<1>2. ASSUME NEW v \in Visits, visits'[v] = None
      PROVE  events'[v] = <<>> /\ proofs'[v] = <<>>
  <2>1. ASSUME NEW s \in Slots, Commit(s)
        PROVE  events'[v] = <<>> /\ proofs'[v] = <<>>
    <3>1. v # req[s].visit /\ visits[v] = None
      BY <1>1, <1>2, <2>1, CommitArrives
    <3>2. /\ proofs \in [Visits -> Seq(PresenceProof)]
          /\ events \in [Visits -> Seq(CoPresenceEvent)]
      BY <1>1 DEF TypeInv, TypeOK
    <3>3. events'[v] = events[v] /\ proofs'[v] = proofs[v]
      BY <2>1, <3>1, <3>2 DEF Commit
    <3> QED BY <3>1, <3>3 DEF SerialInv
  <2>2. CASE UNCHANGED <<visits, proofs, events, usedJti>>
    BY <1>2, <2>2 DEF SerialInv
  <2> QED BY <2>1, <2>2, OnlyCommitWrites
<1>3. ASSUME NEW t \in Slots, Pending(req'[t]), req'[t].cmd.op # "check_in"
      PROVE  LET q == req'[t]
             IN  /\ visits'[q.visit].status =
                       IF q.cmd.op = "confirm_host" THEN PendingHost ELSE CopresenceOk
                 /\ Saved(q) => q.base = visits'[q.visit]
  <2> DEFINE p == req[t]
             q == req'[t]
  <2>1. CASE Pending(p) /\ SameRequest(p, q)
    <3>1. /\ FollowUp(p) /\ p.visit \in Visits
          /\ visits[p.visit].status =
                IF p.cmd.op = "confirm_host" THEN PendingHost ELSE CopresenceOk
          /\ Saved(p) => p.base = visits[p.visit]
      BY <1>1, <1>3, <2>1
         DEF SerialInv, SameRequest, FollowUp, TypeInv, RequestsWellFormed, WellFormed,
             HasObject, Pending
    <3>2. visits'[p.visit] = visits[p.visit]
      <4>1. ASSUME NEW s \in Slots, Commit(s) PROVE visits'[p.visit] = visits[p.visit]
        \* The other pending request is another visit's, or a check-in, whose id is
        \* its own.
        <5>1. Pending(req[s]) /\ s # t
          BY <1>1, <1>3, <4>1, CommitEnds
        <5>2. p.visit # req[s].visit
          BY <1>1, <2>1, <3>1, <5>1 DEF FollowUpsApart, FollowUp, ArrivalInv
        <5> QED BY <1>1, <3>1, <4>1, <5>2, CommitArrives
      <4> QED BY <4>1, OnlyCommitWrites
    <3> QED BY <2>1, <3>1, <3>2 DEF SameRequest
  <2>2. ~Pending(p) \/ ~SameRequest(p, q) => visits' = visits
    <3>1. CASE \E s \in Slots : Commit(s)
      \* A commit leaves the other requests as they are.
      <4>1. PICK s \in Slots : Commit(s)
        BY <3>1
      <4>2. s # t
        BY <1>1, <1>3, <4>1, CommitEnds
      <4>3. q = p
        BY <1>1, <4>1, <4>2, OtherRequests
      <4> QED BY <1>3, <4>3 DEF SameRequest
    <3> QED BY <3>1, OnlyCommitWrites
  <2>3. CASE ~(Pending(p) /\ SameRequest(p, q))
    <3>1. visits' = visits
      BY <2>2, <2>3
    <3>2. CASE Save(t)
      BY <1>1, <1>3, <3>1, <3>2, SaveStep DEF SerialInv, FollowUp
    <3>3. CASE LoadCheckIn(t)
      BY <1>1, <1>3, <3>3, CheckInAccepted DEF CheckInCommand
    <3>4. CASE LoadConfirmHost(t)
      BY <1>1, <1>3, <3>1, <3>4, ConfirmationAccepted
         DEF ConfirmHostCommand, ConfirmHostVerdict, MarkCopresenceVerdict
    <3>5. CASE LoadCheckOut(t)
      BY <1>1, <1>3, <3>1, <3>5, CheckOutAccepted
         DEF CheckOutCommand, CheckOutRequestVerdict, CheckOutVerdict
    <3> QED BY <1>1, <1>3, <2>3, <3>2, <3>3, <3>4, <3>5, PendingStep
  <2> QED BY <2>1, <2>3
<1>4. \A t \in Slots : /\ Pending(req[t])' <=> Pending(req'[t])
                       /\ Saved(req[t])' <=> Saved(req'[t])
  BY DEF Pending, Saved
<1> QED BY <1>1, <1>2, <1>3, <1>4 DEF SerialInv, FollowUp

\* Unless two confirmations or check-outs of one visit overlap, requests take a
\* mission's visit forward through its statuses, each accepted one in one atomic
\* step that leaves its evidence (api/v1/site_visits.py), whatever is retried,
\* replayed, lost or purged, and whatever other requests run meanwhile.
THEOREM LifecycleWithoutOverlaps == Spec /\ []FollowUpsApart => LifecycleRefined
<1>1. Init => SerialInv /\ VL!Start
  <2> SUFFICES ASSUME Init PROVE SerialInv /\ VL!Start
    OBVIOUS
  <2>1. \A m \in Missions : VisitsOf(m) = {}
    BY DEF Init, VisitsOf
  <2>2. \A s \in Slots : ~FollowUp(req[s])
    BY DEF Init, FollowUp, Pending, Idle
  <2>3. SerialInv
    BY <2>2, ArrivalInit DEF Init, OneVisitPerMission, SerialInv
  <2>4. VL!Start
    BY <2>1 DEF VL!Start, StageOf, EvidenceOf
  <2> QED BY <2>3, <2>4
<1>2. SerialInv /\ FollowUpsApart /\ [Next]_vars => SerialInv'
  BY SerialStep
<1>3. SerialInv /\ [Next]_vars => [VL!Step]_VL!lifecycleVars
  <2> SUFFICES ASSUME SerialInv, [Next]_vars PROVE [VL!Step]_VL!lifecycleVars
    OBVIOUS
  <2>1. CASE \E s \in Slots : Commit(s)
    BY <2>1, CommitAdvances
  <2>2. CASE UNCHANGED <<visits, proofs, events, usedJti>>
    BY <2>2 DEF VL!lifecycleVars, StageOf, EvidenceOf, VisitsOf
  <2> QED BY <2>1, <2>2, OnlyCommitWrites
<1> QED BY <1>1, <1>2, <1>3, PTL DEF Spec, LifecycleRefined, VL!Lifecycle

\* What a visit at each stage has: a check-in's proof, then the host's proof and
\* the event; two proofs and one event to the end.
EvidenceFollowsStage ==
    \A m \in Missions :
        EvidenceOf(m) = CASE StageOf(m) = "not_started" -> [proofs |-> 0, events |-> 0]
                          [] StageOf(m) = PendingHost   -> [proofs |-> 1, events |-> 0]
                          [] OTHER                      -> [proofs |-> 2, events |-> 1]

CompletedIsFinal ==
    [][\A m \in Missions : StageOf(m) = Completed =>
          StageOf(m)' = Completed /\ EvidenceOf(m)' = EvidenceOf(m)]_vars

\* A step of the life cycle is a step of one mission.
LEMMA StepAdvances ==
    ASSUME [VL!Step]_VL!lifecycleVars, NEW n \in Missions
    PROVE  \/ StageOf(n)' = StageOf(n) /\ EvidenceOf(n)' = EvidenceOf(n)
           \/ /\ StageOf(n) = "not_started" /\ StageOf(n)' = PendingHost
              /\ EvidenceOf(n)' = [proofs |-> EvidenceOf(n).proofs + 1,
                                   events |-> EvidenceOf(n).events + 0]
           \/ /\ StageOf(n) = PendingHost /\ StageOf(n)' = CopresenceOk
              /\ EvidenceOf(n)' = [proofs |-> EvidenceOf(n).proofs + 1,
                                   events |-> EvidenceOf(n).events + 1]
           \/ /\ StageOf(n) = CopresenceOk /\ StageOf(n)' = Completed
              /\ EvidenceOf(n)' = [proofs |-> EvidenceOf(n).proofs + 0,
                                   events |-> EvidenceOf(n).events + 0]
<1>1. ASSUME NEW m \in Missions, NEW from, NEW to, NEW p, NEW e,
             VL!Advance(m, from, to, p, e)
      PROVE  \/ StageOf(n)' = StageOf(n) /\ EvidenceOf(n)' = EvidenceOf(n)
             \/ /\ StageOf(n) = from /\ StageOf(n)' = to
                /\ EvidenceOf(n)' = [proofs |-> EvidenceOf(n).proofs + p,
                                     events |-> EvidenceOf(n).events + e]
  <2>1. CASE n = m
    BY <1>1, <2>1 DEF VL!Advance
  <2>2. CASE n # m
    BY <1>1, <2>2 DEF VL!Advance
  <2> QED BY <2>1, <2>2
<1>2. CASE UNCHANGED VL!lifecycleVars
  <2>1. \A m \in Missions : StageOf(m)' = StageOf(m) /\ EvidenceOf(m)' = EvidenceOf(m)
    BY <1>2 DEF VL!lifecycleVars
  <2> QED BY <2>1
<1>3. CASE VL!Step
  <2>1. PICK m \in Missions :
          \/ VL!Advance(m, "not_started", "pending_host_validation", 1, 0)
          \/ VL!Advance(m, "pending_host_validation", "copresence_validated", 1, 1)
          \/ VL!Advance(m, "copresence_validated", "completed", 0, 0)
    BY <1>3 DEF VL!Step, VL!CheckInAccepted, VL!HostConfirmed, VL!CheckOutAccepted
  <2>2. CASE VL!Advance(m, "not_started", "pending_host_validation", 1, 0)
    BY <1>1, <2>2 DEF PendingHost
  <2>3. CASE VL!Advance(m, "pending_host_validation", "copresence_validated", 1, 1)
    BY <1>1, <2>3 DEF PendingHost, CopresenceOk
  <2>4. CASE VL!Advance(m, "copresence_validated", "completed", 0, 0)
    BY <1>1, <2>4 DEF CopresenceOk, Completed
  <2> QED BY <2>1, <2>2, <2>3, <2>4
<1> QED BY <1>2, <1>3

\* What VisitLifecycle promises by itself, and so what requests that do not
\* overlap on a visit keep: a visit that is validated or completed has exactly
\* one co-presence event and two proofs, one that waits for its host has the
\* inspector's proof only, and a completed one is never touched again.
THEOREM LifecyclePromises ==
    /\ VL!Lifecycle => []EvidenceFollowsStage /\ CompletedIsFinal
    /\ Spec /\ []FollowUpsApart => []EvidenceFollowsStage /\ CompletedIsFinal
<1> DEFINE Final == \A m \in Missions : StageOf(m) = Completed =>
                       StageOf(m)' = Completed /\ EvidenceOf(m)' = EvidenceOf(m)
<1>1. VL!Start => EvidenceFollowsStage
  <2>1. VL!Start => \A m \in Missions : /\ StageOf(m) = "not_started"
                                        /\ EvidenceOf(m) = [proofs |-> 0, events |-> 0]
    BY DEF VL!Start
  <2> QED BY <2>1 DEF EvidenceFollowsStage, PendingHost
<1>2. EvidenceFollowsStage /\ [VL!Step]_VL!lifecycleVars => EvidenceFollowsStage'
  <2> SUFFICES ASSUME EvidenceFollowsStage, [VL!Step]_VL!lifecycleVars, NEW n \in Missions
               PROVE  EvidenceOf(n)' =
                        CASE StageOf(n)' = "not_started" -> [proofs |-> 0, events |-> 0]
                          [] StageOf(n)' = PendingHost   -> [proofs |-> 1, events |-> 0]
                          [] OTHER                       -> [proofs |-> 2, events |-> 1]
    BY DEF EvidenceFollowsStage
  <2>1. EvidenceOf(n) =
           CASE StageOf(n) = "not_started" -> [proofs |-> 0, events |-> 0]
             [] StageOf(n) = PendingHost   -> [proofs |-> 1, events |-> 0]
             [] OTHER                      -> [proofs |-> 2, events |-> 1]
    BY DEF EvidenceFollowsStage
  <2> QED BY <2>1, StepAdvances DEF PendingHost, CopresenceOk, Completed
<1>3. [VL!Step]_VL!lifecycleVars => Final
  <2>1. [VL!Step]_VL!lifecycleVars =>
           \A n \in Missions : StageOf(n) = Completed =>
              StageOf(n)' = Completed /\ EvidenceOf(n)' = EvidenceOf(n)
    BY StepAdvances DEF PendingHost, CopresenceOk, Completed
  <2> QED BY <2>1
<1> HIDE DEF Final
<1>4. [VL!Step]_VL!lifecycleVars => [Final]_vars
  BY <1>3
<1>5. VL!Lifecycle => []EvidenceFollowsStage /\ [][Final]_vars
  BY <1>1, <1>2, <1>4, PTL DEF VL!Lifecycle
<1>6. [][Final]_vars <=> CompletedIsFinal
  BY DEF Final, CompletedIsFinal
<1> QED BY <1>5, <1>6, LifecycleWithoutOverlaps, PTL DEF LifecycleRefined

\* Served one at a time, no requests overlap, and the refinement is whole.
THEOREM LifecycleIsRefined ==
    ASSUME \A s, t \in Slots : s = t
    PROVE  Spec => LifecycleRefined
<1>1. FollowUpsApart
  BY DEF FollowUpsApart
<1> QED BY <1>1, LifecycleWithoutOverlaps, PTL
=============================================================================
