---------------------------- MODULE Missions_proofs ----------------------------
(***************************************************************************)
(* Theorems about Missions, for any sets of requests, ids and inspectors.  *)
(***************************************************************************)
EXTENDS Missions, TLAPS

InFlight(s) == req[s].pc # "idle"

\* What is handed over with a mission never changes.
SameLineage(a, b) ==
    /\ a.inspector = b.inspector
    /\ a.requiresApproval = b.requiresApproval
    /\ a.previous = b.previous

\* A creation writes an id that has no row, every other request a row that is
\* there, with an object of the same lineage; a clone has no row yet and comes
\* from the mission that is written.
KnowsItsMission(q) ==
    /\ q.op = "create" => /\ missions[q.target] = None
                          /\ q.object # None /\ q.object.previous = None
                          /\ q.base = None /\ q.clone = None
    /\ q.op # "create" => /\ missions[q.target] # None
                          /\ q.object # None =>
                                SameLineage(q.object, missions[q.target])
                          /\ q.pc = "commit" => q.base # None
    /\ q.op = "set_status" => q.object # None
    /\ q.op = "reassign" <=> q.clone # None
    /\ q.clone # None => /\ missions[q.clone] = None
                         /\ q.heir # None /\ q.heir.previous = q.target

\* An id given by a request in flight is no other request's.
Apart(q, r) ==
    /\ q.op = "create" => q.target # r.target /\ q.target # r.clone
    /\ q.clone # None => q.clone # r.target /\ q.clone # r.clone

MissionsInv ==
    /\ MissionsTypeOK
    /\ \A s \in Slots : InFlight(s) => KnowsItsMission(req[s])
    /\ \A s, t \in Slots :
          s # t /\ InFlight(s) /\ InFlight(t) => Apart(req[s], req[t])

-----------------------------------------------------------------------------
(* Types *)

LEMMA InitInv == Init => MissionsInv
BY DEF Init, MissionsInv, MissionsTypeOK, Request, Idle, InFlight

\* What a commit writes over a row is a mission of the row's lineage.
LEMMA MergeKeeps ==
    ASSUME NEW stored \in Mission, NEW base \in Mission, NEW object \in Mission,
           SameLineage(object, stored)
    PROVE  /\ Merge(stored, base, object) \in Mission
           /\ SameLineage(Merge(stored, base, object), stored)
           /\ \/ Merge(stored, base, object).status = stored.status
              \/ Merge(stored, base, object).status = object.status
BY DEF Merge, Column, Mission, SameLineage

\* A request that begins is well typed, and only its slot changes.
LEMMA BeginTyped ==
    ASSUME MissionsTypeOK, NEW s \in Slots, NEW op \in Op, NEW target \in Ids,
           NEW object \in Mission \cup {None}, NEW clone \in Ids \cup {None},
           NEW heir \in Mission \cup {None},
           Begin(s, op, target, object, clone, heir)
    PROVE  /\ MissionsTypeOK'
           /\ ~InFlight(s)
           /\ req'[s] = [pc |-> "save", op |-> op, target |-> target,
                         object |-> object, base |-> None, clone |-> clone,
                         heir |-> heir, overlapped |-> FALSE]
           /\ \A t \in Slots \ {s} : req'[t] = req[t]
           /\ missions' = missions /\ outcomes' = outcomes /\ audit' = audit /\ said' = said
<1>1. [pc |-> "save", op |-> op, target |-> target, object |-> object,
       base |-> None, clone |-> clone, heir |-> heir, overlapped |-> FALSE]
         \in Request
  BY DEF Request
<1> QED  BY <1>1 DEF Begin, MissionsTypeOK, InFlight

\* A request that begins keeps the invariant when it knows its mission and is
\* apart from the others.
LEMMA BeginKeeps ==
    ASSUME MissionsInv, NEW s \in Slots, NEW op \in Op, NEW target \in Ids,
           NEW object \in Mission \cup {None}, NEW clone \in Ids \cup {None},
           NEW heir \in Mission \cup {None},
           Begin(s, op, target, object, clone, heir),
           KnowsItsMission([pc |-> "save", op |-> op, target |-> target,
                            object |-> object, base |-> None, clone |-> clone,
                            heir |-> heir, overlapped |-> FALSE]),
           op = "create" => target \in FreshIds,
           clone # None => clone \in FreshIds
    PROVE  MissionsInv'
<1> DEFINE q == [pc |-> "save", op |-> op, target |-> target, object |-> object,
                 base |-> None, clone |-> clone, heir |-> heir,
                 overlapped |-> FALSE]
<1>1. /\ MissionsTypeOK'
      /\ req'[s] = q
      /\ \A t \in Slots \ {s} : req'[t] = req[t]
      /\ missions' = missions
  BY BeginTyped DEF MissionsInv
<1>2. ASSUME NEW t \in Slots, InFlight(t)'
      PROVE  KnowsItsMission(req[t])'
  BY <1>1, <1>2 DEF MissionsInv, KnowsItsMission, InFlight
<1>3. ASSUME NEW t \in Slots \ {s}, InFlight(t)
      PROVE  Apart(q, req[t]) /\ Apart(req[t], q)
  <2>1. KnowsItsMission(req[t])
    BY <1>3 DEF MissionsInv
  <2>2. Apart(q, req[t])
    BY <1>3 DEF FreshIds, Apart, InFlight
  <2>3. op # "create" => missions[target] # None
    BY DEF KnowsItsMission
  <2>4. op = "create" => req[t].target # target /\ req[t].clone # target
    BY <2>2 DEF Apart
  <2>5. clone # None => req[t].target # clone /\ req[t].clone # clone
    BY <2>2 DEF Apart
  <2>6. req[t].op = "create" => missions[req[t].target] = None
    BY <2>1 DEF KnowsItsMission
  <2>7. req[t].clone # None => missions[req[t].clone] = None
    BY <2>1 DEF KnowsItsMission
  <2>8. req[t].target \in Ids
    BY <1>3 DEF MissionsInv, MissionsTypeOK, Request, Idle, InFlight
  <2>9. None \notin Ids
    BY MissionsAssumption
  <2> QED  BY <2>2, <2>3, <2>4, <2>5, <2>6, <2>7, <2>8, <2>9 DEF Apart
<1>4. ASSUME NEW t \in Slots, NEW u \in Slots, t # u, InFlight(t)', InFlight(u)'
      PROVE  Apart(req[t], req[u])'
  BY <1>1, <1>3, <1>4 DEF MissionsInv, InFlight, Apart
<1> QED  BY <1>1, <1>2, <1>4 DEF MissionsInv

\* What a commit does to the table: nothing but the rows of its target and of
\* its clone, and to these what the operation says.
LEMMA CommitWrites ==
    ASSUME MissionsInv, NEW s \in Slots, Commit(s)
    PROVE  /\ missions' \in [Ids -> Mission \cup {None}]
           /\ req[s].target \in Ids /\ KnowsItsMission(req[s])
           /\ \A m \in Ids : m # req[s].target /\ m # req[s].clone =>
                                missions'[m] = missions[m]
           /\ req[s].clone # None => missions'[req[s].clone] = req[s].heir
           /\ req[s].op = "create" => missions'[req[s].target] = req[s].object
           /\ req[s].op # "create" =>
                 /\ missions'[req[s].target] \in Mission
                 /\ SameLineage(missions'[req[s].target], missions[req[s].target])
                 /\ \/ missions'[req[s].target].status = missions[req[s].target].status
                    \/ /\ req[s].object # None
                       /\ missions'[req[s].target].status = req[s].object.status
<1> DEFINE q == req[s]
<1>1. /\ q \in Request /\ q.pc = "commit" /\ KnowsItsMission(q)
      /\ missions \in [Ids -> Mission \cup {None}]
  BY DEF Commit, MissionsInv, MissionsTypeOK, InFlight
<1>2. /\ q.target \in Ids /\ q.object \in Mission \cup {None}
      /\ q.base \in Mission \cup {None} /\ q.clone \in Ids \cup {None}
      /\ q.heir \in Mission \cup {None}
  BY <1>1 DEF Request, Idle
<1>3. missions' = [m \in Ids |->
              IF m = q.target /\ q.object # None THEN Written(q)
              ELSE IF m = q.clone THEN q.heir
              ELSE missions[m]]
  BY DEF Commit
<1>4. None \notin Ids /\ None \notin Mission
  BY MissionsAssumption
<1>5. q.clone # q.target
  BY <1>1, <1>2, <1>4 DEF KnowsItsMission
<1>6. CASE q.op = "create"
  <2>1. Written(q) = q.object /\ q.object # None /\ q.clone = None
    BY <1>1, <1>6 DEF KnowsItsMission, Written
  <2> QED  BY <1>1, <1>2, <1>3, <1>4, <1>6, <2>1
<1>7. CASE q.op # "create" /\ q.object # None
  <2>1. Written(q) = Merge(missions[q.target], q.base, q.object)
    BY <1>1, <1>7 DEF KnowsItsMission, Written
  <2>2. /\ missions[q.target] \in Mission /\ q.base \in Mission
        /\ q.object \in Mission /\ SameLineage(q.object, missions[q.target])
    BY <1>1, <1>2, <1>7 DEF KnowsItsMission
  <2>3. /\ Written(q) \in Mission
        /\ SameLineage(Written(q), missions[q.target])
        /\ \/ Written(q).status = missions[q.target].status
           \/ Written(q).status = q.object.status
    BY <2>1, <2>2, MergeKeeps
  <2>4. missions'[q.target] = Written(q)
    BY <1>2, <1>3, <1>7
  <2>5. q.clone # None => missions'[q.clone] = q.heir
    BY <1>2, <1>3, <1>5
  <2>6. \A m \in Ids : m # q.target /\ m # q.clone => missions'[m] = missions[m]
    BY <1>3
  <2>7. missions' \in [Ids -> Mission \cup {None}]
    BY <1>1, <1>2, <1>3, <2>3
  <2> QED  BY <1>1, <1>2, <1>7, <2>3, <2>4, <2>5, <2>6, <2>7
<1>8. CASE q.op # "create" /\ q.object = None
  <2>1. missions'[q.target] = missions[q.target]
    BY <1>2, <1>3, <1>5, <1>8
  <2>2. missions[q.target] \in Mission
    BY <1>1, <1>2, <1>8 DEF KnowsItsMission
  <2>3. missions' \in [Ids -> Mission \cup {None}]
    BY <1>1, <1>2, <1>3, <1>8
  <2>4. q.clone # None => missions'[q.clone] = q.heir
    BY <1>2, <1>3, <1>5
  <2>5. \A m \in Ids : m # q.target /\ m # q.clone => missions'[m] = missions[m]
    BY <1>3, <1>8
  <2> QED  BY <1>1, <1>2, <1>8, <2>1, <2>2, <2>3, <2>4, <2>5 DEF SameLineage
<1> QED  BY <1>6, <1>7, <1>8

\* A commit deletes no row and changes the lineage of none.
LEMMA RowsStay ==
    ASSUME MissionsInv, NEW s \in Slots, Commit(s), NEW k \in Ids, missions[k] # None
    PROVE  missions'[k] # None /\ SameLineage(missions'[k], missions[k])
<1> DEFINE q == req[s]
<1>1. KnowsItsMission(q) /\ q.target \in Ids
  BY CommitWrites
<1>2. k # q.clone
  BY <1>1, MissionsAssumption DEF KnowsItsMission
<1>3. CASE k = q.target
  BY <1>1, <1>3, CommitWrites, MissionsAssumption DEF KnowsItsMission
<1>4. CASE k # q.target
  BY <1>2, <1>4, CommitWrites DEF SameLineage
<1> QED  BY <1>3, <1>4

\* A commit keeps what the other requests know: it writes no id they were
\* given and leaves the lineage of the mission they read.
LEMMA CommitKeeps ==
    ASSUME MissionsInv, NEW s \in Slots, Commit(s)
    PROVE  MissionsInv'
<1> DEFINE q == req[s]
           Changed(t) == missions'[req[t].target] # missions[req[t].target]
<1>1. /\ q.pc = "commit" /\ InFlight(s) /\ q \in Request /\ q # Idle
      /\ req \in [Slots -> Request]
  BY DEF Commit, InFlight, MissionsInv, MissionsTypeOK, Idle
<1>2. /\ q.op \in Op /\ q.target \in Ids /\ q.clone \in Ids \cup {None}
      /\ q.object \in Mission \cup {None}
  BY <1>1 DEF Request
<1>3. KnowsItsMission(q)
  BY CommitWrites
<1>4. \A t \in Slots : req'[t] = IF t = s THEN Idle
                                 ELSE IF req[t].pc = "idle" THEN req[t]
                                 ELSE [req[t] EXCEPT !.overlapped = @ \/ Changed(t)]
  BY DEF Commit
<1>5. ASSUME NEW t \in Slots, InFlight(t)'
      PROVE  /\ t # s /\ InFlight(t)
             /\ req'[t] = [req[t] EXCEPT !.overlapped = @ \/ Changed(t)]
             /\ req'[t] \in Request
             /\ req'[t].pc = req[t].pc /\ req'[t].op = req[t].op
             /\ req'[t].target = req[t].target /\ req'[t].object = req[t].object
             /\ req'[t].base = req[t].base /\ req'[t].clone = req[t].clone
             /\ req'[t].heir = req[t].heir
  <2>1. t # s /\ InFlight(t) /\ req'[t] = [req[t] EXCEPT !.overlapped = @ \/ Changed(t)]
    BY <1>4, <1>5 DEF InFlight, Idle
  <2>2. req[t] \in Request /\ req[t] # Idle
    BY <1>1, <2>1 DEF InFlight, Idle
  <2> QED  BY <2>1, <2>2 DEF Request
<1>6. MissionsTypeOK'
  <2>1. missions' \in [Ids -> Mission \cup {None}]
    BY CommitWrites
  <2>2. outcomes' \in [Ids -> Nat]
    BY <1>2 DEF Commit, MissionsInv, MissionsTypeOK
  <2>3. AuditOf(q) \subseteq AuditedOp \X Ids
    BY <1>2, <1>3 DEF AuditOf, AuditedOp, KnowsItsMission
  <2>4. audit' \subseteq AuditedOp \X Ids
    BY <2>3 DEF Commit, MissionsInv, MissionsTypeOK
  <2>5. \A t \in Slots : req'[t] \in Request
    <3> SUFFICES ASSUME NEW t \in Slots
                 PROVE  req'[t] \in Request
      OBVIOUS
    <3>1. CASE InFlight(t)'
      BY <1>5, <3>1
    <3>2. CASE ~InFlight(t)'
      <4>1. t = s \/ req[t].pc = "idle" \/ req'[t].pc = req[t].pc
        <5> SUFFICES ASSUME t # s, req[t].pc # "idle" PROVE req'[t].pc = req[t].pc
          OBVIOUS
        <5>1. req'[t] = [req[t] EXCEPT !.overlapped = @ \/ Changed(t)]
          BY <1>4
        <5>2. req[t] \in Request /\ req[t] # Idle
          BY <1>1 DEF Idle
        <5> HIDE DEF Changed
        <5> QED BY <5>1, <5>2 DEF Request
      <4> QED  BY <1>1, <1>4, <3>2, <4>1 DEF InFlight, Request
    <3> QED  BY <3>1, <3>2
  <2>6. req' \in [Slots -> Request]
    BY <2>5 DEF Commit
  <2>7. SaidBy(q) \subseteq MissionStatus \X Ids
    BY <1>2, <1>3 DEF SaidBy, KnowsItsMission, Mission
  <2>8. said' \subseteq MissionStatus \X Ids
    BY <2>7 DEF Commit, MissionsInv, MissionsTypeOK
  <2> QED  BY <2>1, <2>2, <2>4, <2>6, <2>8 DEF MissionsTypeOK
<1>7. ASSUME NEW t \in Slots, InFlight(t)'
      PROVE  KnowsItsMission(req[t])'
  <2> DEFINE r == req[t]
  <2>1. /\ t # s /\ InFlight(t) /\ KnowsItsMission(r)
        /\ Apart(q, r) /\ Apart(r, q)
    BY <1>1, <1>5, <1>7 DEF MissionsInv
  <2>2. r.target \in Ids /\ r.clone \in Ids \cup {None}
    BY <1>1, <2>1 DEF InFlight, Request, Idle
  <2>3. r.op = "create" => missions'[r.target] = None
    BY <2>1, <2>2, CommitWrites DEF Apart, KnowsItsMission
  <2>4. r.clone # None => missions'[r.clone] = None
    BY <2>1, <2>2, CommitWrites DEF Apart, KnowsItsMission
  <2>5. r.op # "create" =>
          /\ missions'[r.target] # None
          /\ SameLineage(missions'[r.target], missions[r.target])
    <3>1. CASE r.op # "create" /\ r.target = q.target
      BY <2>1, <3>1, <1>3, CommitWrites, MissionsAssumption DEF KnowsItsMission
    <3>2. CASE r.op # "create" /\ r.target # q.target
      <4>1. r.target # q.clone
        BY <2>1, <2>2, <3>2, <1>3, MissionsAssumption DEF KnowsItsMission
      <4> QED  BY <2>1, <2>2, <3>2, <4>1, CommitWrites DEF KnowsItsMission, SameLineage
    <3> QED  BY <3>1, <3>2
  <2>6. /\ req'[t].pc = r.pc /\ req'[t].op = r.op /\ req'[t].target = r.target
        /\ req'[t].object = r.object /\ req'[t].base = r.base
        /\ req'[t].clone = r.clone /\ req'[t].heir = r.heir
    BY <1>5, <1>7
  <2>7. r.op # "create" /\ r.object # None => SameLineage(r.object, missions'[r.target])
    BY <2>1, <2>5 DEF KnowsItsMission, SameLineage
  <2> HIDE DEF r
  <2> QED  BY <2>1, <2>3, <2>4, <2>5, <2>6, <2>7 DEF KnowsItsMission
<1>8. ASSUME NEW t \in Slots, NEW u \in Slots, t # u, InFlight(t)', InFlight(u)'
      PROVE  Apart(req[t], req[u])'
  <2>1. /\ InFlight(t) /\ req'[t].op = req[t].op
        /\ req'[t].target = req[t].target /\ req'[t].clone = req[t].clone
    BY <1>5, <1>8
  <2>2. /\ InFlight(u)
        /\ req'[u].target = req[u].target /\ req'[u].clone = req[u].clone
    BY <1>5, <1>8
  <2>3. Apart(req[t], req[u])
    BY <1>8, <2>1, <2>2 DEF MissionsInv
  <2> QED  BY <2>1, <2>2, <2>3 DEF Apart
<1> QED  BY <1>6, <1>7, <1>8 DEF MissionsInv

-----------------------------------------------------------------------------
(* The invariant *)

LEMMA NextKeeps == MissionsInv /\ [Next]_vars => MissionsInv'
<1> SUFFICES ASSUME MissionsInv, [Next]_vars
             PROVE  MissionsInv'
  OBVIOUS
<1> USE MissionsAssumption
<1>1. /\ \A m \in Ids : missions[m] # None => missions[m] \in Mission
      /\ None \notin Mission
  BY DEF MissionsInv, MissionsTypeOK
<1>2. ASSUME NEW s \in Slots, NEW m \in Ids, NEW inspector \in Inspectors,
             NEW approval \in BOOLEAN, CreateMission(s, m, inspector, approval)
      PROVE  MissionsInv'
  <2> DEFINE object == [status |-> FirstStatus(approval), inspector |-> inspector,
                        requiresApproval |-> approval, previous |-> None]
  <2>1. object \in Mission /\ object.previous = None
    BY DEF Mission, FirstStatus, MissionStatus
  <2>2. m \in FreshIds /\ missions[m] = None
    BY <1>2 DEF CreateMission, FreshIds
  <2>3. Begin(s, "create", m, object, None, None)
    BY <1>2 DEF CreateMission, NewMission
  <2>4. KnowsItsMission([pc |-> "save", op |-> "create", target |-> m,
                         object |-> object, base |-> None, clone |-> None,
                         heir |-> None, overlapped |-> FALSE])
    BY <1>1, <2>1, <2>2 DEF KnowsItsMission
  <2> HIDE DEF object
  <2> QED  BY <2>1, <2>2, <2>3, <2>4, BeginKeeps DEF Op
<1>3. ASSUME NEW s \in Slots, NEW m \in Ids, NEW op \in Op \ {"create", "reassign"},
             NEW object \in Mission \cup {None}, missions[m] # None,
             object # None => SameLineage(object, missions[m]),
             op = "set_status" => object # None,
             Begin(s, op, m, object, None, None)
      PROVE  MissionsInv'
  <2>1. KnowsItsMission([pc |-> "save", op |-> op, target |-> m,
                         object |-> object, base |-> None, clone |-> None,
                         heir |-> None, overlapped |-> FALSE])
    BY <1>3 DEF KnowsItsMission
  <2> QED  BY <1>3, <2>1, BeginKeeps
<1>4. ASSUME NEW m \in Ids, missions[m] # None, NEW status \in MissionStatus
      PROVE  /\ [missions[m] EXCEPT !.status = status] \in Mission
             /\ SameLineage([missions[m] EXCEPT !.status = status], missions[m])
  BY <1>1, <1>4 DEF Mission, SameLineage
<1>5. ASSUME NEW s \in Slots, NEW m \in Ids, ApproveMission(s, m)
      PROVE  MissionsInv'
  <2>1. "planned" \in MissionStatus /\ "approve" \in Op \ {"create", "reassign"}
    BY DEF MissionStatus, Op
  <2> QED  BY <1>1, <1>3, <1>4, <1>5, <2>1 DEF ApproveMission, Approved
<1>6. ASSUME NEW s \in Slots, NEW m \in Ids, CancelMission(s, m)
      PROVE  MissionsInv'
  <2>1. "cancelled" \in MissionStatus /\ "cancel" \in Op \ {"create", "reassign"}
    BY DEF MissionStatus, Op
  <2> QED  BY <1>1, <1>3, <1>4, <1>6, <2>1 DEF CancelMission, Cancelled
<1>7. ASSUME NEW s \in Slots, NEW m \in Ids, NEW status \in EditStatuses,
             UpdateMission(s, m, status)
      PROVE  MissionsInv'
  <2> DEFINE written == IF status = None THEN missions[m].status ELSE status
             op == IF status = None THEN "edit" ELSE "set_status"
  <2>1. written \in MissionStatus /\ op \in Op \ {"create", "reassign"}
    BY <1>1, <1>7 DEF UpdateMission, Op, Mission
  <2>2. Begin(s, op, m, [missions[m] EXCEPT !.status = written], None, None)
    BY <1>7 DEF UpdateMission
  <2>3. missions[m] # None
    BY <1>7 DEF UpdateMission
  <2> HIDE DEF written, op
  <2> QED  BY <1>1, <1>3, <1>4, <2>1, <2>2, <2>3
<1>8. ASSUME NEW s \in Slots, NEW m \in Ids, NEW inspector \in Inspectors,
             NEW clone \in Ids, ReassignInspector(s, m, inspector, clone)
      PROVE  MissionsInv'
  <2> DEFINE object == Abandoned(missions[m], inspector)
             heir == [status |-> "planned", inspector |-> inspector,
                      requiresApproval |-> FALSE, previous |-> m]
  <2>1. missions[m] # None /\ clone \in FreshIds /\ missions[clone] = None
    BY <1>8 DEF ReassignInspector, FreshIds
  <2>2. object \in Mission /\ SameLineage(object, missions[m])
    BY <1>4, <2>1 DEF Abandoned, MissionStatus
  <2>3. heir \in Mission /\ heir.previous = m
    BY DEF Mission, MissionStatus
  <2>4. Begin(s, "reassign", m, object, clone, heir)
    BY <1>8 DEF ReassignInspector, Heir
  <2> HIDE DEF object, heir
  <2>5. KnowsItsMission([pc |-> "save", op |-> "reassign", target |-> m,
                         object |-> object, base |-> None, clone |-> clone,
                         heir |-> heir, overlapped |-> FALSE])
    BY <1>1, <2>1, <2>2, <2>3 DEF KnowsItsMission
  <2> QED  BY <2>1, <2>2, <2>3, <2>4, <2>5, BeginKeeps DEF Op
<1>9. ASSUME NEW s \in Slots, NEW m \in Ids, SubmitMissionOutcome(s, m)
      PROVE  MissionsInv'
  <2>1. "outcome" \in Op \ {"create", "reassign"}
    BY DEF Op
  <2> QED  BY <1>3, <1>9, <2>1 DEF SubmitMissionOutcome
<1>10. ASSUME NEW s \in Slots, Save(s)
       PROVE  MissionsInv'
  <2>1. /\ req[s] \in Request /\ req[s] # Idle /\ req[s].target \in Ids
        /\ req[s].pc = "save" /\ InFlight(s)
        /\ missions \in [Ids -> Mission \cup {None}]
        /\ req \in [Slots -> Request]
    BY <1>10 DEF Save, MissionsInv, MissionsTypeOK, Request, Idle, InFlight
  <2>2. /\ req'[s] = [req[s] EXCEPT !.pc = "commit", !.base = missions[req[s].target]]
        /\ \A t \in Slots \ {s} : req'[t] = req[t]
        /\ req' = [req EXCEPT ![s] = req'[s]]
    BY <1>10, <2>1 DEF Save
  <2>3. /\ req'[s] \in Request
        /\ req'[s].pc = "commit" /\ req'[s].base = missions[req[s].target]
        /\ req'[s].op = req[s].op /\ req'[s].target = req[s].target
        /\ req'[s].object = req[s].object /\ req'[s].clone = req[s].clone
        /\ req'[s].heir = req[s].heir
    <3> DEFINE old == req[s]
               base == missions[req[s].target]
               new == [old EXCEPT !.pc = "commit", !.base = base]
    <3>1. old \in Request /\ old # Idle /\ base \in Mission \cup {None} /\ req'[s] = new
      BY <2>1, <2>2
    <3> HIDE DEF old, base
    <3>2. new \in Request
      BY <3>1 DEF Request
    <3>3. /\ new.pc = "commit" /\ new.base = base /\ new.op = old.op
          /\ new.target = old.target /\ new.object = old.object
          /\ new.clone = old.clone /\ new.heir = old.heir
      BY <3>1 DEF Request
    <3> QED BY <3>1, <3>2, <3>3 DEF old, base
  <2>4. req' \in [Slots -> Request]
    BY <2>1, <2>2, <2>3
  <2>5. missions' = missions /\ outcomes' = outcomes /\ audit' = audit /\ said' = said
    BY <1>10 DEF Save
  <2>6. MissionsTypeOK'
    BY <2>4, <2>5 DEF MissionsInv, MissionsTypeOK
  <2>7. KnowsItsMission(req'[s])
    BY <2>1, <2>3 DEF MissionsInv, KnowsItsMission
  <2>8. \A t \in Slots : InFlight(t)' => KnowsItsMission(req[t])'
    <3> SUFFICES ASSUME NEW t \in Slots, InFlight(t)'
                 PROVE  KnowsItsMission(req[t])'
      OBVIOUS
    <3>1. CASE t = s
      BY <2>5, <2>7, <3>1 DEF KnowsItsMission
    <3>2. CASE t # s
      <4>1. req'[t] = req[t] /\ InFlight(t)
        BY <2>2, <3>2 DEF InFlight
      <4>2. KnowsItsMission(req[t])
        BY <4>1 DEF MissionsInv
      <4> QED  BY <2>5, <4>1, <4>2 DEF KnowsItsMission
    <3> QED  BY <3>1, <3>2
  <2>9. \A t, u \in Slots : t # u /\ InFlight(t)' /\ InFlight(u)' =>
                               Apart(req[t], req[u])'
    <3> SUFFICES ASSUME NEW t \in Slots, NEW u \in Slots, t # u,
                        InFlight(t)', InFlight(u)'
                 PROVE  Apart(req'[t], req'[u])
      BY DEF Apart
    <3>1. \A x \in {t, u} : /\ InFlight(x) /\ req'[x].op = req[x].op
                            /\ req'[x].target = req[x].target
                            /\ req'[x].clone = req[x].clone
      BY <2>1, <2>2, <2>3 DEF InFlight
    <3>2. Apart(req[t], req[u])
      BY <3>1 DEF MissionsInv
    <3> QED  BY <3>1, <3>2 DEF Apart
  <2> QED  BY <2>6, <2>8, <2>9 DEF MissionsInv
<1>11. ASSUME NEW s \in Slots, RollBack(s)
       PROVE  MissionsInv'
  <2>1. MissionsTypeOK'
    BY <1>11 DEF RollBack, MissionsInv, MissionsTypeOK, Request
  <2>2. /\ missions' = missions /\ ~InFlight(s)'
        /\ \A t \in Slots \ {s} : req'[t] = req[t]
    BY <1>11 DEF RollBack, InFlight, Idle, MissionsInv, MissionsTypeOK
  <2> QED  BY <2>1, <2>2 DEF MissionsInv, InFlight, KnowsItsMission
<1>12. CASE UNCHANGED vars
  BY <1>12 DEF vars, MissionsInv, MissionsTypeOK, InFlight, KnowsItsMission
<1> QED  BY <1>2, <1>5, <1>6, <1>7, <1>8, <1>9, <1>10, <1>11, <1>12, CommitKeeps
         DEF Next

LEMMA Invariant == Spec => []MissionsInv
BY InitInv, NextKeeps, PTL DEF Spec

-----------------------------------------------------------------------------
(* Theorems *)

\* Every reachable state is well typed, for any slots, ids and inspectors.
THEOREM MissionsTypeCorrect == Spec => []MissionsTypeOK
BY Invariant, PTL DEF MissionsInv

\* A mission never has two reports, however many are sent at once: the unique
\* constraint is tested in the instant of the commit (SubmitMissionOutcome).
THEOREM OneOutcomeEach == Spec => []OneOutcome
<1>1. Init => OneOutcome
  BY DEF Init, OneOutcome
<1>2. MissionsInv /\ OneOutcome /\ [Next]_vars => OneOutcome'
  <2> SUFFICES ASSUME MissionsInv, OneOutcome, [Next]_vars, NEW m \in Ids
               PROVE  outcomes'[m] <= 1
    BY DEF OneOutcome
  <2>1. ASSUME NEW s \in Slots, Commit(s)
        PROVE  outcomes'[m] <= 1
    <3>1. outcomes' = [outcomes EXCEPT ![req[s].target] =
                          @ + IF req[s].op = "outcome" THEN 1 ELSE 0]
      BY <2>1 DEF Commit
    <3>2. req[s].op = "outcome" => ~(outcomes[req[s].target] > 0)
      BY <2>1 DEF Commit, OutcomeTaken
    <3>3. outcomes \in [Ids -> Nat] /\ outcomes[m] <= 1
      BY DEF MissionsInv, MissionsTypeOK, OneOutcome
    <3> QED  BY <3>1, <3>2, <3>3
  <2>2. CASE outcomes' = outcomes
    BY <2>2 DEF OneOutcome
  <2>3. outcomes' = outcomes \/ \E s \in Slots : Commit(s)
    <3>1. \A s, op, n, object, clone, heir :
              Begin(s, op, n, object, clone, heir) => outcomes' = outcomes
      BY DEF Begin
    <3>2. /\ \A s, n, inspector, approval :
                 CreateMission(s, n, inspector, approval) => outcomes' = outcomes
          /\ \A s, n : \/ ApproveMission(s, n) \/ CancelMission(s, n)
                       \/ SubmitMissionOutcome(s, n)
                       => outcomes' = outcomes
      BY <3>1 DEF CreateMission, ApproveMission, CancelMission, SubmitMissionOutcome
    <3>3. /\ \A s, n, status : UpdateMission(s, n, status) => outcomes' = outcomes
          /\ \A s, n, i, clone : ReassignInspector(s, n, i, clone) => outcomes' = outcomes
      BY <3>1 DEF UpdateMission, ReassignInspector
    <3>4. \A s : Save(s) \/ RollBack(s) => outcomes' = outcomes
      BY DEF Save, RollBack
    <3>5. UNCHANGED vars => outcomes' = outcomes
      BY DEF vars
    <3> QED BY <3>2, <3>3, <3>4, <3>5 DEF Next
  <2> QED  BY <2>1, <2>2, <2>3
<1> QED  BY <1>1, <1>2, Invariant, PTL DEF Spec

\* What the operations demand of the mission they read, and that an edition
\* without a status leaves the status alone.
Allowed(q) ==
    /\ q.op = "approve" => missions[q.target].status = "draft"
    /\ q.op = "cancel" => missions[q.target].status # "completed"
    /\ q.op = "reassign" => missions[q.target].status \notin {"completed", "cancelled"}
    /\ q.op = "edit" => q.object.status = missions[q.target].status

\* What the operations put in the object of a request that has just begun.
Begun(q) ==
    /\ Allowed(q)
    /\ q.heir # None => q.heir.status = "planned" /\ ~q.heir.requiresApproval
    /\ \/ /\ q.op = "create"
          /\ \/ q.object.status = "planned" /\ ~q.object.requiresApproval
             \/ q.object.status = "draft"
       \/ q.op = "approve" /\ q.object.status = "planned"
       \/ q.op \in {"cancel", "reassign"} /\ q.object.status = "cancelled"
       \/ q.op \in {"edit", "set_status"}
       \/ q.op = "outcome" /\ q.object = None

\* A request in flight was in flight with the same content, or has just begun.
LEMMA Origin ==
    ASSUME MissionsInv, Next, NEW t \in Slots, InFlight(t)'
    PROVE  \/ /\ InFlight(t)
              /\ req'[t].op = req[t].op /\ req'[t].target = req[t].target
              /\ req'[t].object = req[t].object /\ req'[t].heir = req[t].heir
              /\ ~req'[t].overlapped =>
                    /\ ~req[t].overlapped
                    /\ missions'[req[t].target] = missions[req[t].target]
           \/ missions' = missions /\ audit' = audit /\ said' = said /\ Begun(req'[t])
<1>1. /\ req \in [Slots -> Request]
      /\ \A m \in Ids : missions[m] # None => missions[m] \in Mission
      /\ None \notin MissionStatus
  BY MissionsAssumption DEF MissionsInv, MissionsTypeOK
<1>2. ASSUME NEW s \in Slots, NEW op, NEW m, NEW object, NEW clone, NEW heir,
             Begin(s, op, m, object, clone, heir), t # s
      PROVE  req'[t] = req[t]
  BY <1>1, <1>2 DEF Begin
<1>3. ASSUME NEW op, NEW m, NEW object, NEW clone, NEW heir,
             Begin(t, op, m, object, clone, heir)
      PROVE  /\ missions' = missions /\ audit' = audit /\ said' = said
             /\ req'[t].op = op /\ req'[t].target = m
             /\ req'[t].object = object /\ req'[t].heir = heir
  BY <1>1, <1>3 DEF Begin
<1>4. ASSUME NEW s \in Slots, NEW m \in Ids, NEW inspector \in Inspectors,
             NEW approval \in BOOLEAN, CreateMission(s, m, inspector, approval), t = s
      PROVE  missions' = missions /\ audit' = audit /\ said' = said /\ Begun(req'[t])
  <2> DEFINE object == [status |-> FirstStatus(approval), inspector |-> inspector,
                        requiresApproval |-> approval, previous |-> None]
  <2>1. Begin(t, "create", m, object, None, None)
    BY <1>4 DEF CreateMission, NewMission
  <2>2. \/ object.status = "planned" /\ ~object.requiresApproval
        \/ object.status = "draft"
    BY DEF FirstStatus
  <2> HIDE DEF object
  <2> QED  BY <1>3, <2>1, <2>2 DEF Begun, Allowed
<1>5. ASSUME NEW m \in Ids, NEW status, missions[m] # None
      PROVE  [missions[m] EXCEPT !.status = status].status = status
  BY <1>1, <1>5 DEF Mission
<1>6. ASSUME NEW s \in Slots, NEW m \in Ids, ApproveMission(s, m), t = s
      PROVE  missions' = missions /\ audit' = audit /\ said' = said /\ Begun(req'[t])
  <2> DEFINE object == [missions[m] EXCEPT !.status = "planned"]
  <2>1. missions[m] # None /\ Begin(t, "approve", m, object, None, None)
    BY <1>6 DEF ApproveMission, Approved
  <2>2. object.status = "planned"
    BY <1>5, <2>1
  <2>3. missions[m].status = "draft"
    BY <1>6 DEF ApproveMission, Approvable
  <2> HIDE DEF object
  <2> QED  BY <1>3, <2>1, <2>2, <2>3 DEF Begun, Allowed
<1>7. ASSUME NEW s \in Slots, NEW m \in Ids, CancelMission(s, m), t = s
      PROVE  missions' = missions /\ audit' = audit /\ said' = said /\ Begun(req'[t])
  <2> DEFINE object == [missions[m] EXCEPT !.status = "cancelled"]
  <2>1. missions[m] # None /\ Begin(t, "cancel", m, object, None, None)
    BY <1>7 DEF CancelMission, Cancelled
  <2>2. object.status = "cancelled"
    BY <1>5, <2>1
  <2>3. missions[m].status # "completed"
    BY <1>7 DEF CancelMission, Cancellable
  <2> HIDE DEF object
  <2> QED  BY <1>3, <2>1, <2>2, <2>3 DEF Begun, Allowed
<1>8. ASSUME NEW s \in Slots, NEW m \in Ids, NEW status \in EditStatuses,
             UpdateMission(s, m, status), t = s
      PROVE  missions' = missions /\ audit' = audit /\ said' = said /\ Begun(req'[t])
  <2> DEFINE written == IF status = None THEN missions[m].status ELSE status
  <2> DEFINE object == [missions[m] EXCEPT !.status = written]
  <2> DEFINE op == IF status = None THEN "edit" ELSE "set_status"
  <2>1. missions[m] # None /\ Begin(t, op, m, object, None, None)
    BY <1>8 DEF UpdateMission
  <2>2. /\ op \in {"edit", "set_status"}
        /\ op = "edit" => written = missions[m].status
    OBVIOUS
  <2> HIDE DEF written, op
  <2>3. object.status = written
    BY <1>5, <2>1
  <2> HIDE DEF object
  <2> QED  BY <1>3, <2>1, <2>2, <2>3 DEF Begun, Allowed
<1>9. ASSUME NEW s \in Slots, NEW m \in Ids, NEW inspector \in Inspectors,
             NEW clone \in Ids, ReassignInspector(s, m, inspector, clone), t = s
      PROVE  missions' = missions /\ audit' = audit /\ said' = said /\ Begun(req'[t])
  <2> DEFINE object == [missions[m] EXCEPT !.status = "cancelled"]
             heir == [status |-> "planned", inspector |-> inspector,
                      requiresApproval |-> FALSE, previous |-> m]
  <2>1. missions[m] # None /\ Begin(t, "reassign", m, object, clone, heir)
    BY <1>9 DEF ReassignInspector, Abandoned, Heir
  <2>2. object.status = "cancelled"
    BY <1>5, <2>1
  <2>3. heir.status = "planned" /\ ~heir.requiresApproval
    OBVIOUS
  <2>4. missions[m].status \notin {"completed", "cancelled"}
    BY <1>9 DEF ReassignInspector, Reassignable
  <2> HIDE DEF object, heir
  <2> QED  BY <1>3, <2>1, <2>2, <2>3, <2>4 DEF Begun, Allowed
<1>10. ASSUME NEW s \in Slots, NEW m \in Ids, SubmitMissionOutcome(s, m), t = s
       PROVE  missions' = missions /\ audit' = audit /\ said' = said /\ Begun(req'[t])
  <2>1. Begin(t, "outcome", m, None, None, None)
    BY <1>10 DEF SubmitMissionOutcome
  <2> QED  BY <1>3, <2>1 DEF Begun, Allowed
<1>11. ASSUME NEW s \in Slots, Save(s) \/ Commit(s) \/ RollBack(s)
       PROVE  /\ InFlight(t)
              /\ req'[t].op = req[t].op /\ req'[t].target = req[t].target
              /\ req'[t].object = req[t].object /\ req'[t].heir = req[t].heir
              /\ ~req'[t].overlapped =>
                    /\ ~req[t].overlapped
                    /\ missions'[req[t].target] = missions[req[t].target]
  <2>1. CASE Save(s)
    BY <1>1, <2>1 DEF Save, InFlight, Request, Idle
  <2>2. CASE Commit(s)
    <3> DEFINE changed == missions'[req[t].target] # missions[req[t].target]
    <3>1. req'[t] = IF t = s THEN Idle
                    ELSE IF req[t].pc = "idle" THEN req[t]
                    ELSE [req[t] EXCEPT !.overlapped = @ \/ changed]
      BY <2>2 DEF Commit
    <3>2. InFlight(t) /\ req'[t] = [req[t] EXCEPT !.overlapped = @ \/ changed]
      BY <3>1 DEF InFlight, Idle
    <3>3. changed \in BOOLEAN
      OBVIOUS
    <3> HIDE DEF changed
    <3>4. /\ InFlight(t) /\ req'[t].op = req[t].op /\ req'[t].target = req[t].target
          /\ req'[t].object = req[t].object /\ req'[t].heir = req[t].heir
          /\ req'[t].overlapped = (req[t].overlapped \/ changed)
      BY <1>1, <3>2, <3>3 DEF InFlight, Request, Idle
    <3> QED  BY <3>4 DEF changed
  <2>3. CASE RollBack(s)
    BY <1>1, <2>3 DEF RollBack, InFlight, Request, Idle
  <2> QED  BY <1>11, <2>1, <2>2, <2>3
<1>12. ASSUME NEW s \in Slots, NEW m \in Ids, t # s,
              \/ \E inspector \in Inspectors, approval \in BOOLEAN :
                    CreateMission(s, m, inspector, approval)
              \/ ApproveMission(s, m)
              \/ CancelMission(s, m)
              \/ \E status \in EditStatuses : UpdateMission(s, m, status)
              \/ \E inspector \in Inspectors, clone \in Ids :
                    ReassignInspector(s, m, inspector, clone)
              \/ SubmitMissionOutcome(s, m)
       PROVE  req'[t] = req[t] /\ missions' = missions
  BY <1>2, <1>12 DEF CreateMission, ApproveMission, CancelMission, UpdateMission,
                     ReassignInspector, SubmitMissionOutcome, Begin
<1>13. ASSUME req'[t] = req[t], missions' = missions
       PROVE  /\ InFlight(t)
              /\ req'[t].op = req[t].op /\ req'[t].target = req[t].target
              /\ req'[t].object = req[t].object /\ req'[t].heir = req[t].heir
              /\ ~req'[t].overlapped =>
                    /\ ~req[t].overlapped
                    /\ missions'[req[t].target] = missions[req[t].target]
  BY <1>13 DEF InFlight
<1> QED  BY <1>4, <1>6, <1>7, <1>8, <1>9, <1>10, <1>11, <1>12, <1>13 DEF Next

\* Only a commit writes the tables.
LEMMA OnlyCommitsWrite ==
    ASSUME Next
    PROVE  \/ missions' = missions /\ audit' = audit /\ said' = said
           \/ \E s \in Slots : Commit(s)
BY DEF Next, CreateMission, ApproveMission, CancelMission, UpdateMission,
       ReassignInspector, SubmitMissionOutcome, Begin, Save, RollBack

\* Whatever stale objects are saved, and for any number of requests: a mission
\* that required an approval is planned only after one was logged or after an
\* edition gave it that status (create_mission, ApproveMission, UpdateMission).
THEOREM ApprovalPrecedesPlanning == Spec => []PlannedWasApproved
<1> DEFINE Needs(mission) ==
               mission # None /\ mission.status = "planned" /\ mission.requiresApproval
           Vouched(m) == <<"approve", m>> \in audit \/ <<"planned", m>> \in said
           Pending ==
               \A t \in Slots : InFlight(t) =>
                   /\ req[t].op \notin {"approve", "set_status"} /\ Needs(req[t].object)
                         => Vouched(req[t].target)
                   /\ ~Needs(req[t].heir)
<1>1. Init => PlannedWasApproved /\ Pending
  BY DEF Init, PlannedWasApproved, InFlight, Idle
<1>2. MissionsInv /\ PlannedWasApproved /\ Pending /\ [Next]_vars
        => PlannedWasApproved' /\ Pending'
  <2> SUFFICES ASSUME MissionsInv, PlannedWasApproved, Pending, Next
               PROVE  PlannedWasApproved' /\ Pending'
    BY DEF vars, PlannedWasApproved, InFlight
  <2>1. audit \subseteq audit' /\ said \subseteq said'
    BY OnlyCommitsWrite DEF Commit
  <2>2. ASSUME NEW s \in Slots, Commit(s), NEW m \in Ids, Needs(missions'[m])
        PROVE  Vouched(m)'
    <3> DEFINE q == req[s]
    <3>1. InFlight(s) /\ KnowsItsMission(q) /\ q.target \in Ids
      BY <2>2, CommitWrites DEF Commit, InFlight
    <3>2. audit' = audit \cup AuditOf(q) /\ said' = said \cup SaidBy(q)
      BY <2>2 DEF Commit
    <3>3. CASE m = q.target /\ q.op = "approve"
      <4>1. <<"approve", m>> \in audit'
        BY <3>2, <3>3 DEF AuditOf, AuditedOp
      <4> QED  BY <4>1
    <3>4. ASSUME m = q.target, Needs(q.object)
          PROVE  Vouched(m)'
      <4>1. CASE q.op = "set_status"
        <5>1. <<"planned", m>> \in said'
          BY <3>2, <3>4, <4>1 DEF SaidBy
        <5> QED  BY <5>1
      <4>2. CASE q.op \notin {"approve", "set_status"}
        BY <2>1, <3>1, <3>4, <4>2
      <4> QED  BY <3>3, <3>4, <4>1, <4>2
    <3>5. CASE m # q.target /\ m # q.clone
      BY <2>1, <2>2, <3>5, CommitWrites DEF PlannedWasApproved
    <3>6. CASE m # q.target /\ m = q.clone
      <4>1. q.clone # None
        BY <3>6, MissionsAssumption
      <4>2. missions'[m] = q.heir
        BY <2>2, <3>6, <4>1, CommitWrites
      <4> QED  BY <2>2, <3>1, <4>2
    <3>7. CASE m = q.target /\ q.op = "create"
      BY <2>2, <3>4, <3>7, CommitWrites
    <3>8. CASE m = q.target /\ q.op # "create"
      <4>1. /\ missions'[m].requiresApproval = missions[m].requiresApproval
            /\ missions[m] # None
            /\ \/ missions'[m].status = missions[m].status
               \/ q.object # None /\ missions'[m].status = q.object.status
            /\ q.object # None =>
                  q.object.requiresApproval = missions[m].requiresApproval
        BY <2>2, <3>1, <3>8, CommitWrites DEF KnowsItsMission, SameLineage
      <4>2. CASE missions'[m].status = missions[m].status
        BY <2>1, <2>2, <4>1, <4>2 DEF PlannedWasApproved
      <4>3. CASE q.object # None /\ missions'[m].status = q.object.status
        <5>1. Needs(q.object)
          BY <2>2, <4>1, <4>3
        <5> QED  BY <3>4, <3>8, <5>1
      <4> QED  BY <4>1, <4>2, <4>3
    <3> QED  BY <3>5, <3>6, <3>7, <3>8
  <2>3. PlannedWasApproved'
    <3>1. CASE missions' = missions /\ audit' = audit /\ said' = said
      BY <3>1 DEF PlannedWasApproved
    <3> QED  BY <2>2, <3>1, OnlyCommitsWrite DEF PlannedWasApproved
  <2>4. ASSUME NEW t \in Slots, InFlight(t)'
        PROVE  /\ req'[t].op \notin {"approve", "set_status"} /\ Needs(req'[t].object)
                     => Vouched(req[t].target)'
               /\ ~Needs(req'[t].heir)
    <3>1. CASE /\ InFlight(t)
               /\ req'[t].op = req[t].op /\ req'[t].target = req[t].target
               /\ req'[t].object = req[t].object /\ req'[t].heir = req[t].heir
      BY <2>1, <3>1
    <3>2. CASE missions' = missions /\ audit' = audit /\ said' = said /\ Begun(req'[t])
      <4>1. MissionsInv'
        BY NextKeeps
      <4>2. /\ KnowsItsMission(req[t])'
            /\ req'[t] \in Request /\ req'[t] # Idle
        BY <2>4, <4>1 DEF MissionsInv, MissionsTypeOK, InFlight, Idle
      <4>3. req'[t].target \in Ids
        BY <4>2 DEF Request
      <4>4. ~Needs(req'[t].heir)
        BY <3>2 DEF Begun
      <4>5. ASSUME req'[t].op = "edit", Needs(req'[t].object)
            PROVE  Vouched(req[t].target)'
        <5>1. /\ missions[req'[t].target] # None
              /\ req'[t].object.requiresApproval
                   = missions[req'[t].target].requiresApproval
          BY <3>2, <4>2, <4>5 DEF KnowsItsMission, SameLineage
        <5>2. req'[t].object.status = missions[req'[t].target].status
          BY <3>2, <4>5 DEF Begun, Allowed
        <5> QED  BY <3>2, <4>3, <4>5, <5>1, <5>2 DEF PlannedWasApproved
      <4>6. req'[t].op \notin {"approve", "edit", "set_status"}
               => ~Needs(req'[t].object)
        BY <3>2 DEF Begun
      <4> QED  BY <4>4, <4>5, <4>6
    <3> QED  BY <2>4, <3>1, <3>2, Origin
  <2>5. Pending'
    BY <2>4 DEF InFlight
  <2> QED  BY <2>3, <2>5
<1> QED  BY <1>1, <1>2, Invariant, PTL DEF Spec

\* A mission is never handed over in place, whatever stale objects are saved:
\* inspector, need of an approval and origin never change (ReassignInspector).
THEOREM LineageNeverChanges == Spec => LineageIsFixed
<1> DEFINE Kept(m) ==
        /\ missions[m] # None =>
              /\ missions'[m].inspector = missions[m].inspector
              /\ missions'[m].requiresApproval = missions[m].requiresApproval
              /\ missions'[m].previous = missions[m].previous
        /\ missions'[m] # None /\ missions'[m].previous # None =>
              missions'[missions'[m].previous] # None
    Rooted == \A m \in Ids : missions[m] # None /\ missions[m].previous # None =>
                                missions[missions[m].previous] # None
<1>1. Init => Rooted
  BY DEF Init
<1>2. MissionsInv /\ Rooted /\ [Next]_vars => Rooted' /\ [\A m \in Ids : Kept(m)]_vars
  <2> SUFFICES ASSUME MissionsInv, Rooted, Next
               PROVE  \A m \in Ids : Kept(m)
    BY DEF vars
  <2>1. CASE missions' = missions
    BY <2>1
  <2>2. ASSUME NEW s \in Slots, Commit(s), NEW m \in Ids
        PROVE  Kept(m)
    <3> DEFINE q == req[s]
    <3>1. KnowsItsMission(q) /\ q.target \in Ids
      BY <2>2, CommitWrites
    <3>2. ASSUME NEW k \in Ids, missions[k] # None
          PROVE  missions'[k] # None /\ SameLineage(missions'[k], missions[k])
      BY <2>2, <3>2, RowsStay
    <3>3. missions'[q.target] # None
      <4>1. CASE q.op = "create"
        BY <2>2, <3>1, <4>1, CommitWrites DEF KnowsItsMission
      <4>2. CASE q.op # "create"
        BY <3>1, <3>2, <4>2 DEF KnowsItsMission
      <4> QED  BY <4>1, <4>2
    <3>4. ASSUME missions[m] = None, missions'[m] # None, missions'[m].previous # None
          PROVE  missions'[m].previous = q.target
      <4>1. m = q.target \/ m = q.clone
        BY <2>2, <3>4, CommitWrites
      <4>2. CASE m = q.target
        BY <2>2, <3>1, <3>4, <4>2, CommitWrites DEF KnowsItsMission
      <4>3. CASE m = q.clone
        <5>1. q.clone # None
          BY <4>3, MissionsAssumption
        <5> QED  BY <2>2, <3>1, <4>3, <5>1, CommitWrites DEF KnowsItsMission
      <4> QED  BY <4>1, <4>2, <4>3
    <3>5. CASE missions[m] = None
      BY <3>3, <3>4, <3>5
    <3>6. CASE missions[m] # None
      <4>1. missions'[m] # None /\ SameLineage(missions'[m], missions[m])
        BY <3>2, <3>6
      <4>2. missions[m].previous \in Ids \cup {None}
        BY <3>6 DEF MissionsInv, MissionsTypeOK, Mission
      <4>3. missions[m].previous # None => missions[missions[m].previous] # None
        BY <3>6
      <4>4. missions[m].previous # None => missions'[missions[m].previous] # None
        BY <3>2, <4>2, <4>3
      <4> QED  BY <4>1, <4>4 DEF SameLineage
    <3> QED  BY <3>5, <3>6
  <2> QED  BY <2>1, <2>2, OnlyCommitsWrite
<1> QED  BY <1>1, <1>2, Invariant, PTL DEF Spec, LineageIsFixed

\* Whatever stale objects are saved: a mission is cancelled only if a logged
\* cancellation or an edition cancelled it, or it has an heir; the two halves
\* of a reassignment stay together (CancelMission, UpdateMission,
\* ReassignInspector).
THEOREM CancellationIsExplained == Spec => []CancelledIsExplained
<1> DEFINE Explained(m) ==
               \/ <<"cancel", m>> \in audit
               \/ \E h \in Ids : missions[h] # None /\ missions[h].previous = m
               \/ <<"cancelled", m>> \in said
           Drops(mission) == mission # None /\ mission.status = "cancelled"
           Pending ==
               \A t \in Slots : InFlight(t) =>
                   /\ req[t].op \notin {"cancel", "reassign", "set_status"}
                         /\ Drops(req[t].object)
                         => Explained(req[t].target)
                   /\ ~Drops(req[t].heir)
<1>1. Init => CancelledIsExplained /\ Pending
  BY DEF Init, CancelledIsExplained, InFlight, Idle
<1>2. MissionsInv /\ CancelledIsExplained /\ Pending /\ [Next]_vars
        => CancelledIsExplained' /\ Pending'
  <2> SUFFICES ASSUME MissionsInv, CancelledIsExplained, Pending, Next
               PROVE  CancelledIsExplained' /\ Pending'
    BY DEF vars, CancelledIsExplained, InFlight
  <2>1. \A m \in Ids : Explained(m) => Explained(m)'
    <3>1. CASE missions' = missions /\ audit' = audit /\ said' = said
      BY <3>1
    <3>2. ASSUME NEW s \in Slots, Commit(s)
          PROVE  \A m \in Ids : Explained(m) => Explained(m)'
      <4>1. audit \subseteq audit' /\ said \subseteq said'
        BY <3>2 DEF Commit
      <4>2. \A h \in Ids : missions[h] # None =>
               missions'[h] # None /\ missions'[h].previous = missions[h].previous
        BY <3>2, RowsStay DEF SameLineage
      <4> QED  BY <4>1, <4>2
    <3> QED  BY <3>1, <3>2, OnlyCommitsWrite
  <2>2. ASSUME NEW s \in Slots, Commit(s), NEW m \in Ids, Drops(missions'[m])
        PROVE  Explained(m)'
    <3> DEFINE q == req[s]
    <3>1. InFlight(s) /\ KnowsItsMission(q) /\ q.target \in Ids
      BY <2>2, CommitWrites DEF Commit, InFlight
    <3>2. audit' = audit \cup AuditOf(q) /\ said' = said \cup SaidBy(q)
      BY <2>2 DEF Commit
    <3>3. q.clone \in Ids \cup {None}
      BY <3>1 DEF MissionsInv, MissionsTypeOK, Request, Idle, InFlight
    <3>4. Drops(missions[m]) => Explained(m)'
      BY <2>1 DEF CancelledIsExplained
    <3>5. CASE m # q.target /\ m # q.clone
      BY <2>2, <3>4, <3>5, CommitWrites
    <3>6. CASE m # q.target /\ m = q.clone
      <4>1. q.clone # None
        BY <3>6, MissionsAssumption
      <4>2. missions'[m] = q.heir
        BY <2>2, <3>6, <4>1, CommitWrites
      <4> QED  BY <2>2, <3>1, <4>2
    <3>7. CASE m = q.target /\ q.op = "cancel"
      <4>1. <<"cancel", m>> \in audit'
        BY <3>2, <3>7 DEF AuditOf, AuditedOp
      <4> QED  BY <4>1
    <3>8. CASE m = q.target /\ q.op = "reassign"
      <4>1. /\ q.clone \in Ids /\ q.heir # None /\ q.heir.previous = m
            /\ missions'[q.clone] = q.heir
        BY <2>2, <3>1, <3>3, <3>8, CommitWrites DEF KnowsItsMission
      <4> QED  BY <4>1
    <3>9. CASE m = q.target /\ q.op \notin {"cancel", "reassign"}
      <4>1. q.op = "set_status" /\ Drops(q.object) => <<"cancelled", m>> \in said'
        BY <3>2, <3>9 DEF SaidBy
      <4>2. Drops(q.object) => Explained(m)'
        BY <2>1, <3>1, <3>9, <4>1
      <4>3. CASE q.op = "create"
        BY <2>2, <3>9, <4>2, <4>3, CommitWrites
      <4>4. CASE q.op # "create"
        <5>1. /\ missions[m] # None
              /\ \/ missions'[m].status = missions[m].status
                 \/ q.object # None /\ missions'[m].status = q.object.status
          BY <2>2, <3>1, <3>9, <4>4, CommitWrites DEF KnowsItsMission
        <5> QED  BY <2>2, <3>4, <4>2, <5>1
      <4> QED  BY <4>3, <4>4
    <3> QED  BY <3>5, <3>6, <3>7, <3>8, <3>9
  <2>3. CancelledIsExplained'
    <3>1. CASE missions' = missions /\ audit' = audit /\ said' = said
      BY <3>1 DEF CancelledIsExplained
    <3> QED  BY <2>2, <3>1, OnlyCommitsWrite DEF CancelledIsExplained
  <2>4. ASSUME NEW t \in Slots, InFlight(t)'
        PROVE  /\ /\ req'[t].op \notin {"cancel", "reassign", "set_status"}
                  /\ Drops(req'[t].object)
                  => Explained(req[t].target)'
               /\ ~Drops(req'[t].heir)
    <3>1. KnowsItsMission(req[t])' /\ req'[t].target \in Ids
      <4>1. MissionsInv'
        BY NextKeeps
      <4> QED  BY <2>4, <4>1 DEF MissionsInv, MissionsTypeOK, InFlight, Request, Idle
    <3> PICK k \in Ids : k = req'[t].target
      BY <3>1
    <3>2. CASE /\ InFlight(t)
               /\ req'[t].op = req[t].op /\ req'[t].target = req[t].target
               /\ req'[t].object = req[t].object /\ req'[t].heir = req[t].heir
      <4>1. req[t].op \notin {"cancel", "reassign", "set_status"} /\ Drops(req[t].object)
               => Explained(k)
        BY <3>2
      <4>2. Explained(k) => Explained(k)'
        BY <2>1
      <4>3. ~Drops(req'[t].heir)
        BY <3>2
      <4> QED  BY <3>2, <4>1, <4>2, <4>3
    <3>3. CASE missions' = missions /\ audit' = audit /\ said' = said /\ Begun(req'[t])
      <4>1. ~Drops(req'[t].heir)
        BY <3>3 DEF Begun
      <4>2. ASSUME req'[t].op = "edit", Drops(req'[t].object)
            PROVE  Explained(k)'
        <5>1. missions[req'[t].target] # None
          BY <3>1, <3>3, <4>2 DEF KnowsItsMission
        <5>2. req'[t].object.status = missions[req'[t].target].status
          BY <3>3, <4>2 DEF Begun, Allowed
        <5>3. Explained(k)
          BY <3>1, <4>2, <5>1, <5>2 DEF CancelledIsExplained
        <5> QED  BY <2>1, <5>3
      <4>3. req'[t].op \notin {"cancel", "reassign", "edit", "set_status"}
               => ~Drops(req'[t].object)
        BY <3>3 DEF Begun
      <4> QED  BY <4>1, <4>2, <4>3
    <3> QED  BY <2>4, <3>2, <3>3, Origin
  <2>5. Pending'
    BY <2>4 DEF InFlight
  <2> QED  BY <2>3, <2>5
<1> QED  BY <1>1, <1>2, Invariant, PTL DEF Spec

\* A mission leaves "completed" or "cancelled" only by an edition that has a
\* status, or by a request that read it before another commit changed it: while
\* nobody changes the mission, what an operation demanded of it still holds when
\* it commits, whatever else overlaps (Approvable, Cancellable, Reassignable).
THEOREM FinalStaysFinal == Spec => FinalUnlessOverlapped
<1> DEFINE Current ==
        \A t \in Slots : InFlight(t) =>
            /\ ~req[t].overlapped => Allowed(req[t])
            /\ req[t].op = "cancel" => req[t].object.status = "cancelled"
            /\ req[t].op = "outcome" => req[t].object = None
<1>1. Init => Current
  BY DEF Init, InFlight, Idle
<1>2. MissionsInv /\ Current /\ [Next]_vars => Current'
  <2> SUFFICES ASSUME MissionsInv, Current, Next,
                      NEW t \in Slots, InFlight(t)'
               PROVE  /\ ~req'[t].overlapped => Allowed(req[t])'
                      /\ req'[t].op = "cancel" => req'[t].object.status = "cancelled"
                      /\ req'[t].op = "outcome" => req'[t].object = None
    BY DEF vars, InFlight, Allowed
  <2>1. CASE /\ InFlight(t)
             /\ req'[t].op = req[t].op /\ req'[t].target = req[t].target
             /\ req'[t].object = req[t].object
             /\ ~req'[t].overlapped =>
                   /\ ~req[t].overlapped
                   /\ missions'[req[t].target] = missions[req[t].target]
    BY <2>1 DEF Allowed
  <2>2. CASE missions' = missions /\ Begun(req'[t])
    BY <2>2 DEF Begun, Allowed
  <2> QED  BY <2>1, <2>2, Origin
<1>3. MissionsInv /\ Current /\ [Next]_vars =>
        [\A m \in Ids :
            /\ missions[m] # None /\ missions[m].status \in {"completed", "cancelled"}
            /\ missions'[m].status # missions[m].status
            => \E s \in Slots :
                  /\ req[s].pc = "commit" /\ req'[s].pc = "idle"
                  /\ req[s].overlapped \/ req[s].op = "set_status"]_vars
  <2> SUFFICES ASSUME MissionsInv, Current, Next, NEW m \in Ids, missions[m] # None,
                      missions[m].status \in {"completed", "cancelled"},
                      missions'[m].status # missions[m].status
               PROVE  \E s \in Slots :
                         /\ req[s].pc = "commit" /\ req'[s].pc = "idle"
                         /\ req[s].overlapped \/ req[s].op = "set_status"
    OBVIOUS
  <2>1. PICK s \in Slots : Commit(s)
    BY OnlyCommitsWrite
  <2> DEFINE q == req[s]
  <2>2. q.pc = "commit" /\ req'[s].pc = "idle" /\ InFlight(s)
    BY <2>1 DEF Commit, InFlight, Idle
  <2>3. KnowsItsMission(q) /\ q.target \in Ids
    BY <2>1, CommitWrites
  <2>4. m # q.clone
    BY <2>3, MissionsAssumption DEF KnowsItsMission
  <2>5. m = q.target
    BY <2>1, <2>4, CommitWrites
  <2>6. q.op # "create" /\ q.object # None /\ missions'[m].status = q.object.status
    BY <2>1, <2>3, <2>5, CommitWrites DEF KnowsItsMission
  <2>7. q.op \in {"approve", "cancel", "edit", "set_status", "reassign"}
    BY <2>2, <2>6 DEF MissionsInv, MissionsTypeOK, Request, Idle, InFlight, Op
  <2>8. ~q.overlapped => Allowed(q)
    BY <2>2
  <2>9. q.op = "cancel" => q.object.status = "cancelled"
    BY <2>2
  <2> QED  BY <2>2, <2>5, <2>6, <2>7, <2>8, <2>9 DEF Allowed
<1> QED  BY <1>1, <1>2, <1>3, Invariant, PTL DEF Spec, FinalUnlessOverlapped
=============================================================================
