------------------------------- MODULE Missions -------------------------------
(***************************************************************************)
(* The workflow of a mission: creation, approval, cancellation,            *)
(* reassignment, edition and outcome (api/v1/missions.py, create_mission,  *)
(* mission_workflow), run by concurrent requests against one database.     *)
(*                                                                         *)
(* A request reads the mission, changes the object in memory (the actions  *)
(* of the operations), saves it over the row read again (Save), and        *)
(* commits (Commit).  An operation that the code refuses changes nothing:  *)
(* it has no step.  The window, the codes, the objective and the author of  *)
(* a cancellation are left out: what an edition of them does to the rest of *)
(* the row is an edition whose status is None.                              *)
(***************************************************************************)
EXTENDS Naturals, FiniteSets

CONSTANTS
    Slots,         \* requests that may be in flight together
    Ids,           \* uuid4() values a mission may be given
    Inspectors,
    EditStatuses,  \* what the PATCH of a mission may carry as its status
    MaxSaid,       \* bound of the model: how many PATCHes carry one
    None

MissionStatus == {"draft", "planned", "in_progress", "completed", "cancelled"}

Mission ==
    [status : MissionStatus, inspector : Inspectors, requiresApproval : BOOLEAN,
     previous : Ids \cup {None}]

ASSUME MissionsAssumption ==
    /\ EditStatuses \subseteq MissionStatus \cup {None}
    /\ MaxSaid \in Nat
    /\ None \notin Mission \cup Ids \cup MissionStatus

VARIABLES
    missions,  \* table missions; None where there is no row
    outcomes,  \* table mission_outcomes: number of rows of a mission
    audit,     \* table audit_logs: (action, mission)
    said,      \* history: (status, mission) where an edition gave the status
    req        \* the requests in flight

vars == <<missions, outcomes, audit, said, req>>

\* "set_status" is an edition (PATCH) whose body has a status.
Op == {"create", "approve", "cancel", "edit", "set_status", "reassign", "outcome"}
AuditedOp == {"approve", "cancel", "reassign", "outcome"}

\* A request in flight: the mission it writes and the object it computed (None
\* for an outcome), the row that save read again, the clone of a reassignment.
\* overlapped: another transaction changed its mission since this request's reads.
Idle == [pc |-> "idle"]
Request ==
    {Idle} \cup
    [pc : {"save", "commit"}, op : Op, target : Ids, object : Mission \cup {None},
     base : Mission \cup {None}, clone : Ids \cup {None}, heir : Mission \cup {None},
     overlapped : BOOLEAN]

MissionsTypeOK ==
    /\ missions \in [Ids -> Mission \cup {None}]
    /\ outcomes \in [Ids -> Nat]
    /\ audit \subseteq AuditedOp \X Ids
    /\ said \subseteq MissionStatus \X Ids
    /\ req \in [Slots -> Request]

Init ==
    /\ missions = [m \in Ids |-> None]
    /\ outcomes = [m \in Ids |-> 0]
    /\ audit = {}
    /\ said = {}
    /\ req = [s \in Slots |-> Idle]

-----------------------------------------------------------------------------
(* The operations: reads, checks, and the object in memory *)

\* uuid4(): an id no row and no request in flight has.
FreshIds ==
    {m \in Ids : /\ missions[m] = None
                 /\ \A s \in Slots : req[s].pc # "idle" =>
                                        req[s].target # m /\ req[s].clone # m}

Begin(s, op, target, object, clone, heir) ==
    /\ req[s].pc = "idle"
    /\ req' = [req EXCEPT ![s] =
          [pc |-> "save", op |-> op, target |-> target, object |-> object,
           base |-> None, clone |-> clone, heir |-> heir, overlapped |-> FALSE]]
    /\ UNCHANGED <<missions, outcomes, audit, said>>

\* Mutant: requires_approval is ignored.
AlwaysPlanned(requiresApproval) == "planned"

FirstStatus(requiresApproval) == IF requiresApproval THEN "draft" ELSE "planned"

NewMission(inspector, requiresApproval) ==
    [status |-> FirstStatus(requiresApproval), inspector |-> inspector,
     requiresApproval |-> requiresApproval, previous |-> None]

CreateMission(s, m, inspector, requiresApproval) ==
    /\ m \in FreshIds
    /\ Begin(s, "create", m, NewMission(inspector, requiresApproval), None, None)

\* Mutant: any mission may be approved.
AnyStatus(mission) == TRUE

Approvable(mission) == mission.status = "draft"

Approved(mission) == [mission EXCEPT !.status = "planned"]

ApproveMission(s, m) ==
    /\ missions[m] # None
    /\ Approvable(missions[m])
    /\ Begin(s, "approve", m, Approved(missions[m]), None, None)

\* A mission that is already cancelled may be cancelled again.
Cancellable(mission) == mission.status # "completed"

Cancelled(mission) == [mission EXCEPT !.status = "cancelled"]

CancelMission(s, m) ==
    /\ missions[m] # None
    /\ Cancellable(missions[m])
    /\ Begin(s, "cancel", m, Cancelled(missions[m]), None, None)

SettingStatus == {s \in Slots : req[s].pc # "idle" /\ req[s].op = "set_status"}

\* update_mission: any status, from any status; None leaves a field alone.
UpdateMission(s, m, status) ==
    /\ missions[m] # None
    /\ status # None => Cardinality(said) + Cardinality(SettingStatus) < MaxSaid
    /\ Begin(s, IF status = None THEN "edit" ELSE "set_status", m,
             [missions[m] EXCEPT !.status = IF status = None THEN @ ELSE status],
             None, None)

\* Mutant: the inspector of the mission itself is replaced.
HandedOver(mission, inspector) ==
    [mission EXCEPT !.status = "cancelled", !.inspector = inspector]

Abandoned(mission, inspector) == [mission EXCEPT !.status = "cancelled"]

Reassignable(mission) == mission.status \notin {"completed", "cancelled"}

Heir(m, inspector) ==
    [status |-> "planned", inspector |-> inspector, requiresApproval |-> FALSE,
     previous |-> m]

\* The old mission is cancelled and a planned clone goes to the new inspector.
ReassignInspector(s, m, inspector, clone) ==
    /\ missions[m] # None
    /\ Reassignable(missions[m])
    /\ clone \in FreshIds \ {m}
    /\ Begin(s, "reassign", m, Abandoned(missions[m], inspector), clone,
             Heir(m, inspector))

Reportable(m) == outcomes[m] = 0

SubmitMissionOutcome(s, m) ==
    /\ missions[m] # None
    /\ Reportable(m)
    /\ Begin(s, "outcome", m, None, None, None)

-----------------------------------------------------------------------------
(* Writing *)

\* MissionRepositoryImpl.save reads the row again (an outcome has no mission
\* to save).
Save(s) ==
    /\ req[s].pc = "save"
    /\ req' = [req EXCEPT ![s] = [@ EXCEPT !.pc = "commit", !.base = missions[req[s].target]]]
    /\ UNCHANGED <<missions, outcomes, audit, said>>

\* save assigns every column, and the UPDATE the ORM emits sets those whose
\* value differs from the row that save read.
Column(stored, base, assigned) == IF assigned = base THEN stored ELSE assigned

Merge(stored, base, object) ==
    [status    |-> Column(stored.status, base.status, object.status),
     inspector |-> Column(stored.inspector, base.inspector, object.inspector),
     requiresApproval |->
         Column(stored.requiresApproval, base.requiresApproval, object.requiresApproval),
     previous  |-> Column(stored.previous, base.previous, object.previous)]

Written(q) ==
    IF q.base = None THEN q.object ELSE Merge(missions[q.target], q.base, q.object)

\* Mutant: mission_outcomes.mission_id is not unique.
Unconstrained(q) == FALSE

OutcomeTaken(q) == q.op = "outcome" /\ outcomes[q.target] > 0

\* Mutants: nothing is audited; every entry names the clone.
Unaudited(q) == {}

NamesTheClone(q) == IF q.op \notin AuditedOp THEN {} ELSE {<<q.op, q.clone>>}

\* write_audit names the clone of a reassignment.
AuditOf(q) ==
    IF q.op \notin AuditedOp THEN {}
    ELSE {<<q.op, IF q.op = "reassign" THEN q.clone ELSE q.target>>}

\* An edition is not audited, whatever status it gives.
SaidBy(q) ==
    IF q.op = "set_status"
      THEN {<<q.object.status, q.target>>}
      ELSE {}

Commit(s) ==
    LET q == req[s]
    IN  /\ q.pc = "commit"
        /\ ~OutcomeTaken(q)
        /\ missions' = [m \in Ids |->
              IF m = q.target /\ q.object # None THEN Written(q)
              ELSE IF m = q.clone THEN q.heir
              ELSE missions[m]]
        /\ outcomes' = [outcomes EXCEPT ![q.target] = @ + IF q.op = "outcome" THEN 1 ELSE 0]
        /\ audit' = audit \cup AuditOf(q)
        /\ said' = said \cup SaidBy(q)
        /\ req' = [t \in Slots |->
              IF t = s THEN Idle
              ELSE IF req[t].pc = "idle" THEN req[t]
              ELSE [req[t] EXCEPT !.overlapped =
                      @ \/ missions'[req[t].target] # missions[req[t].target]]]

\* The constraint fails, or the session or the process does.
RollBack(s) ==
    /\ req[s].pc # "idle"
    /\ req' = [req EXCEPT ![s] = Idle]
    /\ UNCHANGED <<missions, outcomes, audit, said>>

Next ==
    \E s \in Slots :
        \/ \E m \in Ids :
              \/ \E inspector \in Inspectors, approval \in BOOLEAN :
                    CreateMission(s, m, inspector, approval)
              \/ ApproveMission(s, m)
              \/ CancelMission(s, m)
              \/ \E status \in EditStatuses : UpdateMission(s, m, status)
              \/ \E inspector \in Inspectors, clone \in Ids :
                    ReassignInspector(s, m, inspector, clone)
              \/ SubmitMissionOutcome(s, m)
        \/ Save(s) \/ Commit(s) \/ RollBack(s)

Spec == Init /\ [][Next]_vars

-----------------------------------------------------------------------------
(* Properties *)

\* Two reports of one mission that race never both stay: the existence test
\* alone does not prevent it (SubmitMissionOutcome).
OneOutcome == \A m \in Ids : outcomes[m] <= 1

\* A mission that required an approval is planned only with an approval in the
\* audit log or by an edition that says so, which nothing refuses and no entry
\* tells (missions.py:298): no stale object that is saved, and no reassignment,
\* plans it (create_mission, ApproveMission).
PlannedWasApproved ==
    \A m \in Ids :
        /\ missions[m] # None
        /\ missions[m].status = "planned" /\ missions[m].requiresApproval
        => <<"approve", m>> \in audit \/ <<"planned", m>> \in said

\* A mission that is cancelled has the audit entry of a cancellation or an heir
\* (the two halves of a reassignment are committed together and neither is
\* undone by a stale save), or an edition said so: the PATCH that is documented
\* as a way to cancel (missions.py:262) leaves neither.
CancelledIsExplained ==
    \A m \in Ids :
        /\ missions[m] # None /\ missions[m].status = "cancelled"
        => \/ <<"cancel", m>> \in audit
           \/ \E h \in Ids : missions[h] # None /\ missions[h].previous = m
           \/ <<"cancelled", m>> \in said

\* A mission is never handed over in place: who it is assigned to, whether it
\* needs an approval and where it comes from never change, and what it comes
\* from exists (ReassignInspector).
LineageIsFixed ==
    [][\A m \in Ids :
          /\ missions[m] # None =>
                /\ missions'[m].inspector = missions[m].inspector
                /\ missions'[m].requiresApproval = missions[m].requiresApproval
                /\ missions'[m].previous = missions[m].previous
          /\ missions'[m] # None /\ missions'[m].previous # None =>
                missions'[missions'[m].previous] # None]_vars

\* A mission leaves a final status only by an edition that has a status
\* (missions.py:298), or by the commit of a request that read it before another
\* commit changed that mission (mission_workflow.py:32): overlapping requests about
\* other missions, and editions without a status, reopen nothing.
FinalUnlessOverlapped ==
    [][\A m \in Ids :
          /\ missions[m] # None /\ missions[m].status \in {"completed", "cancelled"}
          /\ missions'[m].status # missions[m].status
          => \E s \in Slots :
                /\ req[s].pc = "commit" /\ req'[s].pc = "idle"
                /\ req[s].overlapped \/ req[s].op = "set_status"]_vars

=============================================================================
