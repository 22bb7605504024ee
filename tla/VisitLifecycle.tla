---------------------------- MODULE VisitLifecycle ----------------------------
(***************************************************************************)
(* What the field-visit API promises of a mission, whatever the requests:  *)
(* its visit goes forward through the statuses of SiteVisitStatus, one     *)
(* atomic step per accepted request, and each step leaves its evidence     *)
(* (the inspector's proof; the host's proof and the co-presence event) in  *)
(* the same instant.                                                       *)
(***************************************************************************)
EXTENDS Naturals

CONSTANT Missions

VARIABLES
    stage,    \* "not_started", then the status of the mission's visit
    evidence  \* numbers of presence proofs and co-presence events

lifecycleVars == <<stage, evidence>>

Stage == {"not_started", "pending_host_validation", "copresence_validated", "completed"}

Start ==
    /\ stage = [m \in Missions |-> "not_started"]
    /\ evidence = [m \in Missions |-> [proofs |-> 0, events |-> 0]]

Advance(m, from, to, proofs, events) ==
    /\ stage[m] = from
    /\ stage' = [stage EXCEPT ![m] = to]
    /\ evidence' = [evidence EXCEPT ![m] = [proofs |-> @.proofs + proofs,
                                            events |-> @.events + events]]

CheckInAccepted(m) == Advance(m, "not_started", "pending_host_validation", 1, 0)

HostConfirmed(m) == Advance(m, "pending_host_validation", "copresence_validated", 1, 1)

CheckOutAccepted(m) == Advance(m, "copresence_validated", "completed", 0, 0)

Step == \E m \in Missions :
            CheckInAccepted(m) \/ HostConfirmed(m) \/ CheckOutAccepted(m)

Lifecycle == Start /\ [][Step]_lifecycleVars
=============================================================================
