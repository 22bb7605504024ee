------------------------------- MODULE VisitRules -------------------------------
(***************************************************************************)
(* The pure rules of a field visit: domain/site_visit/transitions.py and   *)
(* domain/shared/*.py.  A rule that the code states by raising is an        *)
(* operator that returns "OK" or the code of the first error raised.        *)
(*                                                                         *)
(* Positions are points of a line and the establishment's centre is the    *)
(* point 0: the haversine distance is only ever compared with thresholds.  *)
(***************************************************************************)
EXTENDS Integers

CONSTANTS
    StrictRadius,   \* est.radius_strict_m
    RelaxedRadius,  \* est.radius_relaxed_m
    MaxDelay,       \* 15 min between the check-in and the host's position
    MaxDistance,    \* 100 m between the two positions
    None            \* Python's None

ASSUME RadiiAssumption ==
    /\ StrictRadius \in Nat /\ RelaxedRadius \in Nat
    /\ MaxDelay \in Nat /\ MaxDistance \in Nat
    /\ None \notin Int

Scheduled    == "scheduled"
PendingHost  == "pending_host_validation"
CopresenceOk == "copresence_validated"
Completed    == "completed"

\* The members of SiteVisitStatus that some code writes; CHECKED_IN,
\* CHECKED_OUT and CANCELLED are declared and never assigned.
SiteVisitStatus == {Scheduled, PendingHost, CopresenceOk, Completed}

HostValidationMode == {"app_gps", "qr_static", "sms_shortcode"}

MissionStatus == {"draft", "planned", "in_progress", "completed", "cancelled"}

Haversine(a, b) == IF a <= b THEN b - a ELSE a - b

\* ensure_mission_window: both ends of the window are inside it.
InWindow(now, m) == m.windowStart <= now /\ now <= m.windowEnd

GeofenceStatus(dist) ==
    CASE dist <= StrictRadius                          -> "OK"
      [] dist > StrictRadius /\ dist <= RelaxedRadius  -> "APPROXIMATE"
      [] OTHER                                         -> "REJECTED"

\* Mutant: the delay is forgotten.
CopresenceAnyDelay(inspectorTime, hostTime, dist) ==
    IF dist > MaxDistance THEN "COPRESENCE_DISTANCE" ELSE "OK"

\* assert_copresence_mode_a: the delay is tested before the distance.
CopresenceModeA(inspectorTime, hostTime, dist) ==
    CASE hostTime - inspectorTime > MaxDelay -> "COPRESENCE_TIMEOUT"
      [] hostTime - inspectorTime <= MaxDelay /\ dist > MaxDistance
                                             -> "COPRESENCE_DISTANCE"
      [] OTHER                               -> "OK"

\* assert_qr_token_valid: the token shown by the host, then the window.
QrTokenValid(right, now, m) ==
    IF ~right THEN "INVALID_QR_TOKEN"
    ELSE IF InWindow(now, m) THEN "OK" ELSE "MISSION_EXPIRED"

\* assert_sms_code_valid: configured, equal, then the window.
SmsCodeValid(right, now, m) ==
    IF ~m.smsConfigured THEN "SMS_NOT_CONFIGURED"
    ELSE IF ~right THEN "INVALID_SMS_CODE"
    ELSE IF InWindow(now, m) THEN "OK" ELSE "MISSION_EXPIRED"

-----------------------------------------------------------------------------
(* The transitions of a SiteVisit: a guard that names the error, and the   *)
(* assignments made when it passes.                                        *)

NewVisit(mission) ==
    [mission |-> mission, status |-> Scheduled, mode |-> None,
     checkedInAt |-> None, checkedOutAt |-> None,
     inspectorPos |-> None, hostPos |-> None]

StartCheckInVerdict(visit) ==
    IF visit.status = Scheduled THEN "OK" ELSE "INVARIANT_VIOLATION"

StartCheckIn(visit, now, mode, pos) ==
    [visit EXCEPT !.mode = mode, !.checkedInAt = now,
                  !.status = PendingHost, !.inspectorPos = pos]

\* Mutant: the host may confirm from any status.
MarkFromAnyStatus(visit) == "OK"

MarkCopresenceVerdict(visit) ==
    IF visit.status = PendingHost THEN "OK" ELSE "INVARIANT_VIOLATION"

\* mark_copresence_ok, with the host position that only APP_GPS records.
MarkCopresenceOk(visit, pos) ==
    [visit EXCEPT !.status = CopresenceOk,
                  !.hostPos = IF visit.mode = "app_gps" THEN pos ELSE @]

\* Mutant: a check-out that does not require the co-presence.
CheckOutWithoutHost(visit) ==
    IF visit.checkedOutAt # None THEN "ALREADY_CHECKED_OUT" ELSE "OK"

\* The status is tested before checked_out_at.
CheckOutVerdict(visit) ==
    CASE visit.status # CopresenceOk -> "INVARIANT_VIOLATION"
      [] visit.status = CopresenceOk /\ visit.checkedOutAt # None
                                     -> "ALREADY_CHECKED_OUT"
      [] OTHER                       -> "OK"

CheckOut(visit, now) ==
    [visit EXCEPT !.checkedOutAt = now, !.status = Completed]
=============================================================================
