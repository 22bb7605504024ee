----------------------------- MODULE MCFieldVisits -----------------------------
(* Model-checking instances of FieldVisits. *)
EXTENDS FieldVisits, TLC

CONSTANTS s1, s2, m1, m2, v1, v2, u1, h1, k1, k2, j1, j2

Planned ==
    [status |-> "planned", inspector |-> u1, designatedHost |-> None,
     windowStart |-> 0, windowEnd |-> 1, smsConfigured |-> TRUE]

CheckIns(ms, users, positions, modes) ==
    [op : {"check_in"}, key : Keys, mission : ms, user : users, pos : positions,
     mode : modes]

Confirmations(ms, users, positions, jtis, secrets) ==
    [op : {"confirm_host"}, key : Keys, mission : ms, user : users,
     visit : Visits, pos : positions, jti : jtis, secretRight : secrets]

CheckOuts(ms, users) ==
    [op : {"check_out"}, key : Keys, mission : ms, user : users, visit : Visits]

-----------------------------------------------------------------------------
(* race: every pair of requests on one mission, by GPS *)

RaceRows == {Planned}

RaceCommands ==
    CheckIns({m1}, {u1}, {0}, {"app_gps"})
    \cup Confirmations({m1}, {h1}, {0}, {None}, {None})
    \cup CheckOuts({m1}, {u1})

RaceSymmetry == Permutations(Slots) \cup Permutations(Keys) \cup Permutations(Visits)

-----------------------------------------------------------------------------
(* replay: confirmations by QR token and their replays, whose records a    *)
(* restart purges; the answer may come before the commit.                  *)

TokenRows == {[Planned EXCEPT !.windowEnd = 2]}

TokenCommands ==
    CheckIns({m1}, {u1}, {0}, {"qr_static"})
    \cup Confirmations({m1}, {h1}, {None}, Jtis, {None})

TokenSymmetry == Permutations(Slots) \cup Permutations(Keys) \cup Permutations(Jtis)

-----------------------------------------------------------------------------
(* serial: every mode and every refusal, one request at a time.  Requests    *)
(* that name m2 meet a visit of m1.                                          *)

SerialRows ==
    {[Planned EXCEPT !.designatedHost = h1],
     [Planned EXCEPT !.status = "draft", !.smsConfigured = FALSE]}

SerialCommands ==
    CheckIns({m1}, {u1}, {0, 2, 3}, HostValidationMode)
    \cup CheckIns({m1}, {h1}, {0}, {"app_gps"})
    \cup Confirmations({m1}, {h1}, {None, 0, 2}, {None}, {None, TRUE, FALSE})
    \cup Confirmations({m1, m2}, Users, {0}, Jtis, {None})
    \cup CheckOuts(Missions, Users)

=============================================================================
