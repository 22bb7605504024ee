---------------------------- MODULE Observability ----------------------------
(***************************************************************************)
(* What the server keeps in memory about its requests: the attempts to log *)
(* in of each host (api/rate_limit.py) and the circular buffer of events   *)
(* the access log and the front end fill (api/middleware/access_log.py,    *)
(* api/v1/telemetry.py).  A restart forgets both.                          *)
(*                                                                         *)
(* A request is handled (Login, PushFrontendEvents, GetStats, Handle) and  *)
(* then logged (Log); other requests come between the two, none within a   *)
(* step, for there is no await in one.  Times are kept as ages, which Tick *)
(* increases.                                                              *)
(***************************************************************************)
EXTENDS Naturals, Sequences, FiniteSets

CONSTANTS
    Slots,         \* requests that may be in flight together
    Hosts,         \* addresses of clients
    MaxPerMinute,  \* login_rate_limit_per_minute; 0: no limit
    Minute,        \* ticks of the clock in 60 seconds
    MaxLen,        \* size of the buffer, 2000
    MaxBatch,      \* events of the front end kept of one request, 100
    Kinds,         \* what the front end may say of an event
    Posted         \* lengths of the lists of events it may send

\* An event of the buffer is its kind.
ASSUME ObservabilityAssumption ==
    /\ IsFiniteSet(Slots)
    /\ MaxPerMinute \in Nat /\ Minute \in Nat \ {0}
    /\ MaxLen \in Nat /\ MaxBatch \in Nat /\ Posted \subseteq Nat

VARIABLES
    buckets,   \* ages of the attempts counted, the oldest first
    buf,       \* the circular buffer, the oldest event first
    req,       \* the requests in flight: "idle", what is asked, or how it ended
    admitted,  \* history: ages of the attempts let through in the last minute
    answered   \* history: some request was answered since the start

vars == <<buckets, buf, req, admitted, answered>>

Init ==
    /\ buckets = [h \in Hosts |-> << >>]
    /\ buf = << >>
    /\ req = [s \in Slots |-> "idle"]
    /\ admitted = [h \in Hosts |-> << >>]
    /\ answered = FALSE

\* Mutant: an attempt leaves one tick too early.
YoungerTooSoon(ages) ==
    LET old == {i \in DOMAIN ages : ages[i] + 1 >= Minute}
    IN  SubSeq(ages, Cardinality(old) + 1, Len(ages))

\* The attempts of the last minute come last, for the oldest come first.
Younger(ages) ==
    LET old == {i \in DOMAIN ages : ages[i] >= Minute}
    IN  SubSeq(ages, Cardinality(old) + 1, Len(ages))

\* deque(maxlen): the oldest events make room.
Push(events) ==
    LET all == buf \o events
    IN  IF Len(all) <= MaxLen THEN all ELSE SubSeq(all, Len(all) - MaxLen + 1, Len(all))

Arrive(s, op) ==
    /\ req[s] = "idle"
    /\ req' = [req EXCEPT ![s] = op]
    /\ UNCHANGED <<buckets, buf, admitted, answered>>

-----------------------------------------------------------------------------
(* enforce_rate_limit *)

\* Mutant: one more than the limit.
OneMore(h) == MaxPerMinute = 0 \/ Len(Younger(buckets[h])) <= MaxPerMinute

Admits(h) == MaxPerMinute = 0 \/ Len(Younger(buckets[h])) < MaxPerMinute

\* Mutant: a refused attempt starts the minute again.
StartsAgain(h) ==
    IF Admits(h) THEN Append(Younger(buckets[h]), 0)
    ELSE [i \in DOMAIN Younger(buckets[h]) |-> 0]

Counted(h) == IF Admits(h) THEN Append(Younger(buckets[h]), 0) ELSE Younger(buckets[h])

\* Refused, the request is answered 429; admitted, it logs in or not.
Login(s, h) ==
    /\ req[s] = "login"
    /\ buckets' = [buckets EXCEPT ![h] = IF MaxPerMinute = 0 THEN @ ELSE Counted(h)]
    /\ admitted' = [admitted EXCEPT ![h] =
          IF MaxPerMinute > 0 /\ Admits(h) THEN Append(@, 0) ELSE @]
    /\ req' = [req EXCEPT ![s] = "answered"]
    /\ UNCHANGED <<buf, answered>>

-----------------------------------------------------------------------------
(* The buffer *)

\* Mutant: the list is kept whole.
Whole(n) == n

Cut(n) == IF n > MaxBatch THEN MaxBatch ELSE n

PushFrontendEvents(s, n, kind) ==
    /\ req[s] = "push"
    /\ buf' = Push([i \in 1 .. Cut(n) |-> kind])
    /\ req' = [req EXCEPT ![s] = "posted"]
    /\ UNCHANGED <<buckets, admitted, answered>>

Requests == {i \in DOMAIN buf : buf[i] = "http"}

\* Where there is no request to count, stats leaves out frontend_events, which
\* the answer must have: the handler raises.
GetStats(s) ==
    /\ req[s] = "stats"
    /\ req' = [req EXCEPT ![s] = IF Requests = {} THEN "failed" ELSE "answered"]
    /\ UNCHANGED <<buckets, buf, admitted, answered>>

\* Any other request is answered, with an error or not, or its handler raises.
Handle(s) ==
    /\ req[s] = "other"
    /\ \E outcome \in {"answered", "failed"} : req' = [req EXCEPT ![s] = outcome]
    /\ UNCHANGED <<buckets, buf, admitted, answered>>

\* A request whose handler raised is in the log and not in the buffer.
AccessEvent(s) == IF req[s] = "failed" THEN << >> ELSE <<"http">>

Log(s) ==
    /\ req[s] \in {"posted", "answered", "failed"}
    /\ buf' = Push(AccessEvent(s))
    /\ answered' = (answered \/ req[s] # "failed")
    /\ req' = [req EXCEPT ![s] = "idle"]
    /\ UNCHANGED <<buckets, admitted>>

-----------------------------------------------------------------------------
(* Time and restarts *)

Older(ages) == [i \in DOMAIN ages |-> IF ages[i] < Minute THEN ages[i] + 1 ELSE Minute]

\* The history does not take the word of the limiter for what a minute is.
LastMinute(ages) ==
    LET young == {i \in DOMAIN ages : ages[i] < Minute}
    IN  SubSeq(ages, Len(ages) - Cardinality(young) + 1, Len(ages))

Tick ==
    /\ buckets' = [h \in Hosts |-> Older(buckets[h])]
    /\ admitted' = [h \in Hosts |-> LastMinute(Older(admitted[h]))]
    /\ UNCHANGED <<buf, req, answered>>

Restart ==
    /\ buckets' = [h \in Hosts |-> << >>]
    /\ buf' = << >>
    /\ req' = [s \in Slots |-> "idle"]
    /\ admitted' = [h \in Hosts |-> << >>]
    /\ answered' = FALSE

Next ==
    \/ \E s \in Slots :
          \/ \E op \in {"login", "push", "stats", "other"} : Arrive(s, op)
          \/ \E h \in Hosts : Login(s, h)
          \/ \E n \in Posted, kind \in Kinds : PushFrontendEvents(s, n, kind)
          \/ GetStats(s) \/ Handle(s) \/ Log(s)
    \/ Tick
    \/ Restart

\* Time passes, whatever the requests do.
Spec == Init /\ [][Next]_vars /\ WF_vars(Tick)

-----------------------------------------------------------------------------
(* Properties *)

\* In no minute, wherever it begins, does a process let through more attempts
\* of a host than the limit (rate_limit.py:25).
AtMostTheLimit == \A h \in Hosts : MaxPerMinute > 0 => Len(admitted[h]) <= MaxPerMinute

\* A host that goes on trying is not shut out for good: again and again its
\* next attempt would be let through, for refused attempts do not count
\* (rate_limit.py:30).
NoLockOut == \A h \in Hosts : []<>(MaxPerMinute > 0 => Len(Younger(buckets[h])) < MaxPerMinute)

\* The posts whose events are in the buffer before their own request is.
Posting == {s \in Slots : req[s] = "posted"}

\* Once a request was answered the statistics have something to count, unless
\* the front end has as many posts on the way as it takes to fill the buffer,
\* which nothing limits: fewer never push every request out, whatever else is
\* asked and whatever came before (telemetry.py:136, access_log.py:276).
StatsFailOnlyWhenFlooded ==
    [][\A s \in Slots :
          req[s] = "stats" /\ req'[s] = "failed"
          => ~answered \/ MaxLen <= MaxBatch * Cardinality(Posting)]_vars
=============================================================================
