----------------------------- MODULE MobileChain -----------------------------
(***************************************************************************)
(* Offline events: a telephone uploads what it captured, in batches that   *)
(* it sends again until it has an answer (api/v1/mobile.py).  A batch      *)
(* binds devices to their keys, stores the events it accepts, and appends  *)
(* one entry per event to the audit chain.  Its rows are inserted in one   *)
(* transaction: all of them or none.                                       *)
(*                                                                         *)
(* sha256 is taken to be injective: the hash of an entry is the sequence   *)
(* of the event hashes it covers, << >> where there is no previous entry.  *)
(* The missions an event refers to exist; positions, selfies and           *)
(* signatures, which the server stores and does not look at, are left out. *)
(*                                                                         *)
(* The unit of work commits in a dependency that yields (api/deps.py:30).  *)
(* pyproject.toml accepts fastapi 0.109 and later: up to 0.117 the commit  *)
(* comes before the answer, from 0.118 after it.  replyFirst is either.    *)
(***************************************************************************)
EXTENDS Naturals, Sequences

CONSTANTS
    Slots,      \* uploads that may be in flight together
    Users, Devices, Keys, EventIds, Requests, Hashes,
    Batches,    \* what telephones may send
    None

MobileEvent ==
    [id : EventIds, actor : Users, device : Devices, key : Keys,
     request : Requests, hash : Hashes]

Device == [user : Users, key : Keys]

Entry == [event : EventIds, prev : Seq(Hashes), hash : Seq(Hashes)]

ASSUME MobileAssumption ==
    /\ Batches \subseteq [user : Users, events : Seq(MobileEvent)]
    /\ None \notin Device

VARIABLES
    devices,   \* table mobile_devices; None where there is no row
    events,    \* table mobile_events
    chain,     \* table audit_chain_entries
    received,  \* events a telephone was told the server has
    undone,    \* history: events of uploads answered and then rolled back
    replyFirst,  \* whether the answer leaves before the commit; never changes
    req        \* the uploads in flight

vars == <<devices, events, chain, received, undone, replyFirst, req>>

\* An upload in flight: its next step, its batch, and the rows it inserts.
\* overlapped: another upload committed since it read the chain.
Idle == [pc |-> "idle"]
Request ==
    {Idle} \cup
    [pc : {"commit", "reply"}, batch : Batches, devices : [Devices -> Device \cup {None}],
     events : SUBSET MobileEvent, entries : SUBSET Entry, overlapped : BOOLEAN]

Init ==
    /\ devices = [d \in Devices |-> None]
    /\ events = {}
    /\ chain = {}
    /\ received = {}
    /\ undone = {}
    /\ replyFirst \in BOOLEAN
    /\ req = [s \in Slots |-> Idle]

-----------------------------------------------------------------------------
(* What becomes of the events of a batch *)

\* An event that is not of the user who sends it is rejected.
Own(batch) == {i \in DOMAIN batch.events : batch.events[i].actor = batch.user}

First(I) == CHOOSE i \in I : \A j \in I : i <= j

\* The first own event of a new device binds it, for the rest of the batch too.
Binder(batch, d) == batch.events[First({i \in Own(batch) : batch.events[i].device = d})]

NewDevices(batch) ==
    [d \in Devices |->
        IF devices[d] # None \/ \A i \in Own(batch) : batch.events[i].device # d THEN None
        ELSE [user |-> batch.user, key |-> Binder(batch, d).key]]

BoundKey(batch, e) ==
    IF devices[e.device] # None THEN devices[e.device].key ELSE Binder(batch, e.device).key

Accepted(batch) ==
    {i \in Own(batch) : BoundKey(batch, batch.events[i]) = batch.events[i].key}

\* For each place in a batch, the hashes of the events accepted up to there.
HashesUpTo(batch) ==
    LET upTo[i \in 0 .. Len(batch.events)] ==
          IF i = 0 THEN << >>
          ELSE IF i \in Accepted(batch) THEN Append(upTo[i - 1], batch.events[i].hash)
          ELSE upTo[i - 1]
    IN  upTo

\* Mutants: every entry follows the last one of the table; the chain goes on
\* over the events that are rejected.
SameParent(batch, last, i) == last
ParentOfAny(batch, last, i) == last \o [j \in 1 .. i - 1 |-> batch.events[j].hash]

Parent(batch, last, i) == last \o HashesUpTo(batch)[i - 1]

EntriesOf(batch, last) ==
    {[event |-> batch.events[i].id, prev |-> Parent(batch, last, i),
      hash |-> Append(Parent(batch, last, i), batch.events[i].hash)] : i \in Accepted(batch)}

-----------------------------------------------------------------------------
(* The upload *)

\* get_last_hash asks for the one entry of the table: it fails when there are
\* two or more.
LastHash == IF chain = {} THEN << >> ELSE (CHOOSE e \in chain : TRUE).hash

IngestEventsBatch(s, batch) ==
    /\ req[s].pc = "idle"
    /\ \A x, y \in chain : x = y
    /\ req' = [req EXCEPT ![s] =
          [pc |-> IF replyFirst THEN "reply" ELSE "commit",
           batch |-> batch, devices |-> NewDevices(batch),
           events |-> {batch.events[i] : i \in Accepted(batch)},
           entries |-> EntriesOf(batch, LastHash), overlapped |-> FALSE]]
    /\ UNCHANGED <<devices, events, chain, received, undone, replyFirst>>

\* Mutant: there is no constraint.
Unconstrained(q) == FALSE

\* Primary keys, and one row per user and key.
DeviceTaken(q) ==
    \E d \in Devices :
        /\ q.devices[d] # None
        /\ \/ devices[d] # None
           \/ \E c \in Devices \ {d} :
                 q.devices[d] \in {devices[c], q.devices[c]}

SameEvent(e, f) ==
    \/ e.id = f.id
    \/ e.device = f.device /\ (e.request = f.request \/ e.hash = f.hash)

EventTaken(q) ==
    LET batch == q.batch
    IN  \/ \E e \in q.events, f \in events : SameEvent(e, f)
        \/ \E i, j \in DOMAIN batch.events :
              /\ i # j /\ {batch.events[i], batch.events[j]} \subseteq q.events
              /\ SameEvent(batch.events[i], batch.events[j])

Storable(q) == q.pc = "commit" /\ ~DeviceTaken(q) /\ ~EventTaken(q)

Commit(s) ==
    LET q == req[s]
    IN  /\ Storable(q)
        /\ devices' = [d \in Devices |-> IF q.devices[d] # None THEN q.devices[d] ELSE devices[d]]
        /\ events' = events \cup q.events
        /\ chain' = chain \cup q.entries
        /\ req' = [t \in Slots |->
              IF t = s THEN IF replyFirst THEN Idle ELSE [q EXCEPT !.pc = "reply"]
              ELSE IF req[t].pc = "idle" THEN req[t]
              ELSE [req[t] EXCEPT !.overlapped = TRUE]]
        /\ UNCHANGED <<received, undone, replyFirst>>

\* Mutant: events that are rejected are answered RECEIVED as well.
ToldOfAll(q) == {q.batch.events[i].id : i \in DOMAIN q.batch.events}

\* The events answered with the status RECEIVED.
Told(q) == {e.id : e \in q.events}

Reply(s) ==
    /\ req[s].pc = "reply"
    /\ received' = received \cup Told(req[s])
    /\ req' = [req EXCEPT ![s] = IF replyFirst THEN [@ EXCEPT !.pc = "commit"] ELSE Idle]
    /\ UNCHANGED <<devices, events, chain, undone, replyFirst>>

\* The whole batch is rolled back, and with replyFirst the telephone may have
\* been answered.
RollBack(s) ==
    /\ undone' = undone \cup IF replyFirst /\ req[s].pc = "commit" THEN Told(req[s]) ELSE {}
    /\ req' = [req EXCEPT ![s] = Idle]
    /\ UNCHANGED <<devices, events, chain, received, replyFirst>>

\* A constraint fails.  Of a batch of several events, the rows that a SELECT of
\* the batch itself flushes are refused before the answer: with replyFirst this
\* is a Fail, and the model is wider than the code, for it also lets the answer
\* leave before.
Refuse(s) == req[s].pc = "commit" /\ ~Storable(req[s]) /\ RollBack(s)

\* The session or the process fails; after the commit, the answer is lost.
Fail(s) == req[s].pc # "idle" /\ RollBack(s)

Next ==
    \E s \in Slots :
        \/ \E batch \in Batches : IngestEventsBatch(s, batch)
        \/ Commit(s) \/ Refuse(s) \/ Reply(s) \/ Fail(s)

Spec == Init /\ [][Next]_vars

\* Telephones send every batch again and again, the server carries out what it
\* began, and does not fail (Fail) every time it could commit or answer.
FairSpec ==
    /\ Spec
    /\ \A batch \in Batches : SF_vars(\E s \in Slots : IngestEventsBatch(s, batch))
    /\ \A s \in Slots : SF_vars(Commit(s)) /\ WF_vars(Refuse(s)) /\ SF_vars(Reply(s))

-----------------------------------------------------------------------------
(* Properties *)

MobileTypeOK ==
    /\ devices \in [Devices -> Device \cup {None}]
    /\ events \subseteq MobileEvent
    /\ chain \subseteq Entry
    /\ received \subseteq EventIds /\ undone \subseteq EventIds
    /\ replyFirst \in BOOLEAN
    /\ req \in [Slots -> Request]

\* However often a batch is sent again, alone or twice at once, an event is
\* stored once and has one entry in the chain, no entry speaks of an event that
\* is not stored (mobile.py:102), and every event was sent with the key its
\* device is bound to, also when two uploads found the device unknown
\* (mobile.py:55).
EventsAreStoredOnce ==
    /\ \A e, f \in events : e # f => ~SameEvent(e, f)
    /\ \A e \in events : \E x \in chain : x.event = e.id
    /\ \A x, y \in chain : x.event = y.event => x = y
    /\ \A x \in chain : \E e \in events : e.id = x.event
    /\ \A e \in events : devices[e.device] # None /\ devices[e.device].key = e.key

\* What a telephone was told it need not send again is stored and chained: at
\* once when the commit comes first, whatever fails.  When the answer comes
\* first (deps.py:30) this is not so: the events wait for the commit of their
\* upload, and are lost if it is rolled back after its answer; nothing else
\* loses one.
ReceivedIsKept ==
    \A id \in received :
        \/ (\E e \in events : e.id = id) /\ (\E x \in chain : x.event = id)
        \/ replyFirst /\ (id \in undone
                           \/ \E s \in Slots : req[s].pc = "commit" /\ id \in Told(req[s]))

\* An entry follows nothing or an entry of the table, and its hash covers that
\* one's; an upload that nobody overlapped leaves the chain without a fork
\* (extra_repos.py:271).
ChainIsLinked ==
    \A x \in chain :
        /\ x.prev = << >> \/ \E y \in chain : y.hash = x.prev
        /\ \E e \in events : e.id = x.event /\ x.hash = Append(x.prev, e.hash)

Forked(entries) == \E x, y \in entries : x # y /\ x.prev = y.prev

ForkNeedsOverlap ==
    [][Forked(chain') =>
          \/ Forked(chain)
          \/ \E s \in Slots : req[s].pc = "commit" /\ req'[s].pc # "commit" /\ req[s].overlapped]_vars

\* "stocke les evenements offline et retourne un statut par item"
\* (mobile.py:31): a telephone that goes on sending the event of a batch has it
\* stored in the end.
EveryBatchIsStored ==
    \A batch \in Batches : <>(\A i \in Own(batch) : \E e \in events : e.id = batch.events[i].id)
=============================================================================
