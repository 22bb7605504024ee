------------------------ MODULE MobileChain_proofs ------------------------
(***************************************************************************)
(* Proofs about MobileChain, for any batches of any lengths, any number of *)
(* uploads in flight, any failures, and the answer before the commit or    *)
(* after it: types, what is stored once and kept, and the links of the     *)
(* audit chain.                                                            *)
(***************************************************************************)
EXTENDS MobileChain, WellFoundedInduction, TLAPS

\* A set of naturals has a smallest element.  Where a recursive function is
\* concerned, the smallest counterexample stands for an induction.
LEMMA Smallest ==
    ASSUME NEW I \in SUBSET Nat, I # {}
    PROVE  \E i \in I : \A j \in I : i <= j
<1>1. \A i, j \in Nat : j < i => <<j, i>> \in OpToRel(<, Nat)
  BY DEF OpToRel
<1>2. \E R : IsWellFoundedOn(R, Nat) /\ \A i, j \in Nat : j < i => <<j, i>> \in R
  BY <1>1, NatLessThanWellFounded, Zenon
<1>3. PICK R : IsWellFoundedOn(R, Nat) /\ \A i, j \in Nat : j < i => <<j, i>> \in R
  BY <1>2
<1>4. \E i \in I : \A j \in I : ~ (<<j, i>> \in R)
  BY <1>3, WFMin
<1>5. PICK i \in I : \A j \in I : ~ (<<j, i>> \in R)
  BY <1>4
<1>6. \A j \in I : ~ (j < i)
  BY <1>3, <1>5
<1> QED  BY <1>5, <1>6

LEMMA FirstIsIn ==
    ASSUME NEW I \in SUBSET Nat, I # {}
    PROVE  First(I) \in I
  BY Smallest DEF First

\* A batch has a sequence of events.
LEMMA BatchTypes ==
    ASSUME NEW batch \in Batches
    PROVE  /\ batch.user \in Users
           /\ Len(batch.events) \in Nat
           /\ DOMAIN batch.events = 1 .. Len(batch.events)
           /\ \A i \in DOMAIN batch.events : batch.events[i] \in MobileEvent
  BY MobileAssumption

-----------------------------------------------------------------------------
(* The hashes of the events that are accepted *)

Extends(batch, f, n) ==
    f = [i \in 0 .. n |->
          IF i = 0 THEN << >>
          ELSE IF i \in Accepted(batch) THEN Append(f[i - 1], batch.events[i].hash)
          ELSE f[i - 1]]

\* The recursion of HashesUpTo has a solution of any length.
LEMMA HashesExist ==
    ASSUME NEW batch \in Batches, NEW n \in 0 .. Len(batch.events)
    PROVE  \E f : Extends(batch, f, n)
<1> DEFINE Bad == {m \in 0 .. Len(batch.events) : ~ \E f : Extends(batch, f, m)}
<1>1. Len(batch.events) \in Nat
  BY BatchTypes
<1>2. SUFFICES ASSUME Bad # {} PROVE FALSE
  BY DEF Bad
<1>3. PICK m \in Bad : \A k \in Bad : m <= k
  <2>1. Bad \in SUBSET Nat
    BY <1>1
  <2> QED  BY <1>2, <2>1, Smallest
<1>4. m # 0
  <2>1. Extends(batch, [i \in 0 .. 0 |-> << >>], 0)
    BY DEF Extends
  <2> QED  BY <2>1, <1>3
<1>5. m - 1 \in 0 .. Len(batch.events) /\ m - 1 \notin Bad
  BY <1>1, <1>3, <1>4
<1>6. PICK f : Extends(batch, f, m - 1)
  BY <1>5
<1> DEFINE g == [i \in 0 .. m |->
       IF i < m THEN f[i]
       ELSE IF m \in Accepted(batch) THEN Append(f[m - 1], batch.events[m].hash)
       ELSE f[m - 1]]
<1>7. \A i \in 0 .. m - 1 : g[i] = f[i]
  BY <1>1, <1>3
<1>8. \A i \in 0 .. m :
         g[i] = IF i = 0 THEN << >>
                ELSE IF i \in Accepted(batch) THEN Append(g[i - 1], batch.events[i].hash)
                ELSE g[i - 1]
  <2> SUFFICES ASSUME NEW i \in 0 .. m
               PROVE  g[i] = IF i = 0 THEN << >>
                             ELSE IF i \in Accepted(batch) THEN Append(g[i - 1], batch.events[i].hash)
                             ELSE g[i - 1]
    OBVIOUS
  <2>1. CASE i < m
    <3>1. i \in 0 .. m - 1 /\ (i # 0 => i - 1 \in 0 .. m - 1)
      BY <2>1, <1>1, <1>3
    <3>2. f[i] = IF i = 0 THEN << >>
                 ELSE IF i \in Accepted(batch) THEN Append(f[i - 1], batch.events[i].hash)
                 ELSE f[i - 1]
      BY <3>1, <1>6 DEF Extends
    <3> HIDE DEF g
    <3> QED  BY <3>1, <3>2, <1>7
  <2>2. CASE i = m
    <3>1. g[m - 1] = f[m - 1]
      BY <1>7, <1>4, <1>3, <1>1
    <3>2. g[m] = IF m \in Accepted(batch) THEN Append(f[m - 1], batch.events[m].hash)
                 ELSE f[m - 1]
      BY <1>3, <1>1
    <3> HIDE DEF g
    <3> QED  BY <3>1, <3>2, <2>2, <1>4
  <2> QED  BY <2>1, <2>2, <1>1, <1>3
<1>9. Extends(batch, g, m)
  <2>1. g = [i \in 0 .. m |-> g[i]]
    OBVIOUS
  <2> HIDE DEF g
  <2> QED  BY <2>1, <1>8 DEF Extends
<1> QED  BY <1>9, <1>3

\* HashesUpTo satisfies its recursion.
LEMMA HashesStep ==
    ASSUME NEW batch \in Batches
    PROVE  /\ HashesUpTo(batch)[0] = << >>
           /\ \A i \in 1 .. Len(batch.events) :
                 HashesUpTo(batch)[i] =
                    IF i \in Accepted(batch)
                      THEN Append(HashesUpTo(batch)[i - 1], batch.events[i].hash)
                      ELSE HashesUpTo(batch)[i - 1]
<1>1. Len(batch.events) \in Nat
  BY BatchTypes
<1>2. \E f : Extends(batch, f, Len(batch.events))
  BY <1>1, HashesExist
<1>3. Extends(batch, HashesUpTo(batch), Len(batch.events))
  BY <1>2 DEF Extends, HashesUpTo
<1> DEFINE f == HashesUpTo(batch)
<1>4. \A i \in 0 .. Len(batch.events) :
         f[i] = IF i = 0 THEN << >>
                ELSE IF i \in Accepted(batch) THEN Append(f[i - 1], batch.events[i].hash)
                ELSE f[i - 1]
  BY <1>3 DEF Extends
<1> HIDE DEF f
<1>5. f[0] = << >> /\ \A i \in 1 .. Len(batch.events) :
         f[i] = IF i \in Accepted(batch) THEN Append(f[i - 1], batch.events[i].hash)
                ELSE f[i - 1]
  BY <1>1, <1>4
<1> QED  BY <1>5 DEF f

LEMMA AcceptedPlaces ==
    ASSUME NEW batch \in Batches
    PROVE  /\ Accepted(batch) \subseteq 1 .. Len(batch.events)
           /\ \A i \in Accepted(batch) : batch.events[i] \in MobileEvent
  BY BatchTypes DEF Accepted, Own

LEMMA HashesTyped ==
    ASSUME NEW batch \in Batches, NEW n \in 0 .. Len(batch.events)
    PROVE  HashesUpTo(batch)[n] \in Seq(Hashes)
<1> DEFINE f == HashesUpTo(batch)
<1> DEFINE Bad == {m \in 0 .. Len(batch.events) : f[m] \notin Seq(Hashes)}
<1>1. Len(batch.events) \in Nat
  BY BatchTypes
<1>2. f[0] = << >> /\ \A i \in 1 .. Len(batch.events) :
         f[i] = IF i \in Accepted(batch) THEN Append(f[i - 1], batch.events[i].hash)
                ELSE f[i - 1]
  BY HashesStep
<1> HIDE DEF f
<1>3. SUFFICES ASSUME Bad # {} PROVE FALSE
  BY DEF f
<1>4. PICK m \in Bad : \A k \in Bad : m <= k
  <2>1. Bad \in SUBSET Nat
    BY <1>1
  <2> QED  BY <1>3, <2>1, Smallest
<1>5. m # 0
  <2>1. << >> \in Seq(Hashes)
    OBVIOUS
  <2>2. f[m] \notin Seq(Hashes)
    BY <1>4
  <2> QED  BY <1>2, <2>1, <2>2
<1>6. m \in 1 .. Len(batch.events) /\ f[m - 1] \in Seq(Hashes)
  BY <1>1, <1>4, <1>5
<1>7. m \in Accepted(batch) => batch.events[m].hash \in Hashes
  BY AcceptedPlaces DEF MobileEvent
<1>8. f[m] \in Seq(Hashes)
  <2>1. CASE m \in Accepted(batch)
    <3>1. f[m] = Append(f[m - 1], batch.events[m].hash)
      BY <1>2, <1>6, <2>1
    <3> QED  BY <1>6, <1>7, <2>1, <3>1
  <2>2. CASE m \notin Accepted(batch)
    BY <1>2, <1>6, <2>2
  <2> QED  BY <2>1, <2>2
<1> QED  BY <1>4, <1>8

\* The hashes before a place end with those of an accepted event, or are none.
LEMMA HashesLinked ==
    ASSUME NEW batch \in Batches, NEW n \in 0 .. Len(batch.events)
    PROVE  \/ HashesUpTo(batch)[n] = << >>
           \/ \E j \in Accepted(batch) :
                 HashesUpTo(batch)[n] = Append(HashesUpTo(batch)[j - 1], batch.events[j].hash)
<1> DEFINE f == HashesUpTo(batch)
<1> DEFINE Linked(m) ==
       f[m] = << >> \/ \E j \in Accepted(batch) : f[m] = Append(f[j - 1], batch.events[j].hash)
<1> DEFINE Bad == {m \in 0 .. Len(batch.events) : ~Linked(m)}
<1>1. Len(batch.events) \in Nat
  BY BatchTypes
<1>2. f[0] = << >> /\ \A i \in 1 .. Len(batch.events) :
         f[i] = IF i \in Accepted(batch) THEN Append(f[i - 1], batch.events[i].hash)
                ELSE f[i - 1]
  BY HashesStep
<1>3. SUFFICES ASSUME Bad # {} PROVE FALSE
  OBVIOUS
<1> HIDE DEF f
<1>4. PICK m \in Bad : \A k \in Bad : m <= k
  <2>1. Bad \in SUBSET Nat
    BY <1>1
  <2> QED  BY <1>3, <2>1, Smallest
<1>5. m # 0
  BY <1>2, <1>4
<1>6. m \in 1 .. Len(batch.events) /\ Linked(m - 1)
  BY <1>1, <1>4, <1>5
<1>7. Linked(m)
  BY <1>2, <1>6
<1> QED  BY <1>4, <1>7

LEMMA HashesGrow ==
    ASSUME NEW batch \in Batches, NEW n \in 0 .. Len(batch.events), NEW k \in 0 .. n
    PROVE  Len(HashesUpTo(batch)[k]) <= Len(HashesUpTo(batch)[n])
<1> DEFINE f == HashesUpTo(batch)
<1> DEFINE Bad == {m \in 0 .. Len(batch.events) : \E i \in 0 .. m : ~ (Len(f[i]) <= Len(f[m]))}
<1>1. Len(batch.events) \in Nat
  BY BatchTypes
<1>2. \A i \in 1 .. Len(batch.events) :
         f[i] = IF i \in Accepted(batch) THEN Append(f[i - 1], batch.events[i].hash)
                ELSE f[i - 1]
  BY HashesStep
<1>3. \A i \in 0 .. Len(batch.events) : f[i] \in Seq(Hashes) /\ Len(f[i]) \in Nat
  BY HashesTyped
<1>4. SUFFICES ASSUME Bad # {} PROVE FALSE
  OBVIOUS
<1> HIDE DEF f
<1>5. PICK m \in Bad : \A j \in Bad : m <= j
  <2>1. Bad \in SUBSET Nat
    BY <1>1
  <2> QED  BY <1>4, <2>1, Smallest
<1>6. PICK i \in 0 .. m : ~ (Len(f[i]) <= Len(f[m]))
  BY <1>5
<1>7. i # m /\ m \in 1 .. Len(batch.events)
  BY <1>1, <1>3, <1>5, <1>6
<1>8. m - 1 \in 0 .. Len(batch.events) /\ m - 1 \notin Bad /\ i \in 0 .. m - 1
  <2>1. m \in Nat /\ ~ (m <= m - 1)
    BY <1>7
  <2> HIDE DEF Bad
  <2>2. m - 1 \notin Bad
    BY <1>5, <2>1
  <2> QED BY <1>1, <1>6, <1>7, <2>2
<1>9. Len(f[i]) <= Len(f[m - 1])
  BY <1>8
<1>10. Len(f[m - 1]) <= Len(f[m])
  <2>1. f[m - 1] \in Seq(Hashes)
    BY <1>3, <1>8
  <2>2. CASE m \in Accepted(batch)
    <3>1. batch.events[m].hash \in Hashes
      BY AcceptedPlaces, <2>2 DEF MobileEvent
    <3>2. f[m] = Append(f[m - 1], batch.events[m].hash)
      BY <1>2, <1>7, <2>2
    <3>3. Len(Append(f[m - 1], batch.events[m].hash)) = Len(f[m - 1]) + 1
      BY <2>1, <3>1
    <3> QED  BY <2>1, <3>2, <3>3
  <2>3. CASE m \notin Accepted(batch)
    <3>1. f[m] = f[m - 1]
      BY <1>2, <1>7, <2>3
    <3> QED  BY <2>1, <3>1
  <2> QED  BY <2>2, <2>3
<1>11. Len(f[i]) \in Nat /\ Len(f[m - 1]) \in Nat /\ Len(f[m]) \in Nat
  BY <1>1, <1>3, <1>7, <1>8
<1> QED  BY <1>6, <1>9, <1>10, <1>11

-----------------------------------------------------------------------------
(* The entries of a batch *)

LEMMA ParentTyped ==
    ASSUME NEW batch \in Batches, NEW last \in Seq(Hashes), NEW i \in Accepted(batch)
    PROVE  /\ Parent(batch, last, i) \in Seq(Hashes)
           /\ Len(Parent(batch, last, i)) = Len(last) + Len(HashesUpTo(batch)[i - 1])
           /\ Append(Parent(batch, last, i), batch.events[i].hash) \in Seq(Hashes)
<1>1. i - 1 \in 0 .. Len(batch.events)
  BY AcceptedPlaces, BatchTypes
<1>2. HashesUpTo(batch)[i - 1] \in Seq(Hashes)
  BY <1>1, HashesTyped
<1>3. batch.events[i].hash \in Hashes
  BY AcceptedPlaces DEF MobileEvent
<1> QED  BY <1>2, <1>3 DEF Parent

\* The fields of the entries, without the records.
LEMMA EntryFields ==
    ASSUME NEW batch \in Batches, NEW last \in Seq(Hashes), NEW x \in EntriesOf(batch, last)
    PROVE  \E i \in Accepted(batch) :
              /\ x = [event |-> batch.events[i].id, prev |-> Parent(batch, last, i),
                      hash |-> Append(Parent(batch, last, i), batch.events[i].hash)]
              /\ x.event = batch.events[i].id
              /\ x.prev = Parent(batch, last, i)
              /\ x.hash = Append(x.prev, batch.events[i].hash)
  BY DEF EntriesOf

LEMMA EntriesTyped ==
    ASSUME NEW batch \in Batches, NEW last \in Seq(Hashes)
    PROVE  EntriesOf(batch, last) \subseteq Entry
<1> SUFFICES ASSUME NEW i \in Accepted(batch)
             PROVE  [event |-> batch.events[i].id, prev |-> Parent(batch, last, i),
                     hash |-> Append(Parent(batch, last, i), batch.events[i].hash)] \in Entry
  BY DEF EntriesOf
<1>1. batch.events[i].id \in EventIds
  BY AcceptedPlaces DEF MobileEvent
<1> QED  BY <1>1, ParentTyped DEF Entry

\* An entry of a batch follows the last hash, or another entry of the batch.
LEMMA EntriesLinked ==
    ASSUME NEW batch \in Batches, NEW last \in Seq(Hashes), NEW x \in EntriesOf(batch, last)
    PROVE  x.prev = last \/ \E y \in EntriesOf(batch, last) : y.hash = x.prev
<1>1. PICK i \in Accepted(batch) : x.prev = last \o HashesUpTo(batch)[i - 1]
  BY EntryFields DEF Parent
<1>2. i - 1 \in 0 .. Len(batch.events)
  BY AcceptedPlaces, BatchTypes
<1>3. CASE HashesUpTo(batch)[i - 1] = << >>
  BY <1>1, <1>3
<1>4. CASE \E j \in Accepted(batch) :
              HashesUpTo(batch)[i - 1] = Append(HashesUpTo(batch)[j - 1], batch.events[j].hash)
  <2>1. PICK j \in Accepted(batch) :
           HashesUpTo(batch)[i - 1] = Append(HashesUpTo(batch)[j - 1], batch.events[j].hash)
    BY <1>4
  <2>2. HashesUpTo(batch)[j - 1] \in Seq(Hashes) /\ batch.events[j].hash \in Hashes
    <3>1. j - 1 \in 0 .. Len(batch.events) /\ batch.events[j] \in MobileEvent
      BY AcceptedPlaces, BatchTypes
    <3> QED  BY <3>1, HashesTyped DEF MobileEvent
  <2>3. x.prev = Append(Parent(batch, last, j), batch.events[j].hash)
    BY <1>1, <2>1, <2>2 DEF Parent
  <2>4. [event |-> batch.events[j].id, prev |-> Parent(batch, last, j),
         hash |-> Append(Parent(batch, last, j), batch.events[j].hash)]
           \in EntriesOf(batch, last)
    BY DEF EntriesOf
  <2> QED  BY <2>3, <2>4
<1> QED  BY <1>2, <1>3, <1>4, HashesLinked

\* Each entry of a batch has more hashes before it than the one it follows.
LEMMA EntriesSpaced ==
    ASSUME NEW batch \in Batches, NEW last \in Seq(Hashes),
           NEW x \in EntriesOf(batch, last), NEW y \in EntriesOf(batch, last), x # y
    PROVE  x.prev # y.prev
<1>1. PICK i \in Accepted(batch) :
         /\ x = [event |-> batch.events[i].id, prev |-> Parent(batch, last, i),
                 hash |-> Append(Parent(batch, last, i), batch.events[i].hash)]
         /\ x.prev = Parent(batch, last, i)
  BY EntryFields
<1>2. PICK j \in Accepted(batch) :
         /\ y = [event |-> batch.events[j].id, prev |-> Parent(batch, last, j),
                 hash |-> Append(Parent(batch, last, j), batch.events[j].hash)]
         /\ y.prev = Parent(batch, last, j)
  BY EntryFields
<1>3. i # j
  BY <1>1, <1>2
<1>4. \A k, l \in Accepted(batch) : k < l =>
         Len(Parent(batch, last, k)) # Len(Parent(batch, last, l))
  <2> SUFFICES ASSUME NEW k \in Accepted(batch), NEW l \in Accepted(batch), k < l
               PROVE  Len(Parent(batch, last, k)) # Len(Parent(batch, last, l))
    OBVIOUS
  <2>1. /\ k \in 1 .. Len(batch.events) /\ k - 1 \in 0 .. Len(batch.events)
        /\ k \in 0 .. Len(batch.events)
        /\ l - 1 \in 0 .. Len(batch.events) /\ k \in 0 .. l - 1
    BY AcceptedPlaces, BatchTypes
  <2>2. Len(HashesUpTo(batch)[k]) <= Len(HashesUpTo(batch)[l - 1])
    BY <2>1, HashesGrow
  <2>3. batch.events[k].hash \in Hashes
    BY AcceptedPlaces DEF MobileEvent
  <2>4. /\ HashesUpTo(batch)[k - 1] \in Seq(Hashes)
        /\ HashesUpTo(batch)[k] = Append(HashesUpTo(batch)[k - 1], batch.events[k].hash)
        /\ HashesUpTo(batch)[l - 1] \in Seq(Hashes)
    BY <2>1, HashesTyped, HashesStep
  <2>5. Len(HashesUpTo(batch)[k]) = Len(HashesUpTo(batch)[k - 1]) + 1
    BY <2>3, <2>4
  <2>6. /\ Len(Parent(batch, last, k)) = Len(last) + Len(HashesUpTo(batch)[k - 1])
        /\ Len(Parent(batch, last, l)) = Len(last) + Len(HashesUpTo(batch)[l - 1])
    BY ParentTyped
  <2>7. /\ Len(last) \in Nat /\ Len(HashesUpTo(batch)[k - 1]) \in Nat
        /\ Len(HashesUpTo(batch)[l - 1]) \in Nat
    BY <2>4
  <2> QED  BY <2>2, <2>5, <2>6, <2>7
<1>5. i \in Nat /\ j \in Nat
  BY AcceptedPlaces
<1>6. CASE i < j
  BY <1>1, <1>2, <1>4, <1>6
<1>7. CASE j < i
  BY <1>1, <1>2, <1>4, <1>7
<1> QED  BY <1>3, <1>5, <1>6, <1>7

-----------------------------------------------------------------------------
(* The inductive invariant *)

\* What is known of an upload from its reads to its answer: its rows come from
\* its batch, with one entry for each event; the keys of its events are those
\* the devices are or will be bound to; an entry follows another.  bound and
\* links are the tables of the devices and of the chain.
Pending(q, bound, links) ==
    q.pc # "idle" =>
        /\ \A e \in q.events : \E i \in DOMAIN q.batch.events : e = q.batch.events[i]
        /\ \A e \in q.events : \E x \in q.entries : x.event = e.id
        /\ \A x, y \in q.entries : x # y =>
              \E i, j \in DOMAIN q.batch.events :
                  /\ i # j
                  /\ q.batch.events[i] \in q.events /\ x.event = q.batch.events[i].id
                  /\ q.batch.events[j] \in q.events /\ y.event = q.batch.events[j].id
        /\ \A x \in q.entries :
              \E e \in q.events : x.event = e.id /\ x.hash = Append(x.prev, e.hash)
        /\ \A e \in q.events :
              IF q.devices[e.device] # None THEN q.devices[e.device].key = e.key
              ELSE bound[e.device] # None /\ bound[e.device].key = e.key
        /\ \A x \in q.entries :
              x.prev = << >> \/ \E y \in links \cup q.entries : y.hash = x.prev

\* Until another upload commits, the entries of an upload follow no entry that
\* has one already.
Unforked(q, links) ==
    q.pc # "idle" /\ ~q.overlapped =>
        \A x \in q.entries, y \in links \cup q.entries : x # y => x.prev # y.prev

\* When the commit comes first, it came before the answer.
CommittedFirst ==
    ~replyFirst => \A s \in Slots : req[s].pc = "reply" => req[s].events \subseteq events

Waits(id) == \E s \in Slots : req[s].pc = "commit" /\ id \in Told(req[s])

ReceivedStored ==
    \A id \in received :
        \/ \E e \in events : e.id = id
        \/ replyFirst /\ (id \in undone \/ Waits(id))

MobileInv ==
    /\ MobileTypeOK
    /\ EventsAreStoredOnce
    /\ ChainIsLinked
    /\ CommittedFirst
    /\ ReceivedStored
    /\ \A s \in Slots : Pending(req[s], devices, chain)
    /\ \A s \in Slots : Unforked(req[s], chain)

LEMMA MobileInit == Init => MobileInv
<1> SUFFICES ASSUME Init PROVE MobileInv
  OBVIOUS
<1>1. Idle \in Request /\ Idle.pc = "idle"
  BY DEF Request, Idle
<1>2. MobileTypeOK
  BY <1>1 DEF Init, MobileTypeOK
<1>3. EventsAreStoredOnce /\ ChainIsLinked /\ ReceivedStored /\ CommittedFirst
  BY <1>1 DEF Init, EventsAreStoredOnce, ChainIsLinked, ReceivedStored, CommittedFirst
<1>4. \A s \in Slots : Pending(req[s], devices, chain) /\ Unforked(req[s], chain)
  BY <1>1 DEF Init, Pending, Unforked
<1> QED  BY <1>2, <1>3, <1>4 DEF MobileInv

\* The types of the fields of an upload.
LEMMA RequestFields ==
    ASSUME NEW q \in Request, q.pc # "idle"
    PROVE  /\ q.pc \in {"commit", "reply"} /\ q.batch \in Batches
           /\ q.devices \in [Devices -> Device \cup {None}]
           /\ q.events \subseteq MobileEvent /\ q.entries \subseteq Entry
           /\ q.overlapped \in BOOLEAN
  BY DEF Request, Idle

\* What the reads of an upload decide of the devices: an accepted event has the
\* key of its device, known or new.
LEMMA KeysOfAccepted ==
    ASSUME MobileTypeOK, NEW batch \in Batches
    PROVE  /\ NewDevices(batch) \in [Devices -> Device \cup {None}]
           /\ \A i \in Accepted(batch) :
                 LET e == batch.events[i]
                 IN  IF NewDevices(batch)[e.device] # None
                       THEN NewDevices(batch)[e.device].key = e.key
                       ELSE devices[e.device] # None /\ devices[e.device].key = e.key
<1>1. ASSUME NEW d \in Devices, NEW j \in Own(batch), batch.events[j].device = d
      PROVE  Binder(batch, d) \in MobileEvent
  <2> DEFINE I == {i \in Own(batch) : batch.events[i].device = d}
  <2>1. I \in SUBSET Nat /\ I # {}
    BY <1>1, BatchTypes DEF Own
  <2>2. First(I) \in I
    BY <2>1, FirstIsIn
  <2> QED  BY <2>2, BatchTypes DEF Own, Binder
<1> DEFINE New(d) == [user |-> batch.user, key |-> Binder(batch, d).key]
<1>2. ASSUME NEW d \in Devices, NEW j \in Own(batch), batch.events[j].device = d
      PROVE  New(d) \in Device /\ New(d) # None /\ New(d).key = Binder(batch, d).key
  <2>1. New(d) \in Device
    BY <1>1, <1>2, BatchTypes DEF Device, MobileEvent
  <2> QED  BY <2>1, MobileAssumption
<1>3. \A d \in Devices :
         NewDevices(batch)[d] =
            IF devices[d] # None \/ \A i \in Own(batch) : batch.events[i].device # d THEN None
            ELSE New(d)
  BY DEF NewDevices
<1>4. NewDevices(batch) \in [Devices -> Device \cup {None}]
  <2>1. \A d \in Devices : NewDevices(batch)[d] \in Device \cup {None}
    BY <1>2, <1>3
  <2> QED  BY <2>1 DEF NewDevices
<1>5. ASSUME NEW i \in Accepted(batch)
      PROVE  IF NewDevices(batch)[batch.events[i].device] # None
               THEN NewDevices(batch)[batch.events[i].device].key = batch.events[i].key
               ELSE /\ devices[batch.events[i].device] # None
                    /\ devices[batch.events[i].device].key = batch.events[i].key
  <2>1. i \in Own(batch) /\ batch.events[i].device \in Devices
    BY AcceptedPlaces DEF Accepted, MobileEvent
  <2>2. BoundKey(batch, batch.events[i]) = batch.events[i].key
    BY DEF Accepted
  <2>3. CASE devices[batch.events[i].device] # None
    <3>1. NewDevices(batch)[batch.events[i].device] = None
      BY <2>1, <2>3, <1>3
    <3> QED  BY <2>2, <2>3, <3>1 DEF BoundKey
  <2>4. CASE devices[batch.events[i].device] = None
    <3>1. NewDevices(batch)[batch.events[i].device] = New(batch.events[i].device)
      BY <2>1, <2>4, <1>3
    <3>2. New(batch.events[i].device) # None
          /\ New(batch.events[i].device).key = Binder(batch, batch.events[i].device).key
      BY <2>1, <1>2
    <3> HIDE DEF New
    <3> QED  BY <2>2, <2>4, <3>1, <3>2 DEF BoundKey
  <2> QED  BY <2>3, <2>4
<1> QED  BY <1>4, <1>5

-----------------------------------------------------------------------------
(* The actions *)

\* What is pending stays so while the tables grow and bindings stay.
LEMMA PendingStays ==
    ASSUME NEW q \in Request, Pending(q, devices, chain),
           chain \subseteq chain',
           \A d \in Devices : devices[d] # None => devices'[d] = devices[d]
    PROVE  Pending(q, devices', chain')
<1> SUFFICES ASSUME q.pc # "idle" PROVE Pending(q, devices', chain')
  BY DEF Pending
<1>1. \A e \in q.events : e.device \in Devices
  BY RequestFields DEF MobileEvent
<1>2. \A e \in q.events :
         IF q.devices[e.device] # None THEN q.devices[e.device].key = e.key
         ELSE devices'[e.device] # None /\ devices'[e.device].key = e.key
  BY <1>1 DEF Pending
<1>3. \A x \in q.entries :
         x.prev = << >> \/ \E y \in chain' \cup q.entries : y.hash = x.prev
  BY DEF Pending
<1> QED  BY <1>2, <1>3 DEF Pending

\* An upload that is rolled back leaves what it answered before its commit in
\* undone, and changes nothing else.
LEMMA DroppedKeeps ==
    ASSUME MobileInv, NEW s \in Slots, req[s].pc # "idle", RollBack(s)
    PROVE  MobileInv'
<1>1. Idle \in Request /\ Idle.pc = "idle"
  BY DEF Request, Idle
<1>2. /\ req' = [req EXCEPT ![s] = Idle]
      /\ undone' = undone \cup IF replyFirst /\ req[s].pc = "commit" THEN Told(req[s]) ELSE {}
      /\ UNCHANGED << devices, events, chain, received, replyFirst >>
      /\ \A t \in Slots : req'[t] = IF t = s THEN Idle ELSE req[t]
  BY DEF RollBack, MobileInv, MobileTypeOK
<1>3. MobileTypeOK'
  <2>1. req[s] \in Request
    BY DEF MobileInv, MobileTypeOK
  <2>2. Told(req[s]) \subseteq EventIds
    BY <2>1, RequestFields DEF Told, MobileEvent
  <2> QED  BY <1>1, <1>2, <2>2 DEF MobileInv, MobileTypeOK
<1>4. EventsAreStoredOnce' /\ ChainIsLinked'
  BY <1>2 DEF MobileInv, EventsAreStoredOnce, ChainIsLinked
<1>5. CommittedFirst'
  BY <1>1, <1>2 DEF MobileInv, CommittedFirst
<1>6. ReceivedStored'
  <2> SUFFICES ASSUME NEW id \in received
               PROVE  \/ \E e \in events : e.id = id
                      \/ replyFirst /\ (id \in undone' \/ Waits(id)')
    BY <1>2 DEF ReceivedStored
  <2>1. CASE replyFirst /\ Waits(id)
    <3>1. PICK t \in Slots : req[t].pc = "commit" /\ id \in Told(req[t])
      BY <2>1 DEF Waits
    <3>2. CASE t = s
      BY <1>2, <2>1, <3>1, <3>2
    <3>3. CASE t # s
      <4>1. req'[t] = req[t]
        BY <1>2, <3>3
      <4> QED  BY <2>1, <3>1, <4>1 DEF Waits, Told
    <3> QED  BY <3>2, <3>3
  <2> QED  BY <1>2, <2>1 DEF MobileInv, ReceivedStored
<1>7. ASSUME NEW t \in Slots PROVE Pending(req'[t], devices', chain') /\ Unforked(req'[t], chain')
  <2>1. CASE t = s
    BY <1>1, <1>2, <2>1 DEF Pending, Unforked
  <2>2. CASE t # s
    <3>1. req'[t] = req[t] /\ Pending(req[t], devices, chain) /\ Unforked(req[t], chain)
      BY <1>2, <2>2 DEF MobileInv
    <3> QED  BY <1>2, <3>1
  <2> QED  BY <2>1, <2>2
<1>8. (\A t \in Slots : Pending(req[t], devices, chain) /\ Unforked(req[t], chain))'
  BY <1>7
<1> QED  BY <1>3, <1>4, <1>5, <1>6, <1>8 DEF MobileInv

\* The hash an upload reads: none, or that of the only entry, which is longer
\* than the one this entry follows.
LEMMA LastHashRead ==
    ASSUME MobileTypeOK, ChainIsLinked, \A x, y \in chain : x = y
    PROVE  /\ LastHash \in Seq(Hashes)
           /\ LastHash = << >> \/ \E y \in chain : y.hash = LastHash
           /\ \A y \in chain : Len(y.prev) \in Nat /\ Len(y.prev) < Len(LastHash)
<1>1. CASE chain = {}
  BY <1>1 DEF LastHash
<1>2. CASE chain # {}
  <2>1. PICK c \in chain : chain = {c}
    BY <1>2
  <2>2. LastHash = c.hash
    BY <2>1 DEF LastHash
  <2>3. c \in Entry
    BY DEF MobileTypeOK
  <2>4. PICK e \in events : c.hash = Append(c.prev, e.hash)
    BY DEF ChainIsLinked
  <2>5. e.hash \in Hashes /\ c.prev \in Seq(Hashes) /\ c.hash \in Seq(Hashes)
    BY <2>3 DEF MobileTypeOK, MobileEvent, Entry
  <2>6. Len(c.hash) = Len(c.prev) + 1 /\ Len(c.prev) \in Nat
    BY <2>4, <2>5
  <2> QED  BY <2>1, <2>2, <2>5, <2>6
<1> QED  BY <1>1, <1>2

LEMMA IngestKeeps ==
    ASSUME MobileInv, NEW s \in Slots, NEW batch \in Batches, IngestEventsBatch(s, batch)
    PROVE  MobileInv'
<1> DEFINE q == [pc |-> IF replyFirst THEN "reply" ELSE "commit",
                 batch |-> batch, devices |-> NewDevices(batch),
                 events |-> {batch.events[i] : i \in Accepted(batch)},
                 entries |-> EntriesOf(batch, LastHash), overlapped |-> FALSE]
<1>1. req' = [req EXCEPT ![s] = q] /\ req[s].pc = "idle"
      /\ UNCHANGED << devices, events, chain, received, undone, replyFirst >>
      /\ \A x, y \in chain : x = y
  BY DEF IngestEventsBatch
<1>2. /\ q.pc \in {"commit", "reply"} /\ q.pc # "idle" /\ (~replyFirst => q.pc # "reply")
      /\ q.batch = batch /\ q.devices = NewDevices(batch)
      /\ q.events = {batch.events[i] : i \in Accepted(batch)}
      /\ q.entries = EntriesOf(batch, LastHash) /\ q.overlapped = FALSE
  OBVIOUS
<1>3. MobileTypeOK /\ ChainIsLinked
  BY DEF MobileInv
<1>4. /\ LastHash \in Seq(Hashes)
      /\ LastHash = << >> \/ \E y \in chain : y.hash = LastHash
      /\ \A y \in chain : Len(y.prev) \in Nat /\ Len(y.prev) < Len(LastHash)
  BY <1>1, <1>3, LastHashRead
<1>5. NewDevices(batch) \in [Devices -> Device \cup {None}]
  BY <1>3, KeysOfAccepted
<1>6. q \in Request
  <2>1. {batch.events[i] : i \in Accepted(batch)} \subseteq MobileEvent
    BY AcceptedPlaces
  <2>2. EntriesOf(batch, LastHash) \subseteq Entry
    BY <1>4, EntriesTyped
  <2> QED  BY <1>5, <2>1, <2>2 DEF Request
<1> HIDE DEF q
<1>7. Accepted(batch) \subseteq DOMAIN batch.events
  BY DEF Accepted, Own
<1>8. Pending(q, devices, chain)
  <2>1. \A e \in q.events : \E i \in DOMAIN q.batch.events : e = q.batch.events[i]
    BY <1>2, <1>7
  <2>2. ASSUME NEW i \in Accepted(batch)
        PROVE  \E x \in EntriesOf(batch, LastHash) : x.event = batch.events[i].id
    <3> DEFINE x == [event |-> batch.events[i].id, prev |-> Parent(batch, LastHash, i),
                     hash |-> Append(Parent(batch, LastHash, i), batch.events[i].hash)]
    <3>1. x \in EntriesOf(batch, LastHash)
      BY DEF EntriesOf
    <3>2. x.event = batch.events[i].id
      OBVIOUS
    <3> QED  BY <3>1, <3>2
  <2>3. \A e \in q.events : \E x \in q.entries : x.event = e.id
    BY <1>2, <2>2
  <2>4. \A x, y \in q.entries : x # y =>
           \E i, j \in DOMAIN q.batch.events :
              /\ i # j
              /\ q.batch.events[i] \in q.events /\ x.event = q.batch.events[i].id
              /\ q.batch.events[j] \in q.events /\ y.event = q.batch.events[j].id
    <3> SUFFICES ASSUME NEW x \in q.entries, NEW y \in q.entries, x # y
                 PROVE  \E i, j \in DOMAIN batch.events :
                           /\ i # j
                           /\ batch.events[i] \in q.events /\ x.event = batch.events[i].id
                           /\ batch.events[j] \in q.events /\ y.event = batch.events[j].id
      BY <1>2
    <3> DEFINE En(i) == [event |-> batch.events[i].id, prev |-> Parent(batch, LastHash, i),
                         hash |-> Append(Parent(batch, LastHash, i), batch.events[i].hash)]
    <3>1. PICK i \in Accepted(batch) : x = En(i) /\ x.event = batch.events[i].id
      BY <1>2, <1>4, EntryFields
    <3>2. PICK j \in Accepted(batch) : y = En(j) /\ y.event = batch.events[j].id
      BY <1>2, <1>4, EntryFields
    <3>3. i # j
      BY <3>1, <3>2
    <3> HIDE DEF En
    <3> QED  BY <1>2, <1>7, <3>1, <3>2, <3>3
  <2>5. \A x \in q.entries :
           \E e \in q.events : x.event = e.id /\ x.hash = Append(x.prev, e.hash)
    <3> SUFFICES ASSUME NEW x \in q.entries
                 PROVE  \E e \in q.events : x.event = e.id /\ x.hash = Append(x.prev, e.hash)
      OBVIOUS
    <3>1. PICK i \in Accepted(batch) : x.event = batch.events[i].id
             /\ x.hash = Append(x.prev, batch.events[i].hash)
      BY <1>2, <1>4, EntryFields
    <3> QED  BY <1>2, <3>1
  <2>6. \A e \in q.events :
           IF q.devices[e.device] # None THEN q.devices[e.device].key = e.key
           ELSE devices[e.device] # None /\ devices[e.device].key = e.key
    BY <1>2, <1>3, KeysOfAccepted
  <2>7. \A x \in q.entries :
           x.prev = << >> \/ \E y \in chain \cup q.entries : y.hash = x.prev
    BY <1>2, <1>4, EntriesLinked
  <2> QED  BY <1>2, <2>1, <2>3, <2>4, <2>5, <2>6, <2>7 DEF Pending
<1>9. Unforked(q, chain)
  <2> SUFFICES ASSUME NEW x \in q.entries, NEW y \in chain \cup q.entries, x # y
               PROVE  x.prev # y.prev
    BY DEF Unforked
  <2>1. CASE y \in q.entries
    BY <1>2, <1>4, <2>1, EntriesSpaced
  <2>2. CASE y \in chain
    <3>1. PICK i \in Accepted(batch) : x.prev = Parent(batch, LastHash, i)
      BY <1>2, <1>4, EntryFields
    <3>2. i - 1 \in 0 .. Len(batch.events)
      BY AcceptedPlaces, BatchTypes
    <3>3. /\ Len(x.prev) = Len(LastHash) + Len(HashesUpTo(batch)[i - 1])
          /\ Len(HashesUpTo(batch)[i - 1]) \in Nat /\ Len(LastHash) \in Nat
      <4>1. HashesUpTo(batch)[i - 1] \in Seq(Hashes)
        BY <3>2, HashesTyped
      <4>2. Len(x.prev) = Len(LastHash) + Len(HashesUpTo(batch)[i - 1])
        BY <1>4, <3>1, ParentTyped
      <4> QED  BY <1>4, <4>1, <4>2
    <3>4. Len(y.prev) \in Nat /\ Len(y.prev) < Len(LastHash)
      BY <1>4, <2>2
    <3> QED  BY <3>3, <3>4
  <2> QED  BY <2>1, <2>2
<1>10. MobileTypeOK'
  BY <1>1, <1>3, <1>6 DEF MobileTypeOK
<1>11. EventsAreStoredOnce' /\ ChainIsLinked'
  BY <1>1 DEF MobileInv, EventsAreStoredOnce, ChainIsLinked
<1>12. \A t \in Slots : req'[t] = IF t = s THEN q ELSE req[t]
  BY <1>1, <1>3 DEF MobileTypeOK
<1>13. CommittedFirst'
  BY <1>1, <1>2, <1>12 DEF MobileInv, CommittedFirst
<1>14. ReceivedStored'
  <2>1. \A id : Waits(id) => Waits(id)'
    BY <1>1, <1>12 DEF Waits, Told
  <2> QED  BY <1>1, <2>1 DEF MobileInv, ReceivedStored
<1>15. ASSUME NEW t \in Slots PROVE Pending(req'[t], devices', chain') /\ Unforked(req'[t], chain')
  <2>1. req'[t] = IF t = s THEN q ELSE req[t]
    BY <1>12
  <2>2. Pending(req'[t], devices, chain) /\ Unforked(req'[t], chain)
    BY <1>8, <1>9, <2>1 DEF MobileInv
  <2> QED  BY <1>1, <2>2 DEF Pending, Unforked
<1>16. (\A t \in Slots : Pending(req[t], devices, chain) /\ Unforked(req[t], chain))'
  BY <1>15
<1> QED  BY <1>10, <1>11, <1>16, <1>13, <1>14 DEF MobileInv

\* An upload that keeps its batch and its rows keeps what is known of it.
LEMMA PendingOfSameRows ==
    ASSUME NEW q, NEW r, NEW bound, NEW links,
           Pending(q, bound, links), q.pc # "idle",
           r.batch = q.batch, r.devices = q.devices, r.events = q.events,
           r.entries = q.entries
    PROVE  Pending(r, bound, links)
  BY DEF Pending

LEMMA SameEventSymmetric == \A e, f : SameEvent(e, f) <=> SameEvent(f, e)
  BY DEF SameEvent

\* A commit adds events that no stored one resembles, with their entries, and
\* binds unbound devices only.
LEMMA CommitKeeps ==
    ASSUME MobileInv, NEW s \in Slots, Commit(s)
    PROVE  MobileInv'
<1> DEFINE q == req[s]
           r == IF replyFirst THEN Idle ELSE [q EXCEPT !.pc = "reply"]
           late(t) == [req[t] EXCEPT !.overlapped = TRUE]
<1>1. /\ q \in Request /\ q.pc = "commit" /\ ~DeviceTaken(q) /\ ~EventTaken(q)
      /\ devices' = [d \in Devices |-> IF q.devices[d] # None THEN q.devices[d] ELSE devices[d]]
      /\ events' = events \cup q.events /\ chain' = chain \cup q.entries
      /\ UNCHANGED << received, undone, replyFirst >>
      /\ req' = [t \in Slots |-> IF t = s THEN r
                                ELSE IF req[t].pc = "idle" THEN req[t] ELSE late(t)]
      /\ Pending(q, devices, chain)
  BY DEF MobileInv, MobileTypeOK, Commit, Storable
<1>2. /\ q.batch \in Batches /\ q.devices \in [Devices -> Device \cup {None}]
      /\ q.events \subseteq MobileEvent /\ q.entries \subseteq Entry
  BY <1>1, RequestFields
<1>3. /\ r \in Request
      /\ replyFirst => r.pc = "idle"
      /\ ~replyFirst => /\ r.batch = q.batch /\ r.devices = q.devices
                        /\ r.events = q.events /\ r.entries = q.entries
  BY <1>1 DEF Request, Idle
<1>4. ASSUME NEW t \in Slots, req[t].pc # "idle"
      PROVE  /\ late(t) \in Request /\ late(t).pc = req[t].pc /\ late(t).overlapped = TRUE
             /\ late(t).batch = req[t].batch /\ late(t).devices = req[t].devices
             /\ late(t).events = req[t].events /\ late(t).entries = req[t].entries
  <2>1. req[t] \in Request
    BY DEF MobileInv, MobileTypeOK
  <2>2. req[t] \in [pc : {"commit", "reply"}, batch : Batches,
                    devices : [Devices -> Device \cup {None}], events : SUBSET MobileEvent,
                    entries : SUBSET Entry, overlapped : BOOLEAN]
    BY <1>4, <2>1 DEF Request, Idle
  <2>3. late(t) \in [pc : {"commit", "reply"}, batch : Batches,
                     devices : [Devices -> Device \cup {None}], events : SUBSET MobileEvent,
                     entries : SUBSET Entry, overlapped : BOOLEAN]
    BY <2>2
  <2> QED  BY <1>4, <2>2, <2>3 DEF Request
<1> HIDE DEF q, r, late
<1>5. \A d \in Devices : devices[d] # None => q.devices[d] = None /\ devices'[d] = devices[d]
  BY <1>1 DEF DeviceTaken
<1>6. \A e \in q.events : \E i \in DOMAIN q.batch.events : e = q.batch.events[i]
  BY <1>1 DEF Pending
<1>7. \A e \in q.events, f \in events : ~SameEvent(e, f) /\ ~SameEvent(f, e)
  BY <1>1, SameEventSymmetric DEF EventTaken
<1>8. \A i, j \in DOMAIN q.batch.events :
         i # j /\ q.batch.events[i] \in q.events /\ q.batch.events[j] \in q.events
         => ~SameEvent(q.batch.events[i], q.batch.events[j])
  BY <1>1 DEF EventTaken
<1>9. MobileTypeOK'
  <2>1. devices' \in [Devices -> Device \cup {None}]
    BY <1>1, <1>2 DEF MobileInv, MobileTypeOK
  <2>2. /\ events' \subseteq MobileEvent /\ chain' \subseteq Entry
        /\ received' \subseteq EventIds /\ undone' \subseteq EventIds /\ replyFirst' \in BOOLEAN
    BY <1>1, <1>2 DEF MobileInv, MobileTypeOK
  <2>3. req' \in [Slots -> Request]
    BY <1>1, <1>3, <1>4 DEF MobileInv, MobileTypeOK
  <2> QED  BY <2>1, <2>2, <2>3 DEF MobileTypeOK
<1>10. EventsAreStoredOnce'
  <2>1. \A e, f \in events' : e # f => ~SameEvent(e, f)
    <3> SUFFICES ASSUME NEW e \in events', NEW f \in events', e # f PROVE ~SameEvent(e, f)
      OBVIOUS
    <3>1. CASE e \in events /\ f \in events
      BY <3>1 DEF MobileInv, EventsAreStoredOnce
    <3>2. CASE e \in q.events /\ f \in q.events
      BY <3>2, <1>6, <1>8
    <3>3. CASE \/ e \in q.events /\ f \in events
               \/ e \in events /\ f \in q.events
      BY <3>3, <1>7
    <3> QED  BY <1>1, <3>1, <3>2, <3>3
  <2>2. \A e \in events' : \E x \in chain' : x.event = e.id
    BY <1>1 DEF MobileInv, EventsAreStoredOnce, Pending
  <2>3. \A x \in chain' : \E e \in events' : e.id = x.event
    BY <1>1 DEF MobileInv, EventsAreStoredOnce, Pending
  <2>4. \A x, y \in q.entries : x.event = y.event => x = y
    <3> SUFFICES ASSUME NEW x \in q.entries, NEW y \in q.entries, x.event = y.event, x # y
                 PROVE  FALSE
      OBVIOUS
    <3>1. PICK i, j \in DOMAIN q.batch.events :
             /\ i # j
             /\ q.batch.events[i] \in q.events /\ x.event = q.batch.events[i].id
             /\ q.batch.events[j] \in q.events /\ y.event = q.batch.events[j].id
      BY <1>1 DEF Pending
    <3>2. SameEvent(q.batch.events[i], q.batch.events[j])
      BY <3>1 DEF SameEvent
    <3> QED  BY <1>8, <3>1, <3>2
  <2>5. \A x \in q.entries, y \in chain : x.event # y.event
    <3> SUFFICES ASSUME NEW x \in q.entries, NEW y \in chain, x.event = y.event PROVE FALSE
      OBVIOUS
    <3>1. PICK e \in q.events : x.event = e.id
      BY <1>1 DEF Pending
    <3>2. PICK f \in events : f.id = y.event
      BY DEF MobileInv, EventsAreStoredOnce
    <3>3. SameEvent(e, f)
      BY <3>1, <3>2 DEF SameEvent
    <3> QED  BY <1>7, <3>3
  <2>6. \A x, y \in chain' : x.event = y.event => x = y
    BY <1>1, <2>4, <2>5 DEF MobileInv, EventsAreStoredOnce
  <2>7. \A e \in events' : devices'[e.device] # None /\ devices'[e.device].key = e.key
    <3>1. ASSUME NEW e \in events
          PROVE  devices'[e.device] # None /\ devices'[e.device].key = e.key
      <4>1. e.device \in Devices /\ devices[e.device] # None /\ devices[e.device].key = e.key
        BY DEF MobileInv, MobileTypeOK, EventsAreStoredOnce, MobileEvent
      <4> QED  BY <1>5, <4>1
    <3>2. ASSUME NEW e \in q.events
          PROVE  devices'[e.device] # None /\ devices'[e.device].key = e.key
      <4>1. e.device \in Devices
        BY <1>2 DEF MobileEvent
      <4>2. IF q.devices[e.device] # None THEN q.devices[e.device].key = e.key
            ELSE devices[e.device] # None /\ devices[e.device].key = e.key
        BY <1>1 DEF Pending
      <4>3. devices'[e.device] =
               IF q.devices[e.device] # None THEN q.devices[e.device] ELSE devices[e.device]
        BY <1>1, <4>1
      <4> QED  BY <4>2, <4>3
    <3> QED  BY <1>1, <3>1, <3>2
  <2> QED  BY <2>1, <2>2, <2>3, <2>6, <2>7 DEF EventsAreStoredOnce
<1>11. ChainIsLinked'
  BY <1>1 DEF MobileInv, ChainIsLinked, Pending
<1>12. CommittedFirst'
  <2> SUFFICES ASSUME ~replyFirst, NEW t \in Slots, req'[t].pc = "reply"
               PROVE  req'[t].events \subseteq events'
    BY <1>1 DEF CommittedFirst
  <2>1. CASE t = s
    BY <1>1, <1>3, <2>1
  <2>2. CASE t # s
    BY <1>1, <1>4, <2>2 DEF MobileInv, CommittedFirst
  <2> QED  BY <2>1, <2>2
<1>13. ReceivedStored'
  <2> SUFFICES ASSUME NEW id \in received
               PROVE  \/ \E e \in events' : e.id = id
                      \/ replyFirst /\ (id \in undone \/ Waits(id)')
    BY <1>1 DEF ReceivedStored
  <2>1. CASE replyFirst /\ Waits(id)
    <3>1. PICK t \in Slots : req[t].pc = "commit" /\ id \in Told(req[t])
      BY <2>1 DEF Waits
    <3>2. CASE t = s
      BY <1>1, <3>1, <3>2 DEF Told, q
    <3>3. CASE t # s
      <4>1. req'[t] = late(t)
        BY <1>1, <3>1, <3>3
      <4>2. req'[t].pc = "commit" /\ req'[t].events = req[t].events
        BY <1>4, <3>1, <4>1
      <4> QED  BY <2>1, <3>1, <4>2 DEF Waits, Told
    <3> QED  BY <3>2, <3>3
  <2> QED  BY <1>1, <2>1 DEF MobileInv, ReceivedStored
<1>14. ASSUME NEW t \in Slots
       PROVE  Pending(req'[t], devices', chain') /\ Unforked(req'[t], chain')
  <2>1. req[t] \in Request /\ Pending(req[t], devices, chain)
    BY DEF MobileInv, MobileTypeOK
  <2>2. Pending(req[t], devices', chain')
    BY <1>1, <1>5, <2>1, PendingStays
  <2>3. CASE t = s
    <3>1. req'[t] = r /\ q = req[t]
      BY <1>1, <2>3 DEF q
    <3>2. CASE replyFirst
      BY <1>3, <3>1, <3>2 DEF Pending, Unforked
    <3>3. CASE ~replyFirst
      <4>1. Pending(r, devices', chain')
        BY <1>1, <1>3, <2>2, <3>1, <3>3, PendingOfSameRows
      <4>2. Unforked(q, chain) /\ r.overlapped = q.overlapped
        BY <1>1, <3>3 DEF MobileInv, q, r, Request, Idle
      <4>3. Unforked(r, chain')
        BY <1>1, <1>3, <3>3, <4>2 DEF Unforked
      <4> QED  BY <3>1, <4>1, <4>3
    <3> QED  BY <3>2, <3>3
  <2>4. CASE t # s /\ req[t].pc # "idle"
    <3>1. req'[t] = late(t)
      BY <1>1, <2>4
    <3>2. Pending(late(t), devices', chain')
      BY <1>4, <2>2, <2>4, PendingOfSameRows
    <3>3. Unforked(late(t), chain')
      BY <1>4, <2>4 DEF Unforked
    <3> QED  BY <3>1, <3>2, <3>3
  <2>5. CASE t # s /\ req[t].pc = "idle"
    <3>1. req'[t] = req[t]
      BY <1>1, <2>5
    <3> QED  BY <2>5, <3>1 DEF Pending, Unforked
  <2> QED  BY <2>3, <2>4, <2>5
<1>15. (\A t \in Slots : Pending(req[t], devices, chain) /\ Unforked(req[t], chain))'
  BY <1>14
<1> QED  BY <1>9, <1>10, <1>11, <1>12, <1>15, <1>13 DEF MobileInv

\* The telephone is told of events that are stored, or whose commit is next.
LEMMA ReplyKeeps ==
    ASSUME MobileInv, NEW s \in Slots, Reply(s)
    PROVE  MobileInv'
<1> DEFINE q == req[s]
           r == IF replyFirst THEN [q EXCEPT !.pc = "commit"] ELSE Idle
<1>1. /\ q \in Request /\ q.pc = "reply" /\ req' = [req EXCEPT ![s] = r]
      /\ received' = received \cup Told(q)
      /\ UNCHANGED << devices, events, chain, undone, replyFirst >>
      /\ \A t \in Slots : req'[t] = IF t = s THEN r ELSE req[t]
  BY DEF MobileInv, MobileTypeOK, Reply
<1>2. q.events \subseteq MobileEvent /\ (~replyFirst => q.events \subseteq events)
  BY <1>1, RequestFields DEF MobileInv, CommittedFirst
<1>3. /\ r \in Request
      /\ ~replyFirst => r.pc = "idle"
      /\ replyFirst => /\ r.pc = "commit" /\ r.batch = q.batch /\ r.devices = q.devices
                       /\ r.events = q.events /\ r.entries = q.entries
                       /\ r.overlapped = q.overlapped
  BY <1>1 DEF Request, Idle
<1>4. Pending(q, devices, chain) /\ Unforked(q, chain)
  BY DEF MobileInv
<1> HIDE DEF q, r
<1>5. MobileTypeOK'
  <2>1. Told(q) \subseteq EventIds
    BY <1>2 DEF MobileEvent, Told
  <2> QED  BY <1>1, <1>3, <2>1 DEF MobileInv, MobileTypeOK
<1>6. EventsAreStoredOnce' /\ ChainIsLinked'
  BY <1>1 DEF MobileInv, EventsAreStoredOnce, ChainIsLinked
<1>7. CommittedFirst'
  BY <1>1, <1>3 DEF MobileInv, CommittedFirst
<1>8. ReceivedStored'
  <2>1. ASSUME NEW id, Waits(id) PROVE Waits(id)'
    <3>1. PICK t \in Slots : req[t].pc = "commit" /\ id \in Told(req[t])
      BY <2>1 DEF Waits
    <3>2. req'[t] = req[t]
      BY <1>1, <3>1 DEF q
    <3> QED  BY <3>1, <3>2 DEF Waits, Told
  <2>2. ASSUME NEW id \in Told(q), replyFirst PROVE Waits(id)'
    <3>1. req'[s].pc = "commit" /\ req'[s].events = q.events
      BY <1>1, <1>3, <2>2
    <3> QED  BY <3>1 DEF Waits, Told
  <2>3. \A id \in Told(q) : ~replyFirst => \E e \in events : e.id = id
    BY <1>2 DEF Told
  <2> QED  BY <1>1, <2>1, <2>2, <2>3 DEF MobileInv, ReceivedStored
<1>9. ASSUME NEW t \in Slots
      PROVE  Pending(req'[t], devices', chain') /\ Unforked(req'[t], chain')
  <2>1. CASE t # s
    <3>1. req'[t] = req[t] /\ Pending(req[t], devices, chain) /\ Unforked(req[t], chain)
      BY <1>1, <2>1 DEF MobileInv
    <3> QED  BY <1>1, <3>1
  <2>3. CASE t = s /\ ~replyFirst
    <3>1. req'[t].pc = "idle"
      BY <1>1, <1>3, <2>3
    <3> QED  BY <3>1 DEF Pending, Unforked
  <2>2. CASE t = s /\ replyFirst
    <3>1. Pending(r, devices, chain)
      BY <1>1, <1>3, <1>4, <2>2, PendingOfSameRows
    <3>2. Unforked(r, chain)
      BY <1>1, <1>3, <1>4, <2>2 DEF Unforked
    <3> QED  BY <1>1, <2>2, <3>1, <3>2
  <2> QED  BY <2>1, <2>2, <2>3
<1>10. (\A t \in Slots : Pending(req[t], devices, chain) /\ Unforked(req[t], chain))'
  BY <1>9
<1> QED  BY <1>5, <1>6, <1>7, <1>8, <1>10 DEF MobileInv

LEMMA MobileStep == MobileInv /\ [Next]_vars => MobileInv'
<1> SUFFICES ASSUME MobileInv, [Next]_vars PROVE MobileInv'
  OBVIOUS
<1>1. ASSUME NEW s \in Slots, NEW batch \in Batches, IngestEventsBatch(s, batch)
      PROVE  MobileInv'
  BY <1>1, IngestKeeps
<1>2. ASSUME NEW s \in Slots, Commit(s) PROVE MobileInv'
  BY <1>2, CommitKeeps
<1>3. ASSUME NEW s \in Slots, Reply(s) PROVE MobileInv'
  BY <1>3, ReplyKeeps
<1>4. ASSUME NEW s \in Slots, Refuse(s) \/ Fail(s) PROVE MobileInv'
  BY <1>4, DroppedKeeps DEF Refuse, Fail
<1>5. ASSUME UNCHANGED vars PROVE MobileInv'
  BY <1>5 DEF vars, MobileInv, MobileTypeOK, EventsAreStoredOnce, ChainIsLinked,
              ReceivedStored, CommittedFirst, Waits, Told
<1> QED  BY <1>1, <1>2, <1>3, <1>4, <1>5 DEF Next

LEMMA MobileInvariant == Spec => []MobileInv
<1>1. Init => MobileInv
  BY MobileInit
<1>2. MobileInv /\ [Next]_vars => MobileInv'
  BY MobileStep
<1> QED  BY <1>1, <1>2, PTL DEF Spec

-----------------------------------------------------------------------------
(* The theorems *)

\* The tables and the uploads in flight are well typed, whatever batches are
\* sent; so are the hashes of the chain (mobile.py:20, extra_repos.py:277).
THEOREM MobileTypeCorrect == Spec => []MobileTypeOK
<1>1. MobileInv => MobileTypeOK
  BY DEF MobileInv
<1> QED  BY <1>1, MobileInvariant, PTL

\* However often batches are sent, together and again, an event is stored once,
\* chained once, and has the key of its device (mobile.py:54, :102).
THEOREM StoredOnce == Spec => []EventsAreStoredOnce
<1>1. MobileInv => EventsAreStoredOnce
  BY DEF MobileInv
<1> QED  BY <1>1, MobileInvariant, PTL

\* What a telephone was told is stored and chained, whatever fails and whether
\* the answer comes before the commit or after it, but for the events of an
\* upload that was answered first and waits for its commit, or was rolled back
\* (mobile.py:113, deps.py:30).
THEOREM NothingReceivedIsLost == Spec => []ReceivedIsKept
<1>1. MobileInv => ReceivedIsKept
  BY DEF MobileInv, ReceivedStored, EventsAreStoredOnce, ReceivedIsKept, Waits
<1> QED  BY <1>1, MobileInvariant, PTL

\* A server that commits before it answers never tells a telephone of an event
\* that it has not stored and chained, through any failures (deps.py:30 with
\* fastapi before 0.118).
ReceivedIsStored ==
    \A id \in received : (\E e \in events : e.id = id) /\ (\E x \in chain : x.event = id)

THEOREM CommitFirstLosesNothing == Spec /\ ~replyFirst => []ReceivedIsStored
<1>1. ~replyFirst /\ [Next]_vars => ~replyFirst'
  BY DEF Next, vars, IngestEventsBatch, Commit, Reply, Refuse, Fail, RollBack
<1>2. ReceivedIsKept /\ ~replyFirst => ReceivedIsStored
  BY DEF ReceivedIsKept, ReceivedIsStored
<1> QED  BY <1>1, <1>2, NothingReceivedIsLost, PTL DEF Spec

\* Every entry of the audit chain follows the start or another entry, and
\* covers its event (mobile.py:103, extra_repos.py:277).
THEOREM ChainStaysLinked == Spec => []ChainIsLinked
<1>1. MobileInv => ChainIsLinked
  BY DEF MobileInv
<1> QED  BY <1>1, MobileInvariant, PTL

\* Only uploads that overlapped fork the chain (extra_repos.py:271).
THEOREM ForksNeedOverlaps == Spec => ForkNeedsOverlap
<1>1. MobileInv /\ [Next]_vars
      => [Forked(chain') =>
            \/ Forked(chain)
            \/ \E s \in Slots : req[s].pc = "commit" /\ req'[s].pc # "commit" /\ req[s].overlapped]_vars
  <2> SUFFICES ASSUME MobileInv, Next, Forked(chain'), ~Forked(chain)
               PROVE  \E s \in Slots : req[s].pc = "commit" /\ req'[s].pc # "commit" /\ req[s].overlapped
    OBVIOUS
  <2>1. PICK s \in Slots : Commit(s)
    <3>1. chain' # chain
      OBVIOUS
    <3> QED  BY <3>1 DEF Next, IngestEventsBatch, Refuse, Reply, Fail, RollBack
  <2>2. /\ req[s] \in Request /\ req[s].pc = "commit" /\ chain' = chain \cup req[s].entries
        /\ req'[s] = IF replyFirst THEN Idle ELSE [req[s] EXCEPT !.pc = "reply"]
    BY <2>1 DEF Commit, Storable, MobileInv, MobileTypeOK
  <2>3. req'[s].pc # "commit"
    BY <2>2 DEF Request, Idle
  <2>4. Unforked(req[s], chain)
    BY DEF MobileInv
  <2>5. req[s].overlapped
    <3> SUFFICES ASSUME ~req[s].overlapped PROVE FALSE
      OBVIOUS
    <3>1. \A x \in req[s].entries, y \in chain' : x # y => x.prev # y.prev
      BY <2>2, <2>4 DEF Unforked
    <3>2. PICK x, y \in chain' : x # y /\ x.prev = y.prev
      BY DEF Forked
    <3>3. x \in chain /\ y \in chain
      BY <2>2, <3>1, <3>2
    <3> QED  BY <3>2, <3>3 DEF Forked
  <2> QED  BY <2>2, <2>3, <2>5
<1> QED  BY <1>1, MobileInvariant, PTL DEF Spec, ForkNeedsOverlap

\* The entries are one line from the start: one at most at each distance from
\* it, and each has the whole history that its hash covers before it.
ChainIsALine ==
    /\ \A x, y \in chain : Len(x.hash) = Len(y.hash) => x = y
    /\ \A y \in chain : \A k \in 1 .. Len(y.hash) :
          \E x \in chain : x.hash = SubSeq(y.hash, 1, k)

\* An entry is one further from the start than the one it follows.
LEMMA OneFurther ==
    ASSUME MobileTypeOK, ChainIsLinked, NEW x \in chain
    PROVE  /\ x.prev \in Seq(Hashes) /\ x.hash \in Seq(Hashes)
           /\ Len(x.hash) \in Nat \ {0} /\ Len(x.prev) = Len(x.hash) - 1
           /\ \A k \in 1 .. Len(x.prev) : SubSeq(x.hash, 1, k) = SubSeq(x.prev, 1, k)
           /\ Len(x.hash) = 1 => x.prev = << >>
           /\ Len(x.hash) # 1 => \E y \in chain : y.hash = x.prev
<1>1. x.prev \in Seq(Hashes) /\ x.hash \in Seq(Hashes)
  BY DEF MobileTypeOK, Entry
<1>2. PICK h \in Hashes : x.hash = Append(x.prev, h)
  BY DEF ChainIsLinked, MobileTypeOK, MobileEvent
<1> DEFINE p == x.prev
<1>3. p \in Seq(Hashes) /\ x.hash = Append(p, h)
  BY <1>1, <1>2
<1> HIDE DEF p
<1>4. Len(p) \in Nat /\ Len(x.hash) = Len(p) + 1
  BY <1>3
<1>5. \A k \in 1 .. Len(p) : SubSeq(Append(p, h), 1, k) = SubSeq(p, 1, k)
  BY <1>3
<1>6. Len(p) = 0 => p = << >>
  BY <1>3
<1>7. p # << >> => \E y \in chain : y.hash = p
  BY DEF ChainIsLinked, p
<1>8. Len(<< >>) = 0
  OBVIOUS
<1>9. Len(x.hash) # 1 => p # << >>
  BY <1>4, <1>8
<1> QED  BY <1>1, <1>3, <1>4, <1>5, <1>6, <1>7, <1>9 DEF p

\* Two entries as far from the start would be two children of one entry, there
\* or nearer.
LEMMA OneEntryEach ==
    ASSUME MobileTypeOK, ChainIsLinked, ~Forked(chain)
    PROVE  \A x, y \in chain : Len(x.hash) = Len(y.hash) => x = y
<1> DEFINE Twice == {n \in Nat : \E x, y \in chain : x # y /\ Len(x.hash) = n /\ Len(y.hash) = n}
<1>1. CASE Twice = {}
  <2> SUFFICES ASSUME NEW x \in chain, NEW y \in chain, Len(x.hash) = Len(y.hash), x # y
               PROVE  FALSE
    OBVIOUS
  <2>1. Len(x.hash) \in Nat
    BY OneFurther
  <2>2. Len(x.hash) \in Twice
    BY <2>1
  <2> QED  BY <1>1, <2>2
<1>2. CASE Twice # {}
  <2>1. PICK n \in Twice : \A j \in Twice : n <= j
    <3>1. Twice \in SUBSET Nat
      OBVIOUS
    <3> HIDE DEF Twice
    <3> QED  BY <1>2, <3>1, Smallest
  <2>2. n \in Nat
    OBVIOUS
  <2>3. PICK x, y \in chain : x # y /\ Len(x.hash) = n /\ Len(y.hash) = n
    OBVIOUS
  <2>4. x.prev # y.prev
    BY <2>3 DEF Forked
  <2>5. /\ n \in Nat \ {0} /\ Len(x.prev) = n - 1 /\ Len(y.prev) = n - 1
        /\ n # 1 => \E z \in chain : z.hash = x.prev
        /\ n # 1 => \E z \in chain : z.hash = y.prev
        /\ n = 1 => x.prev = << >> /\ y.prev = << >>
    BY <2>3, OneFurther
  <2>6. PICK z, w \in chain : z.hash = x.prev /\ w.hash = y.prev
    BY <2>4, <2>5
  <2>7. z # w /\ Len(z.hash) = n - 1 /\ Len(w.hash) = n - 1 /\ n - 1 \in Nat
    BY <2>4, <2>5, <2>6
  <2>8. n - 1 \in Twice
    BY <2>7
  <2> HIDE DEF Twice
  <2> QED  BY <2>1, <2>2, <2>8
<1> QED  BY <1>1, <1>2

\* The history of an entry is the history of the one it follows, and itself.
LEMMA HistoryIsThere ==
    ASSUME MobileTypeOK, ChainIsLinked
    PROVE  \A y \in chain : \A k \in 1 .. Len(y.hash) :
              \E x \in chain : x.hash = SubSeq(y.hash, 1, k)
<1> DEFINE Missing(y, k) == \A x \in chain : x.hash # SubSeq(y.hash, 1, k)
           Short == {n \in Nat : \E y \in chain : Len(y.hash) = n /\ \E k \in 1 .. n : Missing(y, k)}
<1>1. CASE Short = {}
  <2> SUFFICES ASSUME NEW y \in chain, NEW k \in 1 .. Len(y.hash), Missing(y, k)
               PROVE  FALSE
    OBVIOUS
  <2>1. Len(y.hash) \in Nat
    BY OneFurther
  <2>2. Len(y.hash) \in Short
    BY <2>1
  <2> QED  BY <1>1, <2>2
<1>2. CASE Short # {}
  <2>1. PICK n \in Short : \A j \in Short : n <= j
    <3>1. Short \in SUBSET Nat
      OBVIOUS
    <3> HIDE DEF Short
    <3> QED  BY <1>2, <3>1, Smallest
  <2>2. n \in Nat
    OBVIOUS
  <2>3. PICK y \in chain : Len(y.hash) = n /\ \E k \in 1 .. n : Missing(y, k)
    OBVIOUS
  <2>4. PICK k \in 1 .. n : Missing(y, k)
    BY <2>3
  <2>5. k # n
    <3>1. y.hash \in Seq(Hashes)
      BY OneFurther
    <3>2. SubSeq(y.hash, 1, Len(y.hash)) = y.hash
      BY <3>1
    <3> QED  BY <2>3, <2>4, <3>2
  <2>6. /\ n # 1 /\ n - 1 \in Nat /\ k \in 1 .. n - 1
    BY <2>2, <2>4, <2>5
  <2>7. /\ Len(y.prev) = n - 1
        /\ \E z \in chain : z.hash = y.prev
        /\ \A j \in 1 .. n - 1 : SubSeq(y.hash, 1, j) = SubSeq(y.prev, 1, j)
    BY <2>3, <2>6, OneFurther
  <2>8. PICK z \in chain : z.hash = y.prev
    BY <2>7
  <2>9. Missing(z, k)
    BY <2>4, <2>6, <2>7, <2>8
  <2>10. n - 1 \in Short
    BY <2>6, <2>7, <2>8, <2>9
  <2> HIDE DEF Short
  <2> QED  BY <2>1, <2>2, <2>10
<1> QED  BY <1>1, <1>2

\* An upload commits what it computed before another one did.
OverlappedCommit ==
    /\ chain' # chain
    /\ \E s \in Slots : req[s].pc = "commit" /\ req'[s].pc # "commit" /\ req[s].overlapped

\* While no upload commits what it computed before another one did, the audit
\* chain is one line that can be checked entry by entry from its start: there is
\* nothing to choose at any of its links (extra_repos.py:271, mobile.py:103).
THEOREM ChainStaysALine ==
    Spec /\ [][~OverlappedCommit]_vars => []ChainIsALine
<1> DEFINE Fork == Forked(chain)
           Forks == Forked(chain') => \/ Forked(chain)
                                      \/ OverlappedCommit
<1>1. Init => ~Fork
  BY DEF Init, Forked
<1>2. MobileInv /\ ~Fork => ChainIsALine
  BY OneEntryEach, HistoryIsThere DEF MobileInv, ChainIsALine
<1>3. ~Fork /\ [Forks]_vars /\ [~OverlappedCommit]_vars => ~Fork'
  BY DEF Forked, vars
<1>4. ForkNeedsOverlap => [][Forks]_vars
  <2>1. [Forked(chain') =>
            \/ Forked(chain)
            \/ \E s \in Slots : req[s].pc = "commit" /\ req'[s].pc # "commit" /\ req[s].overlapped]_vars
        => [Forks]_vars
    BY DEF Forked, OverlappedCommit
  <2> QED  BY <2>1, PTL DEF ForkNeedsOverlap
<1> HIDE DEF Fork, Forks
<1> QED  BY <1>1, <1>2, <1>3, <1>4, MobileInvariant, ForksNeedOverlaps, PTL DEF Spec
=============================================================================
