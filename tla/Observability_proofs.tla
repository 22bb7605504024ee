------------------------- MODULE Observability_proofs -------------------------
(***************************************************************************)
(* Proofs about Observability, for any hosts, limit, buffer and lists of   *)
(* events: the limit of attempts in every minute, and what the statistics  *)
(* have to count.                                                          *)
(***************************************************************************)
EXTENDS Observability, FiniteSetTheorems, SequenceTheorems, WellFoundedInduction, TLAPS

-----------------------------------------------------------------------------
(* Ages *)

\* A set of naturals has a smallest element.
LEMMA LeastNatural ==
    ASSUME NEW K \in SUBSET Nat, K # {}
    PROVE  \E k \in K : \A j \in K : k <= j
<1>1. \A i, j \in Nat : j < i => <<j, i>> \in OpToRel(<, Nat)
  BY DEF OpToRel
<1>2. \E R : IsWellFoundedOn(R, Nat) /\ \A i, j \in Nat : j < i => <<j, i>> \in R
  BY <1>1, NatLessThanWellFounded, Zenon
<1>3. PICK R : IsWellFoundedOn(R, Nat) /\ \A i, j \in Nat : j < i => <<j, i>> \in R
  BY <1>2
<1>4. PICK k \in K : \A j \in K : ~ (<<j, k>> \in R)
  BY <1>3, WFMin
<1>5. \A j \in K : ~ (j < k)
  BY <1>3, <1>4
<1> QED BY <1>4, <1>5

\* The oldest come first.
OldestFirst(ages) == \A i, j \in DOMAIN ages : i <= j => ages[j] <= ages[i]

\* The first k attempts are out of the minute, and no others.
Leaves(ages, k) ==
    /\ k \in 0 .. Len(ages)
    /\ \A i \in DOMAIN ages : ages[i] >= Minute <=> i <= k

LEMMA SomeLeave ==
    ASSUME NEW ages \in Seq(Nat), OldestFirst(ages)
    PROVE  \E k \in Nat : Leaves(ages, k)
<1> DEFINE young == {i \in DOMAIN ages : ages[i] < Minute}
<1>1. Minute \in Nat
  BY ObservabilityAssumption
<1>2. CASE young = {}
  <2>1. Leaves(ages, Len(ages))
    BY <1>1, <1>2 DEF Leaves
  <2> QED BY <2>1
<1>3. CASE young # {}
  <2>1. young \in SUBSET Nat
    OBVIOUS
  <2>2. PICK m \in young : \A j \in young : m <= j
    BY <1>3, <2>1, LeastNatural
  <2>3. \A i \in DOMAIN ages : ages[i] >= Minute <=> i <= m - 1
    BY <1>1, <2>2 DEF OldestFirst
  <2>4. m - 1 \in 0 .. Len(ages)
    OBVIOUS
  <2>5. Leaves(ages, m - 1)
    BY <2>3, <2>4 DEF Leaves
  <2> QED BY <2>4, <2>5
<1> QED BY <1>2, <1>3

LEMMA YoungerIs ==
    ASSUME NEW ages \in Seq(Nat), NEW k \in Nat, Leaves(ages, k)
    PROVE  Younger(ages) = SubSeq(ages, k + 1, Len(ages))
<1> DEFINE old == {i \in DOMAIN ages : ages[i] >= Minute}
<1>1. old = 1 .. k
  BY DEF Leaves
<1>2. Cardinality(1 .. k) = k
  BY FS_Interval
<1> HIDE DEF old
<1>3. Cardinality(old) = k
  BY <1>1, <1>2
<1> QED BY <1>3 DEF Younger, old

\* The minute of the history is the limiter's.
LEMMA LastMinuteIsYounger ==
    ASSUME NEW ages \in Seq(Nat), OldestFirst(ages)
    PROVE  LastMinute(ages) = Younger(ages)
<1>1. PICK k \in Nat : Leaves(ages, k)
  BY SomeLeave
<1> DEFINE young == {i \in DOMAIN ages : ages[i] < Minute}
<1>2. k \in 0 .. Len(ages) /\ young = (k + 1) .. Len(ages)
  BY <1>1, ObservabilityAssumption DEF Leaves
<1>3. Cardinality((k + 1) .. Len(ages)) = Len(ages) - k
  <2>1. PICK n \in Int, m \in Int : n = k + 1 /\ m = Len(ages)
    OBVIOUS
  <2>2. Cardinality(n .. m) = IF n > m THEN 0 ELSE m - n + 1
    BY FS_Interval
  <2> QED BY <1>2, <2>1, <2>2
<1> HIDE DEF young
<1>4. Len(ages) - Cardinality(young) + 1 = k + 1
  BY <1>2, <1>3
<1>5. LastMinute(ages) = SubSeq(ages, k + 1, Len(ages))
  BY <1>4 DEF LastMinute, young
<1> QED BY <1>1, <1>5, YoungerIs

\* What is left of a list, position by position.
LEMMA YoungerList ==
    ASSUME NEW ages \in Seq(Nat), NEW k \in Nat, Leaves(ages, k)
    PROVE  /\ Younger(ages) \in Seq(Nat) /\ Len(Younger(ages)) = Len(ages) - k
           /\ \A i \in 1 .. Len(ages) - k : Younger(ages)[i] = ages[k + i]
<1>1. Younger(ages) = SubSeq(ages, k + 1, Len(ages)) /\ k \in 0 .. Len(ages)
  BY YoungerIs DEF Leaves
<1> QED BY <1>1

LEMMA YoungerSorted ==
    ASSUME NEW ages \in Seq(Nat), OldestFirst(ages)
    PROVE  /\ Younger(ages) \in Seq(Nat) /\ OldestFirst(Younger(ages))
           /\ \A i \in DOMAIN Younger(ages) : Younger(ages)[i] < Minute
<1>1. PICK k \in Nat : Leaves(ages, k)
  BY SomeLeave
<1> DEFINE y == Younger(ages)
<1>2. /\ y \in Seq(Nat) /\ Len(y) = Len(ages) - k /\ k \in 0 .. Len(ages)
      /\ \A i \in 1 .. Len(ages) - k : y[i] = ages[k + i]
  BY <1>1, YoungerList DEF Leaves
<1> HIDE DEF y
<1>3. \A i \in DOMAIN y : y[i] = ages[k + i] /\ k + i \in DOMAIN ages
  BY <1>2
<1>4. OldestFirst(y)
  BY <1>2, <1>3 DEF OldestFirst
<1>5. \A i \in DOMAIN y : y[i] < Minute
  BY <1>1, <1>2, <1>3, ObservabilityAssumption DEF Leaves
<1> QED BY <1>2, <1>4, <1>5 DEF y

\* Where all are within the minute, nothing leaves.
LEMMA YoungStay ==
    ASSUME NEW ages \in Seq(Nat), \A i \in DOMAIN ages : ages[i] < Minute
    PROVE  Younger(ages) = ages
<1>1. Leaves(ages, 0)
  BY ObservabilityAssumption DEF Leaves
<1>2. Younger(ages) \in Seq(Nat) /\ Len(Younger(ages)) = Len(ages) - 0
      /\ \A i \in 1 .. Len(ages) - 0 : Younger(ages)[i] = ages[0 + i]
  BY <1>1, YoungerList
<1> QED BY <1>2

LEMMA OlderSorted ==
    ASSUME NEW ages \in Seq(Nat), OldestFirst(ages)
    PROVE  /\ Older(ages) \in Seq(Nat) /\ Len(Older(ages)) = Len(ages)
           /\ OldestFirst(Older(ages))
           /\ \A i \in 1 .. Len(ages) : Older(ages)[i] =
                 IF ages[i] < Minute THEN ages[i] + 1 ELSE Minute
<1> DEFINE next(i) == IF ages[i] < Minute THEN ages[i] + 1 ELSE Minute
<1>1. Minute \in Nat
  BY ObservabilityAssumption
<1> DEFINE o == Older(ages)
<1>2. o = [i \in 1 .. Len(ages) |-> next(i)]
  <2>1. DOMAIN ages = 1 .. Len(ages)
    OBVIOUS
  <2> QED BY <2>1 DEF Older
<1> HIDE DEF o
<1>3. o \in Seq(Nat) /\ Len(o) = Len(ages)
  <2>1. \A i \in 1 .. Len(ages) : next(i) \in Nat
    BY <1>1
  <2> HIDE DEF next
  <2>2. o \in [1 .. Len(ages) -> Nat]
    BY <1>2, <2>1
  <2> QED BY <2>2
<1>4. \A i \in 1 .. Len(ages) : o[i] = next(i)
  <2> HIDE DEF next
  <2> QED BY <1>2
<1>5. OldestFirst(o)
  <2> SUFFICES ASSUME NEW i \in DOMAIN o, NEW j \in DOMAIN o, i <= j PROVE o[j] <= o[i]
    BY DEF OldestFirst
  <2>1. i \in DOMAIN ages /\ j \in DOMAIN ages
    BY <1>3
  <2>2. ages[j] <= ages[i] /\ ages[i] \in Nat /\ ages[j] \in Nat
    BY <2>1 DEF OldestFirst
  <2>3. o[i] = next(i) /\ o[j] = next(j)
    BY <1>4, <2>1
  <2> QED BY <1>1, <2>2, <2>3
<1> QED BY <1>3, <1>4, <1>5 DEF o

\* What comes after the first k elements.
EndOf(o, k, z) ==
    /\ Len(z) = Len(o) - k
    /\ \A i \in 1 .. Len(z) : z[i] = o[k + i]

\* Places in a list and in its end.
LEMMA Shift ==
    ASSUME NEW k \in Nat, NEW i \in Nat, NEW m \in Nat, NEW n \in Nat
    PROVE  /\ k + i <= m <=> i <= m - k
           /\ 1 <= i /\ i <= n - k => k + i \in 1 .. n
OBVIOUS

\* Two lists, the second of which is the end of the first, have the same
\* attempts within the minute when those before that end are out of it.
LEMMA SameYoung ==
    ASSUME NEW o \in Seq(Nat), OldestFirst(o), NEW z \in Seq(Nat), NEW k \in 0 .. Len(o),
           EndOf(o, k, z), k > 0 => o[k] >= Minute
    PROVE  Younger(z) = Younger(o)
<1>1. PICK m \in Nat : Leaves(o, m)
  BY SomeLeave
<1>2. m \in 0 .. Len(o) /\ k <= m
  <2>1. m \in 0 .. Len(o) /\ \A i \in DOMAIN o : o[i] >= Minute <=> i <= m
    BY <1>1 DEF Leaves
  <2>2. CASE k > 0
    <3>1. k \in DOMAIN o
      BY <2>2
    <3> QED BY <2>1, <2>2, <3>1
  <2> QED BY <2>1, <2>2
<1>3. m - k \in Nat /\ Leaves(z, m - k)
  <2>1. ASSUME NEW i \in DOMAIN z PROVE z[i] >= Minute <=> i <= m - k
    <3>1. /\ i \in 1 .. Len(z) /\ i \in Nat /\ 1 <= i /\ i <= Len(z)
          /\ Len(o) \in Nat /\ k \in Nat
      OBVIOUS
    <3>2. z[i] = o[k + i] /\ i <= Len(o) - k
      BY <3>1 DEF EndOf
    <3>3. k + i \in 1 .. Len(o)
      BY <3>1, <3>2, Shift
    <3>4. o[k + i] >= Minute <=> k + i <= m
      BY <1>1, <3>3 DEF Leaves
    <3>5. k + i <= m <=> i <= m - k
      BY <3>1, Shift
    <3> QED BY <3>2, <3>4, <3>5
  <2>2. Len(z) = Len(o) - k
    BY DEF EndOf
  <2>3. m - k \in 0 .. Len(z)
    BY <1>2, <2>2
  <2> QED BY <2>1, <2>3 DEF Leaves
<1>4. /\ Younger(z) \in Seq(Nat) /\ Len(Younger(z)) = Len(z) - (m - k)
      /\ \A i \in 1 .. Len(z) - (m - k) : Younger(z)[i] = z[m - k + i]
  BY <1>3, YoungerList
<1>5. /\ Younger(o) \in Seq(Nat) /\ Len(Younger(o)) = Len(o) - m
      /\ \A i \in 1 .. Len(o) - m : Younger(o)[i] = o[m + i]
  BY <1>1, YoungerList
<1>6. Len(z) - (m - k) = Len(o) - m /\ Len(o) - m \in Nat
  BY <1>2 DEF EndOf
<1>7. \A i \in 1 .. Len(o) - m : Younger(z)[i] = Younger(o)[i]
  <2> SUFFICES ASSUME NEW i \in 1 .. Len(o) - m PROVE Younger(z)[i] = Younger(o)[i]
    OBVIOUS
  <2>1. Younger(z)[i] = z[m - k + i] /\ Younger(o)[i] = o[m + i]
    BY <1>4, <1>5, <1>6
  <2>2. m - k + i \in 1 .. Len(z) /\ k + (m - k + i) = m + i
    BY <1>2, <1>6
  <2>3. z[m - k + i] = o[k + (m - k + i)]
    BY <2>2 DEF EndOf
  <2> QED BY <2>1, <2>2, <2>3
<1> DEFINE a == Younger(z)
           b == Younger(o)
<1>8. /\ a \in Seq(Nat) /\ b \in Seq(Nat) /\ Len(a) = Len(b)
      /\ \A i \in 1 .. Len(b) : a[i] = b[i]
  BY <1>4, <1>5, <1>6, <1>7
<1> HIDE DEF a, b
<1>9. a = b
  BY <1>8, SeqEqual
<1> QED BY <1>9 DEF a, b

\* A tick later, what is left of a list is what is left of what was left.
LEMMA LeavingTwice ==
    ASSUME NEW ages \in Seq(Nat), OldestFirst(ages)
    PROVE  Younger(Older(Younger(ages))) = Younger(Older(ages))
<1>1. PICK k \in Nat : Leaves(ages, k)
  BY SomeLeave
<1>2. PICK y \in Seq(Nat) : y = Younger(ages)
  BY YoungerSorted
<1>3. /\ OldestFirst(y) /\ Len(y) = Len(ages) - k
      /\ k \in 0 .. Len(ages) /\ \A i \in 1 .. Len(y) : y[i] = ages[k + i]
  <2>1. OldestFirst(y)
    BY <1>2, YoungerSorted
  <2>2. Len(y) = Len(ages) - k /\ \A i \in 1 .. Len(ages) - k : y[i] = ages[k + i]
    BY <1>1, <1>2, YoungerList
  <2>3. k \in 0 .. Len(ages)
    BY <1>1 DEF Leaves
  <2> QED BY <2>1, <2>2, <2>3
<1>4. PICK o \in Seq(Nat) : o = Older(ages)
  BY OlderSorted
<1>5. /\ Len(o) = Len(ages) /\ OldestFirst(o)
      /\ \A i \in 1 .. Len(ages) : o[i] = IF ages[i] < Minute THEN ages[i] + 1 ELSE Minute
  BY <1>4, OlderSorted
<1>6. PICK z \in Seq(Nat) : z = Older(y)
  BY <1>3, OlderSorted
<1>7. /\ Len(z) = Len(y)
      /\ \A i \in 1 .. Len(y) : z[i] = IF y[i] < Minute THEN y[i] + 1 ELSE Minute
  BY <1>3, <1>6, OlderSorted
<1>8. EndOf(o, k, z)
  <2> SUFFICES ASSUME NEW i \in 1 .. Len(z) PROVE z[i] = o[k + i]
    BY <1>3, <1>5, <1>7 DEF EndOf
  <2>1. i \in 1 .. Len(y) /\ k + i \in 1 .. Len(ages)
    BY <1>3, <1>7
  <2>2. y[i] = ages[k + i]
    BY <1>3, <2>1
  <2>3. z[i] = IF y[i] < Minute THEN y[i] + 1 ELSE Minute
    BY <1>7, <2>1
  <2>4. o[k + i] = IF ages[k + i] < Minute THEN ages[k + i] + 1 ELSE Minute
    BY <1>5, <2>1
  <2> QED BY <2>2, <2>3, <2>4
<1>9. k > 0 => o[k] >= Minute
  <2> SUFFICES ASSUME k > 0 PROVE o[k] >= Minute
    OBVIOUS
  <2>1. k \in DOMAIN ages /\ k \in 1 .. Len(ages)
    BY <1>3
  <2>2. ages[k] >= Minute
    BY <1>1, <2>1 DEF Leaves
  <2>3. ages[k] \in Nat /\ Minute \in Nat
    BY <2>1, ObservabilityAssumption
  <2>4. o[k] = Minute
    BY <1>5, <2>1, <2>2, <2>3
  <2> QED BY <2>3, <2>4
<1>10. Younger(z) = Younger(o)
  <2>1. k \in 0 .. Len(o)
    BY <1>3, <1>5
  <2> QED BY <1>5, <1>8, <1>9, <2>1, SameYoung
<1> QED BY <1>2, <1>4, <1>6, <1>10

-----------------------------------------------------------------------------
(* The limit of attempts *)

\* What a process keeps of a host's attempts: the oldest come first, and those
\* within the minute are the ones it let through, no more than the limit.
HostInv(b, a) ==
    /\ b \in Seq(Nat) /\ OldestFirst(b) /\ Len(b) <= MaxPerMinute
    /\ MaxPerMinute > 0 => a = Younger(b) /\ Len(a) <= MaxPerMinute

LimitInv ==
    /\ DOMAIN buckets = Hosts /\ DOMAIN admitted = Hosts
    /\ \A h \in Hosts : HostInv(buckets[h], admitted[h])

\* An attempt that is let through comes last.
LEMMA OneMoreAttempt ==
    ASSUME NEW y \in Seq(Nat), OldestFirst(y), \A i \in DOMAIN y : y[i] < Minute
    PROVE  /\ Append(y, 0) \in Seq(Nat) /\ OldestFirst(Append(y, 0))
           /\ Younger(Append(y, 0)) = Append(y, 0) /\ Len(Append(y, 0)) = Len(y) + 1
<1> DEFINE a == Append(y, 0)
<1>1. /\ a \in Seq(Nat) /\ Len(a) = Len(y) + 1 /\ a[Len(y) + 1] = 0
      /\ \A i \in 1 .. Len(y) : a[i] = y[i]
  OBVIOUS
<1> HIDE DEF a
<1>2. \A i \in DOMAIN a : a[i] \in Nat /\ (i \in DOMAIN y \/ i = Len(y) + 1)
  BY <1>1
<1>3. OldestFirst(a)
  <2> SUFFICES ASSUME NEW i \in DOMAIN a, NEW j \in DOMAIN a, i <= j PROVE a[j] <= a[i]
    BY DEF OldestFirst
  <2>1. CASE j = Len(y) + 1
    BY <1>1, <1>2, <2>1
  <2>2. CASE j \in DOMAIN y
    <3>1. i \in DOMAIN y
      BY <1>1, <2>2
    <3>2. y[j] <= y[i]
      BY <2>2, <3>1 DEF OldestFirst
    <3>3. DOMAIN y = 1 .. Len(y)
      OBVIOUS
    <3>4. a[i] = y[i] /\ a[j] = y[j]
      BY <1>1, <2>2, <3>1, <3>3, Zenon
    <3> QED BY <3>2, <3>4
  <2> QED BY <1>2, <2>1, <2>2
<1>4. \A i \in DOMAIN a : a[i] < Minute
  <2> SUFFICES ASSUME NEW i \in DOMAIN a PROVE a[i] < Minute
    OBVIOUS
  <2>1. DOMAIN y = 1 .. Len(y)
    OBVIOUS
  <2>2. CASE i \in DOMAIN y
    <3>1. a[i] = y[i] /\ y[i] < Minute
      BY <1>1, <2>1, <2>2, Zenon
    <3> QED BY <3>1
  <2>3. CASE i = Len(y) + 1
    <3>1. a[i] = 0
      BY <1>1, <2>3, Zenon
    <3> QED BY <3>1, ObservabilityAssumption
  <2> QED BY <1>2, <2>2, <2>3
<1>5. Younger(a) = a
  BY <1>1, <1>4, YoungStay
<1> QED BY <1>1, <1>3, <1>5 DEF a

\* An attempt, let through or refused.
LEMMA AttemptKeeps ==
    ASSUME NEW b, NEW a, HostInv(b, a), MaxPerMinute > 0,
           NEW admits \in BOOLEAN, admits => Len(Younger(b)) < MaxPerMinute
    PROVE  HostInv(IF admits THEN Append(Younger(b), 0) ELSE Younger(b),
                   IF admits THEN Append(a, 0) ELSE a)
<1>1. b \in Seq(Nat) /\ OldestFirst(b) /\ a = Younger(b) /\ Len(a) <= MaxPerMinute
  BY DEF HostInv
<1>2. a \in Seq(Nat) /\ OldestFirst(a) /\ \A i \in DOMAIN a : a[i] < Minute
  BY <1>1, YoungerSorted
<1>3. CASE admits
  <2>1. /\ Append(a, 0) \in Seq(Nat) /\ OldestFirst(Append(a, 0))
        /\ Younger(Append(a, 0)) = Append(a, 0) /\ Len(Append(a, 0)) = Len(a) + 1
    BY <1>2, OneMoreAttempt
  <2>2. Len(a) + 1 <= MaxPerMinute
    BY <1>1, <1>2, <1>3, ObservabilityAssumption
  <2>3. HostInv(Append(a, 0), Append(a, 0))
    BY <2>1, <2>2 DEF HostInv
  <2> QED BY <1>1, <1>3, <2>3
<1>4. CASE ~ admits
  <2>1. Younger(a) = a
    BY <1>2, YoungStay
  <2>2. HostInv(a, a)
    BY <1>1, <1>2, <2>1, ObservabilityAssumption DEF HostInv
  <2> QED BY <1>1, <1>4, <2>2
<1> QED BY <1>3, <1>4

\* A tick: none is let through by the passing of time.
LEMMA TickKeeps ==
    ASSUME NEW b, NEW a, HostInv(b, a)
    PROVE  HostInv(Older(b), LastMinute(Older(a)))
<1>1. b \in Seq(Nat) /\ OldestFirst(b) /\ Len(b) <= MaxPerMinute
  BY DEF HostInv
<1>2. Older(b) \in Seq(Nat) /\ OldestFirst(Older(b)) /\ Len(Older(b)) <= MaxPerMinute
  BY <1>1, OlderSorted
<1>3. ASSUME MaxPerMinute > 0
      PROVE  /\ LastMinute(Older(a)) = Younger(Older(b))
             /\ Len(LastMinute(Older(a))) <= MaxPerMinute
  <2>1. a = Younger(b) /\ Len(a) <= MaxPerMinute
    BY <1>3 DEF HostInv
  <2>2. Younger(Older(a)) = Younger(Older(b))
    BY <1>1, <2>1, LeavingTwice
  <2>3. a \in Seq(Nat) /\ OldestFirst(a)
    BY <1>1, <2>1, YoungerSorted
  <2>4. PICK o \in Seq(Nat) : o = Older(a) /\ Len(o) = Len(a) /\ OldestFirst(o)
    BY <2>3, OlderSorted
  <2>5. PICK k \in Nat : Leaves(o, k)
    BY <2>4, SomeLeave
  <2>6. Len(Younger(o)) = Len(o) - k
    BY <2>5, YoungerList
  <2>7. Len(Younger(o)) <= MaxPerMinute
    BY <2>1, <2>3, <2>4, <2>6, ObservabilityAssumption
  <2>8. LastMinute(o) = Younger(o)
    BY <2>4, LastMinuteIsYounger
  <2> QED BY <2>2, <2>4, <2>7, <2>8
<1> QED BY <1>2, <1>3 DEF HostInv

LEMMA NoAttempts == HostInv(<< >>, << >>)
<1>1. << >> \in Seq(Nat) /\ DOMAIN << >> = {} /\ Len(<< >>) = 0
  OBVIOUS
<1>2. OldestFirst(<< >>)
  BY <1>1 DEF OldestFirst
<1>3. Younger(<< >>) = << >>
  BY <1>1, YoungStay
<1> QED BY <1>1, <1>2, <1>3, ObservabilityAssumption DEF HostInv

LEMMA LimitStep ==
    ASSUME LimitInv, [Next]_vars
    PROVE  LimitInv'
<1>1. CASE UNCHANGED vars
  BY <1>1 DEF LimitInv, vars
<1>2. ASSUME NEW s \in Slots, NEW h \in Hosts, Login(s, h) PROVE LimitInv'
  <2>1. /\ buckets' = [buckets EXCEPT ![h] = IF MaxPerMinute = 0 THEN @ ELSE Counted(h)]
        /\ admitted' = [admitted EXCEPT ![h] =
              IF MaxPerMinute > 0 /\ Admits(h) THEN Append(@, 0) ELSE @]
    BY <1>2 DEF Login
  <2>2. DOMAIN buckets' = Hosts /\ DOMAIN admitted' = Hosts
    BY <2>1 DEF LimitInv
  <2>3. ASSUME NEW g \in Hosts PROVE HostInv(buckets'[g], admitted'[g])
    <3>1. HostInv(buckets[g], admitted[g])
      BY DEF LimitInv
    <3>2. CASE g # h \/ MaxPerMinute = 0
      <4>1. buckets'[g] = buckets[g] /\ admitted'[g] = admitted[g]
        BY <2>1, <3>2 DEF LimitInv
      <4> QED BY <3>1, <4>1
    <3>3. CASE g = h /\ MaxPerMinute # 0
      <4>1. MaxPerMinute > 0
        BY <3>3, ObservabilityAssumption
      <4>2. Admits(g) \in BOOLEAN /\ (Admits(g) => Len(Younger(buckets[g])) < MaxPerMinute)
        BY <3>3 DEF Admits
      <4>3. PICK admits \in BOOLEAN : admits = Admits(g)
        BY <4>2
      <4>4. /\ buckets'[g] = IF admits THEN Append(Younger(buckets[g]), 0) ELSE Younger(buckets[g])
            /\ admitted'[g] = IF admits THEN Append(admitted[g], 0) ELSE admitted[g]
        BY <2>1, <3>3, <4>1, <4>3 DEF LimitInv, Counted
      <4> QED BY <3>1, <4>1, <4>2, <4>3, <4>4, AttemptKeeps
    <3> QED BY <3>2, <3>3
  <2> QED BY <2>2, <2>3 DEF LimitInv
<1>3. CASE Tick
  <2>1. /\ buckets' = [h \in Hosts |-> Older(buckets[h])]
        /\ admitted' = [h \in Hosts |-> LastMinute(Older(admitted[h]))]
    BY <1>3 DEF Tick
  <2>2. ASSUME NEW h \in Hosts PROVE HostInv(buckets'[h], admitted'[h])
    BY <2>1, TickKeeps DEF LimitInv
  <2> QED BY <2>1, <2>2 DEF LimitInv
<1>4. CASE Restart
  BY <1>4, NoAttempts DEF Restart, LimitInv
<1>5. ASSUME NEW s \in Slots,
             \/ \E op \in {"login", "push", "stats", "other"} : Arrive(s, op)
             \/ \E n \in Posted, kind \in Kinds : PushFrontendEvents(s, n, kind)
             \/ GetStats(s) \/ Handle(s) \/ Log(s)
      PROVE  LimitInv'
  <2>1. UNCHANGED <<buckets, admitted>>
    BY <1>5 DEF Arrive, PushFrontendEvents, GetStats, Handle, Log
  <2> QED BY <2>1 DEF LimitInv
<1> QED BY <1>1, <1>2, <1>3, <1>4, <1>5 DEF Next

\* In no minute does a process let through more attempts of a host than the
\* limit, whatever the hosts, the limit and the length of a minute
\* (rate_limit.py:25).
THEOREM LoginsAreLimited == Spec => []AtMostTheLimit
<1>1. Init => LimitInv
  BY NoAttempts DEF Init, LimitInv
<1>2. LimitInv => AtMostTheLimit
  BY DEF LimitInv, HostInv, AtMostTheLimit
<1> QED BY <1>1, <1>2, LimitStep, PTL DEF Spec

-----------------------------------------------------------------------------
(* The statistics *)

Events == Kinds \cup {"http"}
\* Some request is in the buffer, with at most n events after it.
RequestWithin(n) == \E p \in DOMAIN buf : buf[p] = "http" /\ Len(buf) - p <= n

\* Each post on the way put at most one list of events after the last request
\* logged.
StatsInv ==
    /\ DOMAIN req = Slots /\ answered \in BOOLEAN
    /\ buf \in Seq(Events) /\ Len(buf) <= MaxLen
    /\ answered /\ MaxBatch * Cardinality(Posting) < MaxLen
         => RequestWithin(MaxBatch * Cardinality(Posting))

\* What Push leaves: the end of the old events and the new ones.
LEMMA PushIs ==
    ASSUME NEW events \in Seq(Events), buf \in Seq(Events), Len(buf) <= MaxLen
    PROVE  /\ Push(events) \in Seq(Events) /\ Len(Push(events)) <= MaxLen
           /\ \E d \in Nat :
                 /\ Len(Push(events)) + d = Len(buf) + Len(events)
                 /\ d > 0 => Len(Push(events)) = MaxLen
                 /\ \A i \in 1 .. Len(Push(events)) : Push(events)[i] = (buf \o events)[i + d]
<1>1. PICK all \in Seq(Events) : all = buf \o events /\ Len(all) = Len(buf) + Len(events)
  BY ConcatProperties, Zenon
<1>2. MaxLen \in Nat /\ Len(all) \in Nat
  BY ObservabilityAssumption
<1>3. CASE Len(all) <= MaxLen
  <2>1. Push(events) = all
    BY <1>1, <1>3 DEF Push
  <2>2. Len(all) + 0 = Len(all) /\ \A i \in 1 .. Len(all) : all[i] = all[i + 0]
    OBVIOUS
  <2>3. /\ Len(all) + 0 = Len(buf) + Len(events)
        /\ 0 > 0 => Len(all) = MaxLen
        /\ \A i \in 1 .. Len(all) : all[i] = (buf \o events)[i + 0]
    BY <1>1, <2>2
  <2> QED BY <1>3, <2>1, <2>3
<1>4. CASE ~ (Len(all) <= MaxLen)
  <2>1. PICK d \in Nat : d = Len(all) - MaxLen
    <3>1. Len(all) - MaxLen \in Nat
      BY <1>2, <1>4
    <3> QED BY <3>1
  <2>2. Push(events) = SubSeq(all, d + 1, Len(all))
    BY <1>1, <1>4, <2>1 DEF Push
  <2>3. /\ SubSeq(all, d + 1, Len(all)) \in Seq(Events)
        /\ Len(SubSeq(all, d + 1, Len(all))) = MaxLen
        /\ \A i \in 1 .. MaxLen : SubSeq(all, d + 1, Len(all))[i] = all[i + d]
    BY <1>2, <1>4, <2>1
  <2>4. /\ Len(Push(events)) + d = Len(buf) + Len(events)
        /\ d > 0 => Len(Push(events)) = MaxLen
        /\ \A i \in 1 .. Len(Push(events)) : Push(events)[i] = (buf \o events)[i + d]
    <3>1. Len(Push(events)) = MaxLen
      BY <2>2, <2>3
    <3>2. MaxLen + d = Len(all)
      BY <1>2, <2>1
    <3> QED BY <1>1, <2>2, <2>3, <3>1, <3>2
  <2>5. Push(events) \in Seq(Events) /\ Len(Push(events)) <= MaxLen
    BY <1>2, <2>2, <2>3
  <2> QED BY <2>4, <2>5
<1> QED BY <1>3, <1>4

\* An event stays in the buffer while fewer than MaxLen come after it.
LEMMA PushKeepsLast ==
    ASSUME NEW events \in Seq(Events), buf \in Seq(Events), Len(buf) <= MaxLen,
           NEW p \in DOMAIN buf, NEW n \in Nat, Len(buf) - p <= n, n + Len(events) < MaxLen
    PROVE  \E q \in DOMAIN Push(events) :
              /\ Push(events)[q] = buf[p]
              /\ Len(Push(events)) - q <= n + Len(events)
<1> DEFINE after == Push(events)
<1>1. /\ after \in Seq(Events) /\ Len(after) <= MaxLen
      /\ \E d \in Nat :
            /\ Len(after) + d = Len(buf) + Len(events)
            /\ d > 0 => Len(after) = MaxLen
            /\ \A i \in 1 .. Len(after) : after[i] = (buf \o events)[i + d]
  BY PushIs
<1> HIDE DEF after
<1>2. PICK d \in Nat : /\ Len(after) + d = Len(buf) + Len(events)
                       /\ d > 0 => Len(after) = MaxLen
                       /\ \A i \in 1 .. Len(after) : after[i] = (buf \o events)[i + d]
  BY <1>1
<1>3. /\ Len(buf) \in Nat /\ Len(events) \in Nat /\ Len(after) \in Nat /\ MaxLen \in Nat
      /\ p \in Nat /\ 1 <= p /\ p <= Len(buf)
  BY <1>1, ObservabilityAssumption
<1>4. PICK q \in Int : q = p - d
  BY <1>3
<1>5. q >= 1 /\ q <= Len(after)
  <2>1. CASE d = 0
    BY <1>2, <1>3, <1>4, <2>1
  <2>2. CASE d > 0
    BY <1>2, <1>3, <1>4, <2>2
  <2> QED BY <2>1, <2>2
<1>6. q \in DOMAIN after /\ q \in 1 .. Len(after) /\ q + d = p
  BY <1>1, <1>3, <1>4, <1>5
<1>7. after[q] = buf[p]
  <2>1. after[q] = (buf \o events)[p]
    BY <1>2, <1>6
  <2>2. (buf \o events)[p] = buf[p]
    BY <1>3
  <2> QED BY <2>1, <2>2
<1>8. Len(after) - q <= n + Len(events)
  BY <1>2, <1>3, <1>6
<1> QED BY <1>6, <1>7, <1>8 DEF after

\* A request that is logged comes last.
LEMMA LoggedIsLast ==
    ASSUME buf \in Seq(Events), Len(buf) <= MaxLen, MaxLen > 0
    PROVE  \E q \in DOMAIN Push(<<"http">>) :
              Push(<<"http">>)[q] = "http" /\ Len(Push(<<"http">>)) - q = 0
<1> DEFINE one == <<"http">>
           after == Push(one)
<1>1. one \in Seq(Events) /\ Len(one) = 1 /\ (buf \o one)[Len(buf) + 1] = "http"
  BY DEF Events
<1> HIDE DEF one
<1>2. /\ after \in Seq(Events) /\ Len(after) <= MaxLen
      /\ \E d \in Nat :
            /\ Len(after) + d = Len(buf) + Len(one)
            /\ d > 0 => Len(after) = MaxLen
            /\ \A i \in 1 .. Len(after) : after[i] = (buf \o one)[i + d]
  BY <1>1, PushIs
<1> HIDE DEF after
<1>3. PICK d \in Nat : /\ Len(after) + d = Len(buf) + 1
                       /\ d > 0 => Len(after) = MaxLen
                       /\ \A i \in 1 .. Len(after) : after[i] = (buf \o one)[i + d]
  BY <1>1, <1>2
<1>4. Len(after) \in Nat /\ Len(buf) \in Nat /\ Len(after) >= 1
  BY <1>2, <1>3, ObservabilityAssumption
<1>5. Len(after) \in 1 .. Len(after) /\ Len(after) \in DOMAIN after
  BY <1>2, <1>4
<1>6. after[Len(after)] = (buf \o one)[Len(after) + d]
  BY <1>3, <1>5
<1>7. after[Len(after)] = "http"
  BY <1>1, <1>3, <1>6
<1> QED BY <1>4, <1>5, <1>7 DEF after, one

LEMMA OneMorePost ==
    ASSUME NEW A \in SUBSET Slots, NEW s \in Slots \ A
    PROVE  /\ MaxBatch * Cardinality(A) \in Nat
           /\ MaxBatch * Cardinality(A \cup {s}) = MaxBatch * Cardinality(A) + MaxBatch
<1>1. IsFiniteSet(A)
  BY ObservabilityAssumption, FS_Subset
<1>2. PICK c \in Nat : c = Cardinality(A)
  BY <1>1, FS_CardinalityType
<1>3. Cardinality(A \cup {s}) = c + 1
  BY <1>1, <1>2, FS_AddElement
<1>4. MaxBatch * (c + 1) = MaxBatch * c + MaxBatch /\ MaxBatch * c \in Nat
  BY ObservabilityAssumption
<1> QED  BY <1>2, <1>3, <1>4

\* What a post leaves of StatsInv: no more than MaxBatch events more.
LEMMA PostingKeeps ==
    ASSUME StatsInv, NEW s \in Slots, req[s] # "posted",
           req' = [req EXCEPT ![s] = "posted"], answered' = answered,
           NEW events \in Seq(Events), Len(events) <= MaxBatch, buf' = Push(events)
    PROVE  StatsInv'
<1> DEFINE A == Posting
<1>1. DOMAIN req' = Slots /\ answered' \in BOOLEAN /\ Posting' = A \cup {s}
  BY DEF StatsInv, Posting
<1>2. A \in SUBSET Slots /\ s \in Slots \ A
  BY DEF Posting
<1>3. buf' \in Seq(Events) /\ Len(buf') <= MaxLen
  BY PushIs DEF StatsInv
<1>4. PICK n \in Nat : n = MaxBatch * Cardinality(A)
  BY <1>2, OneMorePost
<1>5. MaxBatch * Cardinality(A \cup {s}) = n + MaxBatch
  BY <1>2, <1>4, OneMorePost
<1>6. (MaxBatch * Cardinality(Posting))' = n + MaxBatch
  BY <1>1, <1>5
<1>7. ASSUME answered', n + MaxBatch < MaxLen
      PROVE  RequestWithin(MaxBatch * Cardinality(Posting))'
  <2>1. n < MaxLen
    BY <1>7, ObservabilityAssumption
  <2>2. PICK p \in DOMAIN buf : buf[p] = "http" /\ Len(buf) - p <= n
    BY <1>4, <1>7, <2>1 DEF StatsInv, RequestWithin
  <2> HIDE DEF A
  <2>3. Len(events) \in Nat /\ n + Len(events) < MaxLen /\ n + Len(events) <= n + MaxBatch
    BY <1>7, ObservabilityAssumption
  <2>4. buf \in Seq(Events) /\ Len(buf) <= MaxLen
    BY DEF StatsInv
  <2>5. PICK q \in DOMAIN Push(events) :
           Push(events)[q] = buf[p] /\ Len(Push(events)) - q <= n + Len(events)
    BY <2>2, <2>3, <2>4, PushKeepsLast
  <2>6. q \in Nat /\ Len(Push(events)) \in Nat
    BY <1>3
  <2>7. q \in DOMAIN buf' /\ buf'[q] = "http" /\ Len(buf') - q <= n + MaxBatch
    BY <2>2, <2>3, <2>5, <2>6, ObservabilityAssumption
  <2> QED  BY <1>6, <2>7 DEF RequestWithin
<1> QED  BY <1>1, <1>3, <1>6, <1>7 DEF StatsInv

LEMMA PushNothing ==
    ASSUME buf \in Seq(Events), Len(buf) <= MaxLen
    PROVE  Push(<< >>) = buf
<1>1. buf \o << >> = buf
  BY ConcatEmptySeq
<1> QED BY <1>1 DEF Push

LEMMA StatsInit == Init => StatsInv
<1> SUFFICES ASSUME Init PROVE StatsInv
  OBVIOUS
<1>1. DOMAIN req = Slots /\ answered = FALSE /\ buf = << >>
  BY DEF Init
<1>2. << >> \in Seq(Events) /\ Len(<< >>) <= MaxLen
  BY ObservabilityAssumption
<1> QED BY <1>1, <1>2 DEF StatsInv

LEMMA StatsStep ==
    ASSUME StatsInv, [Next]_vars
    PROVE  StatsInv'
<1>0. /\ DOMAIN req = Slots /\ buf \in Seq(Events) /\ Len(buf) <= MaxLen
  BY DEF StatsInv
<1>1. CASE UNCHANGED vars
  BY <1>1 DEF StatsInv, Posting, RequestWithin, vars
<1>2. ASSUME NEW s \in Slots, req[s] # "posted", NEW v, v # "posted",
             req' = [req EXCEPT ![s] = v], UNCHANGED <<buf, answered>>
      PROVE  StatsInv'
  <2>1. Posting' = Posting /\ DOMAIN req' = Slots
    BY <1>0, <1>2 DEF Posting
  <2> QED BY <1>2, <2>1 DEF StatsInv, RequestWithin
<1>4. ASSUME NEW s \in Slots, NEW op \in {"login", "push", "stats", "other"}, Arrive(s, op)
      PROVE  StatsInv'
  BY <1>2, <1>4 DEF Arrive
<1>5. ASSUME NEW s \in Slots, NEW h \in Hosts, Login(s, h) PROVE StatsInv'
  BY <1>2, <1>5 DEF Login
<1>6. ASSUME NEW s \in Slots, NEW n \in Posted, NEW kind \in Kinds,
             PushFrontendEvents(s, n, kind)
      PROVE  StatsInv'
  <2> DEFINE events == [i \in 1 .. Cut(n) |-> kind]
  <2>1. Cut(n) \in Nat /\ Cut(n) <= MaxBatch
    BY ObservabilityAssumption DEF Cut
  <2>2. events \in [1 .. Cut(n) -> Events]
    BY DEF Events
  <2>3. req[s] # "posted" /\ buf' = Push(events)
        /\ req' = [req EXCEPT ![s] = "posted"] /\ answered' = answered
    BY <1>6 DEF PushFrontendEvents
  <2> HIDE DEF events
  <2>4. events \in Seq(Events) /\ Len(events) = Cut(n)
    BY <2>1, <2>2
  <2> QED BY <2>1, <2>3, <2>4, PostingKeeps
<1>7. ASSUME NEW s \in Slots, GetStats(s) PROVE StatsInv'
  <2>1. PICK v \in {"failed", "answered"} : req' = [req EXCEPT ![s] = v]
    BY <1>7 DEF GetStats
  <2> QED BY <1>2, <1>7, <2>1 DEF GetStats
<1>8. ASSUME NEW s \in Slots, Handle(s) PROVE StatsInv'
  <2>1. PICK v \in {"answered", "failed"} : req' = [req EXCEPT ![s] = v]
    BY <1>8 DEF Handle
  <2> QED BY <1>2, <1>8, <2>1 DEF Handle
<1>9. ASSUME NEW s \in Slots, Log(s) PROVE StatsInv'
  <2>1. CASE req[s] = "failed"
    <3>1. AccessEvent(s) = << >>
      BY <2>1 DEF AccessEvent
    <3>2. buf' = buf /\ req' = [req EXCEPT ![s] = "idle"]
      BY <1>0, <1>9, <3>1, PushNothing DEF Log
    <3>3. answered' = answered
      BY <1>9, <2>1 DEF Log, StatsInv
    <3> QED BY <1>2, <2>1, <3>2, <3>3
  <2>2. CASE req[s] # "failed"
    <3>1. buf' = Push(<<"http">>) /\ req' = [req EXCEPT ![s] = "idle"]
      BY <1>9, <2>2 DEF Log, AccessEvent
    <3>2. <<"http">> \in Seq(Events)
      BY DEF Events
    <3>3. buf' \in Seq(Events) /\ Len(buf') <= MaxLen
      BY <1>0, <3>1, <3>2, PushIs
    <3>4. PICK n \in Nat : n = (MaxBatch * Cardinality(Posting))'
      <4>1. Posting' \in SUBSET Slots
        BY DEF Posting
      <4>2. Cardinality(Posting') \in Nat
        BY <4>1, ObservabilityAssumption, FS_Subset, FS_CardinalityType
      <4> QED BY <4>2, ObservabilityAssumption
    <3>5. ASSUME n < MaxLen PROVE RequestWithin(MaxBatch * Cardinality(Posting))'
      <4>1. MaxLen > 0
        BY <3>4, <3>5, ObservabilityAssumption
      <4>2. PICK q \in DOMAIN buf' : buf'[q] = "http" /\ Len(buf') - q = 0
        BY <1>0, <3>1, <4>1, LoggedIsLast
      <4> QED BY <3>4, <4>2 DEF RequestWithin
    <3>6. DOMAIN req' = Slots /\ answered' \in BOOLEAN
      BY <1>0, <1>9, <3>1 DEF Log
    <3> QED BY <3>3, <3>4, <3>5, <3>6 DEF StatsInv
  <2> QED BY <1>9, <2>1, <2>2 DEF Log
<1>10. CASE Tick
  BY <1>10 DEF Tick, StatsInv, Posting, RequestWithin
<1>11. CASE Restart
  <2>1. DOMAIN req' = Slots /\ answered' = FALSE /\ buf' = << >>
    BY <1>11 DEF Restart
  <2>2. << >> \in Seq(Events) /\ Len(<< >>) <= MaxLen
    BY ObservabilityAssumption
  <2> QED BY <2>1, <2>2 DEF StatsInv
<1> QED BY <1>1, <1>4, <1>5, <1>6, <1>7, <1>8, <1>9, <1>10, <1>11 DEF Next

\* Once a request was answered, the statistics have something to count,
\* whatever the front end posts and however many requests are in flight, until
\* its posts on the way are enough to fill the buffer (telemetry.py:136).
THEOREM StatsHaveRequests == Spec => StatsFailOnlyWhenFlooded
<1>1. Init => StatsInv
  BY StatsInit
<1>2. ASSUME StatsInv, [Next]_vars
      PROVE  [\A s \in Slots :
                 req[s] = "stats" /\ req'[s] = "failed"
                 => ~answered \/ MaxLen <= MaxBatch * Cardinality(Posting)]_vars
  <2> SUFFICES ASSUME Next, NEW s \in Slots, req[s] = "stats", req'[s] = "failed", answered
               PROVE  MaxLen <= MaxBatch * Cardinality(Posting)
    BY <1>2
  <2>1. DOMAIN req = Slots
    BY <1>2 DEF StatsInv
  <2>2. GetStats(s)
    BY <2>1 DEF Next, Arrive, Login, PushFrontendEvents, GetStats, Handle, Log, Tick, Restart
  <2>3. Requests = {}
    BY <2>1, <2>2 DEF GetStats
  <2>4. ~ \E p \in DOMAIN buf : buf[p] = "http"
    BY <2>3 DEF Requests
  <2>5. ~ (MaxBatch * Cardinality(Posting) < MaxLen)
    BY <1>2, <2>4 DEF StatsInv, RequestWithin
  <2>6. MaxBatch * Cardinality(Posting) \in Nat
    <3>1. Cardinality(Posting) \in Nat
      BY ObservabilityAssumption, FS_Subset, FS_CardinalityType DEF Posting
    <3> QED BY <3>1, ObservabilityAssumption
  <2> QED BY <2>5, <2>6, ObservabilityAssumption
<1> QED BY <1>1, <1>2, StatsStep, PTL DEF Spec, StatsFailOnlyWhenFlooded

\* What a process remembers of a host's attempts and of the events is bounded,
\* whatever is asked of it: a refused attempt is not remembered
\* (rate_limit.py:26), and the oldest event makes room (access_log.py:197).
THEOREM MemoryIsBounded ==
    Spec => []((\A h \in Hosts : Len(buckets[h]) <= MaxPerMinute) /\ Len(buf) <= MaxLen)
<1>1. Init => LimitInv /\ StatsInv
  BY NoAttempts, StatsInit DEF Init, LimitInv
<1>2. LimitInv /\ StatsInv =>
         (\A h \in Hosts : Len(buckets[h]) <= MaxPerMinute) /\ Len(buf) <= MaxLen
  BY DEF LimitInv, HostInv, StatsInv
<1> QED BY <1>1, <1>2, LimitStep, StatsStep, PTL DEF Spec
=============================================================================
