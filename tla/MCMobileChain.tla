---------------------------- MODULE MCMobileChain ----------------------------
(* Model-checking instances of MobileChain. *)
EXTENDS MobileChain, TLC

CONSTANTS s1, s2

Event(id, actor, device, key, request, hash) ==
    [id |-> id, actor |-> actor, device |-> device, key |-> key,
     request |-> request, hash |-> hash]

First1 == Event("e1", "anne", "d1", "k1", "r1", "h1")
Next1 == Event("e2", "anne", "d1", "k1", "r2", "h2")
OtherKey == Event("e3", "anne", "d1", "k2", "r3", "h3")
OtherActor == Event("e4", "paul", "d2", "k2", "r4", "h4")
\* The content of First1 under a new id.
Renamed == Event("e5", "anne", "d1", "k1", "r1", "h1")
SecondDevice == Event("e6", "anne", "d2", "k1", "r6", "h6")

Sent(user, events_) == [user |-> user, events |-> events_]

Uploads ==
    {Sent("anne", <<First1>>), Sent("anne", <<Next1>>), Sent("anne", <<First1, Next1>>),
     Sent("anne", <<OtherKey, First1>>), Sent("anne", <<OtherActor, Next1>>),
     Sent("paul", <<OtherActor>>), Sent("anne", <<Renamed>>),
     Sent("anne", <<First1, Next1, OtherKey>>), Sent("anne", <<Next1, SecondDevice>>)}

\* Batches that nothing but the chain keeps from being stored.
Unobjectionable == {Sent("anne", <<First1, Next1>>), Sent("paul", <<OtherActor>>)}

SlotSymmetry == Permutations(Slots)
=============================================================================
