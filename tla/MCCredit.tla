------------------------------ MODULE MCCredit ------------------------------
(* Three users, one of whom owns the shout, and two promotion options.      *)
EXTENDS Credit, TLC

CONSTANTS alice, bob, carol

MCUser == {alice, bob, carol}

MCOwner == [s \in Shout |-> alice]

MCContacts == {<<alice, bob>>, <<alice, carol>>}

MCCost == [o \in Option |-> IF o = "premium" THEN 2 ELSE 1]

MCSymmetry == Permutations(Request) \cup Permutations({bob, carol})
=============================================================================
