--------------------------- MODULE MCConversation ---------------------------
(* A creator, the profile he writes to and a third profile, with two web    *)
(* workers.                                                                 *)
EXTENDS Conversation, TLC

CONSTANTS alice, bob, carol

MCUser == {alice, bob, carol}

MCParticipants == {alice, bob}

\* carol listens to bob only: she gets in once bob is an admin, not before.
MCListening == {<<carol, bob>>, <<bob, alice>>}

MCSymmetry == Permutations(Request)
=============================================================================
