CONSTANTS
    alice = alice
    bob = bob
    carol = carol
    User <- MCUser
    Request = {r1, r2, r3, r4, r5}
    Creator = alice
    Participants <- MCParticipants
    Listening <- MCListening
    Subject = {s1, s2}
    Workers = 1
SPECIFICATION Spec
SYMMETRY MCSymmetry
CHECK_DEADLOCK FALSE
PROPERTY
    ImplementsAccessList
