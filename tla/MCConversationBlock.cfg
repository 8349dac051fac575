CONSTANTS
    alice = alice
    bob = bob
    carol = carol
    User <- MCUser
    Request = {r1, r2, r3}
    Creator = alice
    Participants <- MCParticipants
    Listening <- MCListening
    Subject = {s1}
    Workers = 2
SPECIFICATION Spec
SYMMETRY MCSymmetry
CHECK_DEADLOCK FALSE
PROPERTY
    BlockLasts
