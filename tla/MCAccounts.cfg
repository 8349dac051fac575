CONSTANTS
    alice = alice
    bob = bob
    carol = carol
    a1 = a1
    a2 = a2
    e1 = e1
    e2 = e2
    None = None
    User <- MCUser
    Founder = alice
    Email = {e1, e2}
    Account <- MCAccount
    EmailOf <- MCEmailOf
    Request = {r1, r2, r3}
    Workers = 2
    Mixes <- MCMixes
SPECIFICATION Spec
SYMMETRY MCSymmetry
CHECK_DEADLOCK FALSE
INVARIANTS
    TypeOK
    DuplicatesBounded
    LinkDelivered
    LoginKept
    ActivatedVerified
