CONSTANTS
    alice = alice
    bob = bob
    carol = carol
    User <- MCUser
    Shout = {s1}
    Owner <- MCOwner
    Contacts <- MCContacts
    Option = {"top", "premium"}
    Cost <- MCCost
    MaxListens = 1
    MaxUsage = 1
    Request = {r1, r2, r3}
    Workers = 2
    MaxJobs = 3
SPECIFICATION Spec
SYMMETRY MCSymmetry
CHECK_DEADLOCK FALSE
INVARIANTS
    TypeOK
    OverdraftBounded
    PromotionsBounded
    RewardedOnce
    ListensLimited
    CodesCounted
