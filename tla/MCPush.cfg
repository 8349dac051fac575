CONSTANTS
    alice = alice
    bob = bob
    own = own
    chat = chat
    Nil = Nil
    Account <- MCAccount
    Founder = alice
    Latest = "v3"
    Guest = {g1, g2}
    Page = {p1, p2}
    Phone = {i1, t1}
    Iphone = {i1}
    Version = {"v2", "v3"}
    Subscribable <- MCSubscribable
    Own <- MCOwn
    Requests = 3
    Registrations = 3
    Webhooks = 3
    MaxChanges = 4
    Workers = 2
SPECIFICATION FairSpec
CHECK_DEADLOCK FALSE
INVARIANTS
    TypeOK
    NoGhost
    NotForgotten
    AdminKept
    PagesFollow
    PhoneHandedOn
    DuplicatesBounded
    PushedOnce
PROPERTY
    PushesEnd
