CONSTANTS
    User = {alice, bob}
    Device = {alice}
    Requests = 3
    ClientOp = {"reply", "leave", "read_all", "unread", "read_one", "unread_one"}
    Workers = 2
    Null = Null
SPECIFICATION FairSpec
CHECK_DEADLOCK FALSE
INVARIANTS
    TypeOK
    AcknowledgedReads
    NotifiedOnce
    ReadByItsUser
    BadgeSettles
PROPERTY
    NotificationsDelivered
