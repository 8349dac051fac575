CONSTANTS
    User = {alice, bob}
    Device = {}
    Requests = 3
    ClientOp = {"reply", "read_all"}
    Workers = 2
    Null = Null
SPECIFICATION Spec
CHECK_DEADLOCK FALSE
PROPERTY
    ReadLeavesNoNotification
