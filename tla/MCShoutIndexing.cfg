CONSTANTS
    Shout = {s1, s2}
    Requests = 2
    ClientOp = {"create", "edit", "delete", "deactivate"}
    Edits <- MCEdits
    Linked = TRUE
    Workers = 2
    None = None
SPECIFICATION Spec
SYMMETRY MCSymmetry
CHECK_DEADLOCK FALSE
INVARIANTS
    TypeOK
    RowIndexed
    ItemIndexed
    UnmutedBounded
