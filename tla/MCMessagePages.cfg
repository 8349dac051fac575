CONSTANTS
    Tick = 2
    PageSize = 2
    MaxMessages = 5
    Gap = {1, 3, 4}
SPECIFICATION Spec
CHECK_DEADLOCK FALSE
INVARIANTS
    TypeOK
    PageInOrder
    SpacedWalkComplete
PROPERTY
    NoRepeats
