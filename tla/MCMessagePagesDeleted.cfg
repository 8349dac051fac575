CONSTANTS
    Tick = 2
    PageSize = 2
    MaxMessages = 4
    Gap = {1, 3, 4}
SPECIFICATION Spec
CHECK_DEADLOCK FALSE
PROPERTY
    DeletedNotShown
