CONSTANTS
    Proc = {p1, p2}
    MaxListeners = 2
    MaxHandles = 3
    MaxPending = 1
SPECIFICATION FairSpec
PROPERTY KillWaitWakes
CHECK_DEADLOCK FALSE
