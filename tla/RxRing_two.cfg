CONSTANTS
    RingSize = 6
    Consumers = 2
    Batch = 2
    TailAlign = 1
    HasLockGuard = TRUE
    LockDistance = 1
SPECIFICATION FairSpec
INVARIANT TypeOK
INVARIANT OneRightToFree
INVARIANT FramesKeptUntilRepeat
PROPERTY RingKeepsMovingUntilRepeat
CHECK_DEADLOCK FALSE
