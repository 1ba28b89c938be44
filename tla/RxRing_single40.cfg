CONSTANTS
    RingSize = 8
    Consumers = 1
    Batch = 3
    TailAlign = 2
    HasLockGuard = TRUE
    LockDistance = 2
SPECIFICATION Spec
INVARIANT FramesKept
