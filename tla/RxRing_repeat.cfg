CONSTANTS
    RingSize = 8
    Consumers = 2
    Batch = 2
    TailAlign = 2
    HasLockGuard = TRUE
    LockDistance = 2
SPECIFICATION Spec
INVARIANT NoUnreadReleased
CHECK_DEADLOCK FALSE
