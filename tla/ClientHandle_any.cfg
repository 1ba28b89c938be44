CONSTANTS
    BufSize = 4
    Word = 6
SPECIFICATION Spec
INVARIANT TypeOK
INVARIANT HandleInSync
PROPERTY ReadOffsetNeverJumps
CHECK_DEADLOCK FALSE
