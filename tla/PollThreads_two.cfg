SPECIFICATION FairSpec
CONSTANTS
    Consumers = 2
    BufSize = 3
    Word = 8
INVARIANTS
    TypeOK
    NoneRunsWhenDown
    OneRightUnlessStale
    
PROPERTIES
    StopReturns
