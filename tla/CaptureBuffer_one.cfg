CONSTANTS
    BufSize = 6
    OffsetMod = 12
    RawHlen = 1
    Records = {2, 3}
    Consumers = 1
    Listener = {l1, l2}
SPECIFICATION FairSpec
INVARIANT TypeOK
INVARIANT PublishedIsCopied
PROPERTY NoOverwrite
PROPERTY DataKeepsFlowing
PROPERTY ImplementsBroadcast
