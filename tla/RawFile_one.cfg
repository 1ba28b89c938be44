CONSTANTS
    FileSize = 64
    BufBytes = 32
    RawHlen = 4
    LenMod = 16
    Records = {6, 8, 11}
    Consumers = 1
SPECIFICATION RawSpec
INVARIANT RawTypeOK
INVARIANT RecordsTileUntilMisread
