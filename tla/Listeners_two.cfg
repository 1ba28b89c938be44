CONSTANTS
    BufSize = 4
    RawHlen = 1
    FrameLen = 2
    MaxListeners = 2
    Client = {c1, c2}
    NoClient = none
    AckBy = {"lstop"}
SPECIFICATION Spec
INVARIANT TypeOK
INVARIANT SlotsCounted
INVARIANT OffsetsAgreeUnlessRaced
INVARIANT StartsAtFrameUnlessRaced
PROPERTY NoOverwriteUnlessRaced
SYMMETRY Symmetry
