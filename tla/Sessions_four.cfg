CONSTANTS
    Proc = {p1, p2, p3, p4}
    MaxListeners = 2
    MaxHandles = 3
    MaxPending = 1
SPECIFICATION Spec
INVARIANT TypeOK
INVARIANT OpenedIsExact
INVARIANT SlotsExact
SYMMETRY Symmetry
CHECK_DEADLOCK FALSE
