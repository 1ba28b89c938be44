SPECIFICATION Spec
CONSTANTS
    None = None
    Tools = {s, t}
    Clients = {a, b}
    MaxFiles = 2
    KernelSize = 1
    HugeSize = 2
    MaxFlaws = 2
    MaxPins = 1
SYMMETRY Symmetry
INVARIANTS
    TypeOK
    MmapExclusive
    WaiterCanEnter
    HugepagesAccounted
    WritesInside
    MappedIsBuffer
CHECK_DEADLOCK FALSE
