CONSTANTS
    data_pages = 3
    Phys = {p1, p2, p3}
    NoPage = NoPage
    Reqs = {r1, r2}
    Bios <- MCBios
    PAGE_SIZE = 2
    SZ_4K = 2
    RING_SIZE = 4
    INLINE_PI_MAX = 1
    U32 = 16
    MaxUses = 2
SPECIFICATION Spec
SYMMETRY Symmetry
INVARIANTS
    WriteDelivered
    ReadDelivered
    PteCurrent
    SigbusOnlyRemoved
CHECK_DEADLOCK FALSE
