CONSTANTS
    CMDR_SIZE = 7
    CMDR_RESERVED = 1
    U32 = 64
    CmdSizes = {2, 3}
    Reqs = {r1, r2, r3}
    Completers = {c1, c2}
    NoOwner = NoOwner
SPECIFICATION FairSpec
INVARIANTS
    RingBound
    Tiling
    SeIntact
    IdleRingEmpty
PROPERTIES
    ImplementsChannel
    SubmittedIsTaken
CHECK_DEADLOCK FALSE
