CONSTANTS
    NSlots = 4
    MaxCmds = 2
    Completers = {c1, c2}
    MaxSubmits = 5
    MaxReposts = 1
SYMMETRY ComplSymmetry
SPECIFICATION Spec
INVARIANTS
    NoOverflow
    EntryIntact
    OwnResult
CHECK_DEADLOCK FALSE
