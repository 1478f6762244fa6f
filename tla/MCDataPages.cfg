CONSTANTS
    data_pages = 3
    Reqs = {r1, r2}
    MaxSegs = 3
    Reserves = {0, 2}
    U32 = 5
    NoOwner = NoOwner
SYMMETRY PagesSymmetry
SPECIFICATION Spec
INVARIANTS
    PagesExclusive
    OwnedHasPage
    CountExact
CHECK_DEADLOCK FALSE
