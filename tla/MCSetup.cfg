CONSTANTS
    PAD64 = 4
    Devs = {a, b}
    NumQueues = 2
    Cpus = {w, x, y, z}
    MaxFiles = 1
    Envs <- MCEnvs
    NoDev = NoDev
    NoId = NoId
SYMMETRY SetupSymmetry
SPECIFICATION Spec
INVARIANTS
    NoOops
    NothingLeft
    Accounted
    NamesUnique
    ReplyFits
CHECK_DEADLOCK FALSE
