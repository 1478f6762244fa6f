CONSTANTS
    num_queues = 1
    Reqs = {r1, r2}
    Completers = {c1, c2}
    Removers = {"netlink", "timeout"}
    Forces = {TRUE}
    QueueOps = {"stop"}
    MaxIssues = 3
    MaxFails = 1
    MaxReposts = 1
SYMMETRY QueueSymmetry
SPECIFICATION Spec
INVARIANTS
    OneOwner
    EndedHasSe
    ForcedRemovalDrains
PROPERTIES
    ImplementsBlockIO
    StoppedAdmitsNothing
CHECK_DEADLOCK FALSE
