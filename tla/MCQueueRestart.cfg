CONSTANTS
    num_queues = 2
    Reqs = {r1, r2}
    Completers = {c1}
    Removers = {"netlink"}
    Forces = {FALSE}
    QueueOps = {"stop", "start"}
    MaxIssues = 3
    MaxFails = 1
    MaxReposts = 0
SYMMETRY QueueSymmetry
SPECIFICATION Spec
INVARIANTS
    StoppingHasInflight
CHECK_DEADLOCK FALSE
