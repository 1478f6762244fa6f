CONSTANTS
    num_queues = 1
    Reqs = {r1}
    Completers = {c1}
    Removers = {"netlink"}
    Forces = {FALSE}
    QueueOps = {}
    MaxIssues = 1
    MaxFails = 0
    MaxReposts = 0
SPECIFICATION Spec
INVARIANTS
    InflightFinishedFirst
CHECK_DEADLOCK FALSE
