CONSTANTS
    num_queues = 2
    Reqs = {r1, r2}
    Completers = {c1}
    Removers = {"timeout"}
    Forces = {}
    QueueOps = {}
    MaxIssues = 2
    MaxFails = 1
    MaxReposts = 0
SPECIFICATION TimeoutSpec
PROPERTIES
    EveryRequestEnds
CHECK_DEADLOCK FALSE
