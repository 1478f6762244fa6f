CONSTANTS
    num_queues = 1
    Reqs = {r1}
    Completers = {c1}
    Removers = {"timeout"}
    Forces = {}
    QueueOps = {"stop"}
    MaxIssues = 1
    MaxFails = 0
    MaxReposts = 0
SPECIFICATION Spec
PROPERTIES
    RemovingIsFinal
CHECK_DEADLOCK FALSE
