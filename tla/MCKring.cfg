CONSTANTS
    Procs = {p1, p2}
    Backend = p1
    Workers = {w1}
    EVENTS = 3
    Envs = {{"fork"}, {"readonly"}, {"late_open", "late_mmap", "late_write", "late_read"}}
SPECIFICATION FairSpec
INVARIANTS
    WakeNotLost
    ReadyIsNoticed
    OneBackend
    ReadersLeave
    NoOops
PROPERTIES
    CommandHandled
CHECK_DEADLOCK FALSE
