CONSTANTS
    Devs = {0}
    Forces = {TRUE, FALSE}
    Envs <- AllEnvs
    MaxOpens = 2
    MaxMaps = 2
    NoDev = NoDev
SPECIFICATION FairSpec
INVARIANTS
    KrefExact
    LiveDiskHasDevice
    NoOops
    DiskFreedWithDevice
PROPERTIES
    RemovingStays
    CommandsReturn
CHECK_DEADLOCK FALSE
