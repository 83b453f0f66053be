SPECIFICATION BothSpec
CONSTANTS
    Jobs = {1, 2, 3}
    Maintenance = {}
    Env <- OwnEnvironment
    Limit = 2
    Timers = FALSE
    MaxFaults = 0
CHECK_DEADLOCK FALSE
INVARIANTS
    NoLostRelease
PROPERTIES
    EveryJobPrepared
