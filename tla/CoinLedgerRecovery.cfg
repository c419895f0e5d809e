SPECIFICATION JobSpec
CONSTANTS
    s1 = s1
    s2 = s2
    Sched <- TwoSlots
    Manual <- NoManual
    NumFiles = 2
    FaultKinds <- RecoveryFaults
    MaxFaults = 2
    OutliveStale = TRUE
    MaxCalls = 6
    LongWaitFrom = 4
PROPERTIES
    RetriesSuffice
CHECK_DEADLOCK FALSE
