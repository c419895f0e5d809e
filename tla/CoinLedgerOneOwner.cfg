SPECIFICATION Spec
CONSTANTS
    s1 = s1
    s2 = s2
    m1 = m1
    Sched <- TwoSlots
    Manual <- NoManual
    NumFiles = 2
    FaultKinds <- NoFaults
    MaxFaults = 0
    OutliveStale = FALSE
INVARIANT
    OneOwner
