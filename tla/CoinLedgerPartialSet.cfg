SPECIFICATION Spec
CONSTANTS
    s1 = s1
    s2 = s2
    m1 = m1
    Sched <- OneSlot
    Manual <- NoManual
    NumFiles = 3
    FaultKinds <- LostAnswer
    MaxFaults = 1
    OutliveStale = FALSE
INVARIANT
    NoPartialSet
