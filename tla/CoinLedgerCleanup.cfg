SPECIFICATION Spec
CONSTANTS
    s1 = s1
    s2 = s2
    m1 = m1
    Sched <- OneSlot
    Manual <- OneManual
    NumFiles = 3
    FaultKinds <- ReportedFaults
    MaxFaults = 2
    OutliveStale = TRUE
INVARIANTS
    OnlyCompleteData
    NoPartialSet
