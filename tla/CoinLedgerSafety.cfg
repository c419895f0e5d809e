SPECIFICATION Spec
CONSTANTS
    s1 = s1
    s2 = s2
    m1 = m1
    Sched <- TwoSlots
    Manual <- OneManual
    NumFiles = 2
    FaultKinds <- DistinctFaults
    MaxFaults = 1
    OutliveStale = TRUE
SYMMETRY SlotSymmetry
INVARIANTS
    TypeOK
    OneScheduledVersion
    VersionsBacked
    VersionsDistinct
    NewestIsCurrent
    DoneMeansDelivered
    NoSecondCopy
PROPERTIES
    UrlAndActiveKept
    KeepsPromise
