SPECIFICATION FairSpec
CONSTANTS
    s1 = s1
    s2 = s2
    m1 = m1
    y1 = y1
    y2 = y2
    Sched <- TwoSlots
    Manual <- OneManual
    Sync <- OneSync
    FaultKinds <- DistinctFaults
    MaxFaults = 1
    MaxEdits = 2
INVARIANTS
    TypeOK
    OncePerSlot
    TickedMeansFile
    NothingBeforeReady
    FilesAreReal
PROPERTIES
    TableCatchesUp
    
