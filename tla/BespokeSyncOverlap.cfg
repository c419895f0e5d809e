SPECIFICATION Spec
CONSTANTS
    s1 = s1
    s2 = s2
    m1 = m1
    y1 = y1
    y2 = y2
    Sched <- NoGenerator
    Manual <- NoGenerator
    Sync <- TwoSyncs
    FaultKinds <- NoFaults
    MaxFaults = 0
    MaxEdits = 2
PROPERTY
    NeverOlder
CHECK_DEADLOCK FALSE
