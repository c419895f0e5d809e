\* The schedule page, the retention review and the workbook writer, one per behaviour.
SPECIFICATION Spec
CONSTANTS
    Viewer = {v1, v2}
    Jobs = {"coin", "extra"}
    Expected <- MCExpected
    Configs <- MCConfigs
    Absent = Absent
    Definitions = {"report"}
    Ttl = 2
    MaxTime = 3
    MaxViews = 3
    MaxChanges = 1
    Ids = {d1, d2}
    Records = {"log"}
    Dates <- MCDates
    RecordDays <- MCRecordDays
    DeliveryDays = 1
    ObjectDays = 1
    Objects = {"a", "b"}
    Reviewed = {"a"}
    ScanLimits = {1, 2}
    CandidateLimit = 2
    MaxRecords = 3
    BatchSize = 2
    Gone = Gone
    MaxDay = 3
    MaxEvents = 3
    MaxRuns = 3
    Templates <- MCTemplates
    ConnectionOf <- MCConnectionOf
    MashupConnections = {"loaded", "staging"}
    MashupItems <- MCItems
    Ledger = "ledger"
    Blocks <- MCBlocks
    MaxRows = 3
SYMMETRY Symmetry
INVARIANTS
    TypeOK
    PageIsRecent
    SavedIsSound
PROPERTIES
    DeletionIsTheListed
\* The bounds run out, and a saved workbook is done.
CHECK_DEADLOCK FALSE
