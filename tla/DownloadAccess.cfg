\* Overlapping administrators and tabs, faults and time, over the scopes.
SPECIFICATION Spec
CONSTANTS
    Admin = {a1, a2}
    Names = {n1, n2}
    Scopes <- MCScopes
    Tabs = {t1, t2}
    FileKeys = {k1, k2}
    Checks <- MCChecks
    Limit <- MCLimit
    LongChecks <- MCLongChecks
    MaxAttempts = 1
    MaxMails = 2
SYMMETRY Symmetry
INVARIANTS
    TypeOK
    ListSound
    LatestPinStands
    AttemptLimit
    DownloadsAreEntitled
    FetchedOnce
    UsedUpMeansFetched
PROPERTY
    CleanupSparesValid
\* The bounds of the scopes run out.
CHECK_DEADLOCK FALSE
