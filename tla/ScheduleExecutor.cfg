\* Overlapping operators and calls, faults, over the scopes.
SPECIFICATION Spec
CONSTANTS
    Documents <- MCDocuments
    Operator = {o1, o2}
    Templates = {x1, x2}
    NoTemplate = NoTemplate
    Prefixes = {p1, p2}
    Days = {1}
    Times = {9, 10}
    Scopes <- MCScopes
    Caller = {e1, e2}
    Keys = {"k1", "k2"}
    Months = {1}
SYMMETRY Symmetry
INVARIANTS
    TypeOK
    VersionsStand
    OneDeliveryPerRun
    FileIsDeliverys
\* The bounds of the scopes run out.
CHECK_DEADLOCK FALSE
