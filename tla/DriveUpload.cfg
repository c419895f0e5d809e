SPECIFICATION FairSpec
CONSTANTS
    Sizes <- EmptyOrFive
    Chunk = 2
    MaxRecover = 3
    MaxRestarts = 1
    MaxLate = 2
    MaxOdd = 2
    OddForever = FALSE
INVARIANTS
    TypeOK
    WholeFile
    OneCopy
PROPERTIES
    KeepsUploadPromise
    Terminates
CHECK_DEADLOCK FALSE
