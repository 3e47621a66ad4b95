SPECIFICATION MCSpec
CONSTANTS
    Calls = {c1, c2}
    Streams = {stdout}
    None = None
    Faults = {"spawn", "store", "drop", "wait", "log"}
    MaxConcurrent = 1
    MaxBytes = 2
    MaxChunk = 2
    MaxOutput = 3
    MaxIds = 2
    MaxCrashes = 1
SYMMETRY Symmetry
INVARIANTS
    TypeOK
    ChildrenHavePermits
    KilledIsReported
    LogIsPrefix
PROPERTIES
    NothingAfterEnd
CHECK_DEADLOCK FALSE
