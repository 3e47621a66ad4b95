SPECIFICATION MCFairSpec
CONSTANTS
    Calls = {c1, c2}
    Streams = {stdout}
    None = None
    Faults = {}
    MaxConcurrent = 1
    MaxBytes = 1
    MaxChunk = 1
    MaxOutput = 0
    MaxIds = 2
    MaxCrashes = 0
PROPERTIES
    RequestsReturn
    ProcessEnds
CHECK_DEADLOCK FALSE
