SPECIFICATION MCLiveSpec
CONSTANTS
    Sessions = {s1}
    Turns = {t1, t2}
    Calls = {c1, c2}
    None = None
    Operations <- AllOperations
    Faults = {}
    RefsMayChange = FALSE
    MaxCrashes = 0
PROPERTIES
    RunningTurnEnds
    RequestsReturn
CHECK_DEADLOCK FALSE
