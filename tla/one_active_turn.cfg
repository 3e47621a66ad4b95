SPECIFICATION MCSendSpec
CONSTANTS
    Sessions = {s1}
    Turns = {t1, t2}
    Calls = {c1, c2}
    None = None
    Operations <- AllOperations
    Faults = {}
    RefsMayChange = FALSE
    MaxCrashes = 0
SYMMETRY Symmetry
INVARIANTS
    OneActiveTurn
CHECK_DEADLOCK FALSE
