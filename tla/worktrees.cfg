SPECIFICATION MCSpec
CONSTANTS
    Names = {n1, n2}
    Sessions = {s1, s2}
    Calls = {c1, c2}
    Invocations = {k1}
    None = None
    Scopes <- SafetyScopes
    MaxIds = 3
    MaxCrashes = 1
SYMMETRY Symmetry
INVARIANTS
    TypeOK
    RolledBackIsUndone
    AddedOnce
PROPERTIES
    OneClaimAfterRepair
    RepairRevivesNothing
CHECK_DEADLOCK FALSE
