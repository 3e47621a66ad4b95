SPECIFICATION MCSpec
CONSTANTS
    Sessions = {s1}
    Turns = {t1, t2}
    Calls = {c1, c2}
    None = None
    Operations <- AllOperations
    Faults = {"handlers"}
    RefsMayChange = TRUE
    MaxCrashes = 1
SYMMETRY Symmetry
INVARIANTS
    TypeOK
    NoTerminalConflict
    OneWaiterPerTurn
    PendingApprovalHasWaitingTurn
    ActiveTurnIsRecorded
PROPERTIES
    DurableLifecycle
    TerminalTurnIsFinal
    RecoveryLeavesNoStaleTurn
CHECK_DEADLOCK FALSE
