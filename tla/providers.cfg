SPECIFICATION MCSpec
CONSTANTS
    Sessions = {s1, s2}
    Calls = {c1, c2, c3}
    None = None
    Capacity = 1
    Scopes <- AcpScopes
    MaxTurns = 2
    MaxConns = 2
    CScopes <- ClaudeScopes
    MaxBridges = 1
    SoftLimit = 1
    MaxSpawns = 2
    MaxHandles = 3
    MaxBTurns = 2
SYMMETRY Symmetry
INVARIANTS
    NoMissedResult
    SlotsAreOwned
    ActiveTurnIsServed
    EventsReachSession
    WaitFindsTurn
CHECK_DEADLOCK FALSE
