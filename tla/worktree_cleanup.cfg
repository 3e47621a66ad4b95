SPECIFICATION MCSpec
CONSTANTS
    Names = {n1, n2}
    Sessions = {s1, s2}
    Calls = {c1, c2}
    Invocations = {k1}
    None = None
    Scopes <- CleanupScopes
    MaxIds = 3
    MaxCrashes = 1
PROPERTY CleanupRespectsClaims
CHECK_DEADLOCK FALSE
