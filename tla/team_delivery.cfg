SPECIFICATION MCSpec
CONSTANTS
    Messages = {m1, m2}
    Recipients = {r1}
    Tasks = {t1, t2}
    Waker = Waker
    Starter = Starter
    None = None
    Policies = {"defer"}
    Operations = {"retry", "cancel"}
    Faults = {"store", "provider", "lag"}
    MaxRetries = 1
    MaxLost = 1
    MaxTurns = 0
    MaxBacklog = 1
    MaxCrashes = 1
SYMMETRY Symmetry
INVARIANTS
    TypeOK
    SentOnce
    RecoveryRepeatsNothing
    InjectedWasSent
PROPERTIES
    QueueOrder
CHECK_DEADLOCK FALSE
