SPECIFICATION MCFairSpec
CONSTANTS
    Messages = {m1, m2}
    Recipients = {r1}
    Tasks = {t1, t2}
    Waker = Waker
    Starter = Starter
    None = None
    Policies = {"defer"}
    Operations = {}
    Faults = {}
    MaxRetries = 0
    MaxLost = 0
    MaxTurns = 1
    MaxBacklog = 1
    MaxCrashes = 0
PROPERTIES
    DeferredIsResumed
CHECK_DEADLOCK FALSE
