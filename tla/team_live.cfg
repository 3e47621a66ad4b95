SPECIFICATION MCFairSpec
CONSTANTS
    Messages = {m1, m2}
    Recipients = {r1}
    Tasks = {t1}
    Waker = Waker
    Starter = Starter
    None = None
    Policies = {"defer", "boundary", "interrupt"}
    Operations = {"delete", "close", "turn"}
    Faults = {}
    MaxRetries = 0
    MaxLost = 0
    MaxTurns = 1
    MaxBacklog = 2
    MaxCrashes = 0
PROPERTIES
    RequestsReturn
    HeadIsResumed
CHECK_DEADLOCK FALSE
