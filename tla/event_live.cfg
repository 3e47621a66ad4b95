SPECIFICATION FairSpec
CONSTANTS
    Scopes = {s1, s2}
    Followed = s1
    PollScope = None
    Tasks = {t1, t2}
    Clients = {c1}
    Pollers = {p1}
    None = None
    Capacity = 1
    PageLimit = 1
    MaxEvents = 2
    MaxCrashes = 1
INVARIANTS
    TypeOK
    HandoverLosesNothing
    NoRedelivery
    PollerFollowsLog
PROPERTIES
    EventIsPolled
    EventIsStreamed
CHECK_DEADLOCK FALSE
