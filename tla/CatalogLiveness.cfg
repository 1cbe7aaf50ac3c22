SPECIFICATION FairSpec
CONSTANTS
    Sessions = {a}
    StoreSessions = {a}
    SharedSessions = {}
    Poller = poll
    Workers = {poll, w1}
    Clients = {c1}
    DeltaKeep = 1
    Events = {"chrome", "meter", "appear", "vanish", "expire", "fail", "invalidate", "restart"}
    MaxEvents = 2
INVARIANT TypeOK
PROPERTY GoneIsUnlisted
PROPERTY ClientsCatchUp
CHECK_DEADLOCK FALSE
