SPECIFICATION Spec
CONSTANTS
    Sessions = {a, b}
    StoreSessions = {b}
    SharedSessions = {b}
    Poller = poll
    Workers = {poll, w1}
    Clients = {c1}
    DeltaKeep = 2
    Events = {"chrome", "child", "vanish"}
    MaxEvents = 2
INVARIANT DeltasCatchUp
PROPERTY ChromeNeverGoesBack
CHECK_DEADLOCK FALSE
