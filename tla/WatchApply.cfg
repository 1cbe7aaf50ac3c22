SPECIFICATION FairSpec
CONSTANTS
    Sessions = {a, d}
    Stored = {d}
    Shared = {d}
    Flat = {a}
    FileStore = store
    Root = root
    Events = {"chrome", "trace", "vanish", "open", "rearm", "fail", "rebuild"}
    MaxEvents = 3
PROPERTY WritesAreTold
PROPERTY ListIsHeard
CHECK_DEADLOCK FALSE
