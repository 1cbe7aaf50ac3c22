SPECIFICATION TimedSpec
CONSTANTS
    Notes = {n1, n2}
    Editors = {e1, e2}
    Local = {e1}
    Old = old
    None = none
    Owner = owner
    Tui = tui
    Events = {"crash", "remount", "timeout"}
    MaxEvents = 1
PROPERTY PromiseKeptByOne
PROPERTY SentIsAnswered
CHECK_DEADLOCK FALSE
