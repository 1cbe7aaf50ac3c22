SPECIFICATION HomeSpec
CONSTANTS
    Sessions = {1, 2}
    Hits = {2}
    Extra = {}
    PageSize = 1
    Loaders = {1, 2}
    Acts = {"touch", "drop", "gap", "type", "reload", "delete", "fail"}
    MaxActs = 2
INVARIANT RevisionIsCovered
PROPERTY HomeCatchesUp
CHECK_DEADLOCK FALSE
