SPECIFICATION FairSpec
CONSTANTS
    Owners = {legacy, old, p1, p2}
    Legacy = legacy
    Outdated = old
    Commands = {c1, c2}
    None = none
    MaxCrashes = 1
INVARIANT OneOwner
PROPERTY StartsEndWell
CHECK_DEADLOCK FALSE
