SPECIFICATION FairSpec
CONSTANTS
    Screens = {1, 2}
    Modes = {"attached","offline"}
    Events = {"close","reload","tab","fail","home"}
    MaxWrites = 2
    MaxEvents = 1
INVARIANT HeldByOne
PROPERTY ScreensNeverGoBack
PROPERTY RowsAreFetched
CHECK_DEADLOCK FALSE
