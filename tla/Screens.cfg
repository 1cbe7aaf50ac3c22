SPECIFICATION ScreensSpec
CONSTANTS
    TurnOf <- TurnOfInstance
    Prompted = {1}
    Hits = {2, 4}
    PageSize = 2
    FirstTotal = 5
    Fillers = {1}
    MaxEdits = 2
    Unnumbered = Unnumbered
    EventKinds = {"started", "ended", "user", "agent", "system"}
    Numbers = {1}
    Stores = {"directory", "file"}
    Views = {"all", "user"}
    MaxEvents = 4
    Rows = {s1, s2}
    Loaders = {l1, l2}
    NoRow = NoRow
    MaxChanges = 1
    MaxOrders = 1
    Readers = {r1, r2}
    SearchWords = {w}
    MaxGrowth = 3
    MaxSearches = 2
INVARIANT RowsAreAPrefix
PROPERTY LatestIsFetched
INVARIANT EveryEventInOneTurn
INVARIANT OwnerStampsWin
PROPERTY LiveRowsSettle
PROPERTY TextIsFound
CHECK_DEADLOCK FALSE
