SPECIFICATION RecordsSpec
CONSTANTS
    Jobs <- TwoJobs
    Monitors = {"j1", "j2"}
    LongEnds = {"j2"}
    Children <- TwoChildren
    Stories = {"jobs", "flows", "children"}
    MaxFacts = 3
    MaxKeys = 1
    QueryStories = {"presence", "typing"}
    Scopes = {"timeline"}
    MaxTokens = 3
    MaxSigns = 2
    PathOrder <- TwoPaths
    DiffStores = {"grok", "opencode", "other"}
    DiffFinds <- SomeFinds
    MaxWrites = 3
    MaxPaned = 2
    MaxRewinds = 1
    Servers = {"s", "t"}
    Methods = {"m"}
    Skills = {"k"}
    Launches <- SomeLaunches
    MaxCalls = 3
    Catalog <- SomeActions
    ReservedKeys = {"escape", "?"}
    ListNav = {"list.down"}
    PressedKeys = {"x", "y", "n", ";", "escape", "?"}
    KeyFiles <- SomeKeyFiles
    MaxArmings = 2
    Programs = {"terminal", "other"}
    Settings = {"theme", "window"}
    Shared = "window"
    Own = "own"
    MaxChanges = 3
    Unnumbered = Unnumbered
INVARIANT RowsLeadRight
INVARIANT RowsAreFresh
PROPERTY FinishIsKept
INVARIANT TimelineKeepsMatches
INVARIANT WritesAreListed
INVARIANT PaneShowsAHit
INVARIANT CallsAreConserved
INVARIANT RefusedInFull
PROPERTY LeaderHoldsItsTime
INVARIANT PrefsSurvive
CHECK_DEADLOCK FALSE
