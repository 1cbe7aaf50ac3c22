SPECIFICATION OwnerSpec
CONSTANTS
    Askers = {"a1", "a2"}
    Listeners = {"l1"}
    Joined = {"a1", "l1"}
    Catalog <- CatalogOrder
    Directories = {"s1", "s2"}
    Gate = 1
    Pipe = 1
    Calls <- CallsOf
    MaxCalls = 1
    MaxFaults = 1
    Nobody = nobody
    Threads = {t1, t2}
    MaxAsks = 2
    MaxMoves <- MovesOf
    Nothing = Nothing
    SessionDirs = {s1, s2}
    Builders = {owner}
    MaxVersion = 2
    MaxBuilds = 3
    None = None
    Harnesses = {"claude", "codex", "gemini", "pi", "grok", "cursor", "antigravity", "opencode", "copilot"}
    MaxWrites = 2
    MaxBreaks = 1
    MaxArchives = 2
    NoArchive = NoArchive
INVARIANT StreamOrder
PROPERTY CallsEnd
PROPERTY ListenersCatchUp
INVARIANT OverviewHasTheNotes
PROPERTY AskersAnswered
INVARIANT ListIsCurrent
INVARIANT ImportedIsArchived
INVARIANT AnsweredDeletesAreGone
CHECK_DEADLOCK FALSE
