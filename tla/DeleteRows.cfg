SPECIFICATION ArchivesSpec
CONSTANTS
    Harnesses = {"claude", "codex", "gemini", "pi", "grok", "cursor", "antigravity", "opencode", "copilot"}
    MaxWrites = 2
    MaxBreaks = 1
    MaxArchives = 2
    NoArchive = NoArchive
INVARIANT MissingIsMissing
CHECK_DEADLOCK FALSE
