SPECIFICATION QuerySpec
CONSTANTS
    QueryStories = {"presence"}
    Scopes = {"catalog"}
    MaxTokens = 0
    MaxSigns = 2
INVARIANT AnsweredRowsAreShown
CHECK_DEADLOCK FALSE
