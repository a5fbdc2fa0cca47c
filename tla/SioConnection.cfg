\* Two connections, three calls and one retry in a row.
SPECIFICATION FairSpec
CONSTANTS
    MaxSessions = 2
    MaxCalls = 3
    Attempts = 1
    PromptUser = TRUE
INVARIANT SioConnectionTypeOK
INVARIANT OneSession
INVARIANT OpenedHasSession
INVARIANT PingFindsSession
PROPERTY NoSessionAfterClose
PROPERTY ClosingEndsUnlessEarly
PROPERTY DropIsRetried
PROPERTY NormalEndIsFinal
CHECK_DEADLOCK FALSE
