\* Three emits over two connections; the socket may be removed once and made again.
SPECIFICATION FairSpec
CONSTANTS
    MaxEmits = 3
    MaxLinks = 2
    MaxSockets = 2
    PromptUser = TRUE
INVARIANT SioSocketTypeOK
INVARIANT NoTimerWhileConnected
INVARIANT StrandsAtMostOne
PROPERTY SentAfterAck
PROPERTY QueuedIsFlushed
PROPERTY ImplementsChannel
CHECK_DEADLOCK FALSE
