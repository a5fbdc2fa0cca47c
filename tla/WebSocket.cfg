\* Two messages and two frames of the server, against every error and timeout.
SPECIFICATION FairSpec
CONSTANTS
    Answers = {"accept", "refuse"}
    MaxSends = 2
    MaxFrames = 2
    MaxQueue = 2
INVARIANT WebSocketTypeOK
INVARIANT NothingAfterClose
INVARIANT SentInOrder
PROPERTY QueueDrains
PROPERTY ImplementsSession
CHECK_DEADLOCK FALSE
