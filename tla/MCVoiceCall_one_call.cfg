\* A single call that may be answered, rejected, ended by either side or broken.
SPECIFICATION FairSpec
CONSTANTS
    a = a
    b = b
    ann = ann
    bob = bob
    Users <- Two
    Names = {ann, bob}
    Blank = Blank
    Takes <- OwnNames
    Dials <- AnnCallsBob
    MayFail = TRUE
    MaxCalls = 1
    MaxLinks = 1
    MaxMade = 5
    NoName = NoName
    NoSocket = NoSocket
    NoSdp = NoSdp
    NoConn = NoConn
INVARIANT CallTypeOK
INVARIANT NobodyCrashes
INVARIANT InCallHasPeer
INVARIANT IdleIsSilent
PROPERTY CallEndsWithItsPeer
PROPERTY CallerHearsBackUnlessLeft
PROPERTY HangupHeard
CHECK_DEADLOCK FALSE
