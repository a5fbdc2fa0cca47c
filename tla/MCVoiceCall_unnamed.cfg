\* A client comes back after a lost connection.
SPECIFICATION Spec
CONSTANTS
    a = a
    b = b
    ann = ann
    bob = bob
    Users <- Two
    Names = {ann, bob}
    Blank = Blank
    Takes <- OwnNames
    Dials <- AnnCallsBob
    MayFail = FALSE
    MaxCalls = 1
    MaxLinks = 2
    MaxMade = 5
    NoName = NoName
    NoSocket = NoSocket
    NoSdp = NoSdp
    NoConn = NoConn
INVARIANT ConnectedPeersAreNamed
CHECK_DEADLOCK FALSE
