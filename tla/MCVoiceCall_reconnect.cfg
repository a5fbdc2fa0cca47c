\* One user dials twice; either client may lose the server and come back without a name, both may claim one name, and calls are rejected and fail.
SPECIFICATION Spec
CONSTANTS
    a = a
    b = b
    ann = ann
    bob = bob
    Users <- Two
    Names = {ann, bob}
    Blank = Blank
    Takes <- AnnTwice
    Dials <- AnnCallsBob
    MayFail = TRUE
    MaxCalls = 2
    MaxLinks = 2
    MaxMade = 3
    NoName = NoName
    NoSocket = NoSocket
    NoSdp = NoSdp
    NoConn = NoConn
PROPERTY ServerOfCalls
PROPERTY DiesInTwoWays
CHECK_DEADLOCK FALSE
