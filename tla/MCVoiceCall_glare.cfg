\* Two calls that cross.
SPECIFICATION Spec
CONSTANTS
    a = a
    b = b
    ann = ann
    bob = bob
    Users <- Two
    Names = {ann, bob}
    Blank = Blank
    Takes <- OwnNames
    Dials <- BothCall
    MayFail = FALSE
    MaxCalls = 1
    MaxLinks = 1
    MaxMade = 5
    NoName = NoName
    NoSocket = NoSocket
    NoSdp = NoSdp
    NoConn = NoConn
INVARIANT SentAsGenerated
CHECK_DEADLOCK FALSE
