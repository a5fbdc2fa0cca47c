\* Both users call each other, twice each: crossed offers, redials, stale callbacks.
SPECIFICATION Spec
CONSTANTS
    a = a
    b = b
    ann = ann
    bob = bob
    Users <- Two
    Names = {ann, bob}
    Blank = Blank
    Takes <- OwnNames
    Dials <- BothCall
    MayFail = FALSE
    MaxCalls = 2
    MaxLinks = 1
    MaxMade = 5
    NoName = NoName
    NoSocket = NoSocket
    NoSdp = NoSdp
    NoConn = NoConn
SYMMETRY ExchangeUsers
INVARIANT Consent
INVARIANT PopupMeansAnswerer
PROPERTY RejectLeavesNoCall
PROPERTY OpenedOnce
CHECK_DEADLOCK FALSE
