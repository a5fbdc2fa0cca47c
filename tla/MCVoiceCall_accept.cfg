\* A second call rings while the first one is being torn down.
SPECIFICATION Spec
CONSTANTS
    a = a
    b = b
    ann = ann
    bob = bob
    Users <- Two
    Names = {ann, bob}
    Blank = Blank
    Takes <- OwnNames
    Dials <- AnnCallsBob
    MayFail = FALSE
    MaxCalls = 2
    MaxLinks = 1
    MaxMade = 5
    NoName = NoName
    NoSocket = NoSocket
    NoSdp = NoSdp
    NoConn = NoConn
PROPERTY AcceptAttachesOffer
CHECK_DEADLOCK FALSE
