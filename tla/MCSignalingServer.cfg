\* Three connections and two names: names are contested, given up and claimed again.
SPECIFICATION BoundedSpec
CONSTANTS
    Sockets = {s1, s2, s3}
    Names = {ann, bob}
    NoSocket = NoSocket
    NoName = NoName
    Payloads = {sdp}
    MaxInbox = 1
SYMMETRY Symmetry
INVARIANT ServerTypeOK
INVARIANT DirectoryLive
PROPERTY NameKeptUntilClaimedOrLeft
CHECK_DEADLOCK FALSE
