\* Three openings of the microphone in any order, packets on their way, a device pointer that may hold anything at the start, devices that fail.
SPECIFICATION Spec
CONSTANTS
    DeviceAtStart = {"null", "junk"}
    MayBreak = TRUE
    MaxOpens = 3
    MaxPackets = 4
INVARIANT AudioTypeOK
INVARIANT NoSourceLeft
INVARIANT StartedPlays
PROPERTY PlayedOnLiveDevice
CHECK_DEADLOCK FALSE
