\* The answer may carry a header of extensions that cannot be parsed.
SPECIFICATION Spec
CONSTANTS
    Answers = {"accept", "mangle"}
    MaxSends = 1
    MaxFrames = 1
    MaxQueue = 1
INVARIANT KilledWhenRefused
CHECK_DEADLOCK FALSE
