SPECIFICATION Spec
CONSTANTS
    Codes <- MCCodes
    Requests <- MCRequests
    Frames <- MCFrames
    MaxRequests = 2
    MaxFrames = 2
    Offsets <- MCOffsets
    SplitLong = TRUE
INVARIANTS
    FramesIntact
CHECK_DEADLOCK FALSE
