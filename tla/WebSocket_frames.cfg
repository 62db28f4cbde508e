SPECIFICATION Spec
CONSTANTS
    Codes <- MCCodes
    Requests <- MCRequests
    Frames <- MCFrames
    MaxRequests = 2
    MaxFrames = 2
    Offsets <- MCOffsets
    SplitLong = FALSE
INVARIANTS
    TypeOK
    FramesIntact
    UpgradeSound
    CloseCodeLegal
    PayloadUnmasked
CHECK_DEADLOCK FALSE
