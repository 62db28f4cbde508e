SPECIFICATION FairSpec
CONSTANTS
    Users = {u1, u2}
    FrameLen = 2
    SendLen = 3
    PacketSize = 3
    SndBuf = 2
    MaxIn = 4
    MaxCalls = 2
INVARIANTS
    TypeOK
    OutputIntact
    InputIntact
    WriteInterest
PROPERTIES
    ClosedIsFinal
    EofIsGraceful
    OutputDrains
    EofCloses
CHECK_DEADLOCK FALSE
