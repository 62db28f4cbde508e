SPECIFICATION FairSpec
CONSTANTS
    LengthWidth = 2
    TypeLenWidth = 1
    Reader = Reader
    Writer = Writer
    Users = {u1}
    Closers <- MCClosers
    Inputs <- MCInputs
    MaxSubmitted = 1
    Sends <- MCSends
INVARIANTS TypeOK OutputIntact InputIntact NoBacklog LengthsReported
PROPERTY CloseEndsLoops
CHECK_DEADLOCK FALSE
