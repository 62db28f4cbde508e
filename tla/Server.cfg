SPECIFICATION FairSpec
CONSTANTS
    NumLoops = 2
    Conns = {c1, c2}
    NoConn = NoConn
    Fds = {f1, f2}
    NoFd = NoFd
    EarlyStop = FALSE
CHECK_DEADLOCK FALSE
INVARIANTS TypeOK OwnFd CountsSockets NoNilMapWrite StopStopsLoops
PROPERTIES StopEndsServer AcceptedIsOpened
