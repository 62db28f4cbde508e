SPECIFICATION Spec
CONSTANTS
    NumLoops = 1
    Conns = {c1}
    NoConn = NoConn
    Fds = {f1}
    NoFd = NoFd
    EarlyStop = TRUE
CHECK_DEADLOCK FALSE
INVARIANT StopStopsLoops
