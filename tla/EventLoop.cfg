SPECIFICATION FairSpec
CONSTANTS
    Producers = {p1, p2}
    Stoppers = {s1, s2}
    Loop = loop
    Tasks = {1, 2, 3}
    Fds = {f1}
    EventFd = eventFd
    WaitEventsBegin = 1
INVARIANTS
    TypeOK
    WakeupInv
    NoLostWakeup
    WakesBounded
PROPERTIES
    ImplementsTaskQueue
    CloseReturns
CHECK_DEADLOCK FALSE
ACTION_CONSTRAINT TasksInOrder
