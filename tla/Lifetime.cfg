SPECIFICATION FairSpec
CONSTANTS
    TicksPerSecond = 2
    IdleTimes = {0, 3}
    Acceptors = {a1}
    Reader = Reader
    Writer = Writer
    User = User
    Timer = Timer
    Stopper = Stopper
    Closers <- MCClosers
INVARIANTS OnCloseOnce TimerKept
PROPERTIES ClosedWhenIdle IdleIsClosed TimersEnd StartEnds
CHECK_DEADLOCK FALSE
