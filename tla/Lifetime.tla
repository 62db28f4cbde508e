----------------------------- MODULE Lifetime -----------------------------
(***************************************************************************)
(* The life of a connection, from NewConnection to its end, in either      *)
(* build: with the event loop of connection.go, where Close queues         *)
(* handleClose, and with the goroutines of server_std.go, where Close does *)
(* its work in the caller's goroutine (module CloseStd).  It composes Close *)
(* with the idle timer (module IdleTimer), with Start and the goroutines   *)
(* that accept, and with Stop.  What flows through the connection is in    *)
(* Connection and ConnectionStd.                                           *)
(***************************************************************************)
EXTENDS CloseStd, IdleTimer

CONSTANTS
    Acceptors,        \* server_std.go: the NumLoops goroutines in Accept
    Reader, Writer,   \* server_std.go: the connection's two goroutines
    User, Timer, Stopper  \* a user's goroutine, the timer's function, and Stop

ASSUME ActorsAssumption ==
    /\ Closers = {Reader, Writer, User, Timer, Stopper}
    /\ Timer \notin {Reader, Writer, User, Stopper}

VARIABLES
    running,          \* Server.running
    startPc,          \* Start: "new", "waiting", "returned"
    stopPc,           \* Stop: "idle", "listener", "range", and what Range met;
                      \* "server": it goes on as in Server
    wheelStopped,     \* timingWheel.Stop has been called
    srvDying,         \* server_std.go: the server's channel dying is closed
    listening,        \* the listener has not been closed
    acceptPc,         \* where each accepting goroutine is
    accepted,         \* the client has been accepted
    stored,           \* server_std.go: it is in Server.connections
    readPc, writePc,  \* its goroutines: "new", "running", "exited"
    closeQueued       \* connection.go: handleClose is queued

stopVars == <<running, startPc, stopPc, wheelStopped, srvDying, listening>>
lifeVars == <<acceptPc, accepted, stored, readPc, writePc>>
vars == <<closeVars, timeVars, timerVars, stopVars, lifeVars, closeQueued>>

Init ==
    /\ connected = FALSE /\ CloseInit /\ TimerInit
    /\ running = FALSE /\ startPc = "new" /\ stopPc = "idle"
    /\ wheelStopped = FALSE /\ srvDying = FALSE /\ listening = TRUE
    /\ acceptPc = [a \in Acceptors |-> "new"]
    /\ accepted = FALSE /\ stored = FALSE /\ readPc = "new" /\ writePc = "new"
    /\ closeQueued = FALSE

\* Close, in the goroutine a.  connection.go leaves the work to the loop.
Close(a) ==
    \/ std /\ Enter(a) /\ UNCHANGED closeQueued
    \/ ~std /\ closeQueued' = (closeQueued \/ connected) /\ UNCHANGED closePc

-----------------------------------------------------------------------------
(* Start, and a client *)

Start ==
    /\ startPc = "new" /\ startPc' = "waiting" /\ running' = TRUE
    /\ acceptPc' = [a \in Acceptors |-> IF std THEN "top" ELSE "new"]
    /\ UNCHANGED <<stopPc, wheelStopped, srvDying, listening, accepted, stored, readPc,
                   writePc, closeVars, timerVars>>

\* sw.Wait of server_std.go counts every goroutine launched, but OnConnect is
\* taken to return; connection.go's wait is in Server.
StartReturns ==
    /\ std /\ startPc = "waiting" /\ startPc' = "returned"
    /\ \A a \in Acceptors : acceptPc[a] = "exited"
    /\ readPc # "running" /\ closePc[Reader] = "no"
    /\ writePc # "running" /\ closePc[Writer] = "no"
    /\ UNCHANGED <<running, stopPc, wheelStopped, srvDying, listening, lifeVars,
                   closeVars, timerVars>>

NewConnection ==
    /\ ~accepted /\ listening
    /\ accepted' = TRUE /\ connected' = TRUE /\ ArmTimer
    /\ UNCHANGED <<dying, sockClosed, closePc, onCloses, panicked>>

\* connection.go's client; its loop is in Server.
AcceptInLoop ==
    /\ ~std /\ startPc # "new"
    /\ NewConnection
    /\ UNCHANGED <<stopVars, acceptPc, stored, readPc, writePc>>

AcceptTop(a) ==
    /\ acceptPc[a] = "top"
    /\ acceptPc' = [acceptPc EXCEPT ![a] = IF srvDying THEN "exited" ELSE "accept"]
    /\ UNCHANGED <<accepted, stored, readPc, writePc, closeVars, timerVars>>

AcceptError(a) ==
    /\ acceptPc[a] = "accept" /\ ~listening
    /\ acceptPc' = [acceptPc EXCEPT ![a] = "top"]
    /\ UNCHANGED <<accepted, stored, readPc, writePc, closeVars, timerVars>>

Accept(a) ==
    /\ acceptPc[a] = "accept"
    /\ NewConnection
    /\ acceptPc' = [acceptPc EXCEPT ![a] = "store"]
    /\ UNCHANGED <<stored, readPc, writePc>>

Store(a) ==
    /\ acceptPc[a] = "store"
    /\ stored' = TRUE
    /\ acceptPc' = [acceptPc EXCEPT ![a] = "launch"]
    /\ UNCHANGED <<accepted, readPc, writePc, closeVars, timerVars>>

Launch(a) ==
    /\ acceptPc[a] = "launch"
    /\ readPc' = "running" /\ writePc' = "running"
    /\ acceptPc' = [acceptPc EXCEPT ![a] = "top"]
    /\ UNCHANGED <<accepted, stored, closeVars, timerVars>>

AcceptStep(a) ==
    /\ AcceptTop(a) \/ AcceptError(a) \/ Accept(a) \/ Store(a) \/ Launch(a)
    /\ UNCHANGED <<stopVars, closeQueued>>

-----------------------------------------------------------------------------
(* Stop *)

\* Only server_std.go has a channel to close.  Stop does nothing while the server
\* is not running.
Stop ==
    /\ running /\ running' = FALSE
    /\ srvDying' = std /\ wheelStopped' = TRUE
    /\ stopPc' = "listener"
    /\ UNCHANGED <<listening, closePc, closeQueued>>

StopListener ==
    /\ stopPc = "listener" /\ stopPc' = IF std THEN "range" ELSE "server"
    /\ listening' = FALSE
    /\ UNCHANGED <<running, wheelStopped, srvDying, closePc, closeQueued>>

\* Mutant: the connections are left to themselves.
StopRangeDropped ==
    /\ stopPc = "range" /\ stopPc' = "found"
    /\ UNCHANGED <<running, wheelStopped, srvDying, listening, closePc, closeQueued>>

\* Close of every connection in the map.
StopRange ==
    /\ stopPc = "range" /\ stopPc' = IF stored THEN "found" ELSE "missed"
    /\ IF stored THEN Close(Stopper) ELSE UNCHANGED <<closePc, closeQueued>>
    /\ UNCHANGED <<running, wheelStopped, srvDying, listening>>

StopNext == StopListener \/ StopRange

StopFrame ==
    UNCHANGED <<startPc, lifeVars, connected, dying, sockClosed, onCloses, panicked,
                timerVars>>

-----------------------------------------------------------------------------
(* The connection *)

\* Close of server_std.go: it stops the timer before it closes the socket.
CloseStep(a) ==
    \/ CloseDying(a) /\ UNCHANGED timerVars
    \/ CloseFlag(a) /\ UNCHANGED timerVars
    \/ CloseOnClose(a) /\ UNCHANGED timerVars
    \/ CloseConn(a) /\ StopTimer /\ UNCHANGED activeVars

\* Mutant: the socket is closed without a test of connected.
HandleCloseAgain ==
    /\ connected' = FALSE /\ onCloses' = onCloses + 1 /\ StopTimer

\* handleClose of connection.go.
handleClose ==
    IF connected
    THEN connected' = FALSE /\ onCloses' = onCloses + 1 /\ StopTimer
    ELSE UNCHANGED <<connected, onCloses, phase, pending, remaining, current, cbPc>>

RunHandleClose ==
    /\ closeQueued /\ closeQueued' = FALSE
    /\ handleClose
    /\ UNCHANGED <<dying, sockClosed, closePc, panicked, activeVars>>

\* The connection does something.
Activity == SetActiveTime /\ UNCHANGED <<phase, pending, remaining, current, cbPc>>

\* An event of connection.go's loop, and one that ends the connection.
HandleEvent ==
    /\ ~std /\ connected /\ Activity
    /\ UNCHANGED <<closeVars, readPc, writePc, closeQueued>>

HandleEventErr ==
    /\ ~std /\ connected /\ SetActiveTime /\ handleClose
    /\ UNCHANGED <<dying, sockClosed, closePc, panicked, readPc, writePc, closeQueued>>

\* A turn of readLoop or writeLoop that sets activeTime.
LoopTurn ==
    /\ readPc = "running" \/ writePc = "running"
    /\ Activity
    /\ UNCHANGED <<closeVars, readPc, writePc, closeQueued>>

\* The loops leave at the select, or on an error, which calls Close.  A reader
\* that is blocked in Read gets its error when the socket is closed.
ReaderSelect ==
    /\ readPc = "running" /\ dying
    /\ readPc' = "exited"
    /\ UNCHANGED <<writePc, closeVars, closeQueued, timerVars>>

ReaderError ==
    /\ readPc = "running"
    /\ readPc' = "exited" /\ Close(Reader)
    /\ UNCHANGED <<writePc, connected, dying, sockClosed, onCloses, panicked, timerVars>>

WriterSelect ==
    /\ writePc = "running" /\ dying
    /\ writePc' = "exited"
    /\ UNCHANGED <<readPc, closeVars, closeQueued, timerVars>>

WriterError ==
    /\ writePc = "running"
    /\ writePc' = "exited" /\ Close(Writer)
    /\ UNCHANGED <<readPc, connected, dying, sockClosed, onCloses, panicked, timerVars>>

\* The timer's function, with the Close it may call.
TimerStep ==
    /\ \/ TimerFires /\ ~wheelStopped /\ UNCHANGED <<closePc, closeQueued>>
       \/ TimerGoesOn(connected) /\ UNCHANGED <<closePc, closeQueued>>
       \/ closePc[Timer] = "no" /\ TimerClose /\ Close(Timer)
    /\ UNCHANGED <<connected, dying, sockClosed, onCloses, panicked, readPc, writePc>>

TimerIsStored == TimerStore /\ UNCHANGED <<closeVars, readPc, writePc, closeQueued>>

TimePasses == Tick /\ UNCHANGED <<closeVars, readPc, writePc, closeQueued>>

\* A user who knows the connection.
UserClose ==
    /\ accepted /\ (std => readPc # "new")
    /\ closePc[User] = "no" /\ Close(User)
    /\ UNCHANGED <<connected, dying, sockClosed, onCloses, panicked, readPc, writePc,
                   timerVars>>

-----------------------------------------------------------------------------
\* What else a connection's step leaves alone.
ConnFrame == UNCHANGED <<stopVars, acceptPc, accepted, stored>>

\* Steps of goroutines that nothing holds up.
ReaderEnds == sockClosed /\ (ReaderSelect \/ ReaderError)
CloseGoesOn(a) == CloseStep(a) /\ UNCHANGED <<readPc, writePc, closeQueued>>
LoopCloses == RunHandleClose /\ UNCHANGED <<readPc, writePc>>

ConnStep ==
    /\ \/ \E a \in Closers : CloseGoesOn(a)
       \/ LoopCloses \/ HandleEvent \/ HandleEventErr \/ LoopTurn
       \/ ReaderSelect \/ ReaderError \/ WriterSelect \/ WriterError
       \/ TimerStep \/ TimerIsStored \/ TimePasses \/ UserClose
    /\ ConnFrame

StopStep == StopNext /\ StopFrame

Next ==
    /\ ~panicked
    /\ UNCHANGED timeVars
    /\ \/ (Start \/ StartReturns \/ AcceptInLoop) /\ UNCHANGED closeQueued
       \/ \E a \in Acceptors : AcceptStep(a)
       \/ Stop /\ StopFrame
       \/ StopStep
       \/ ConnStep

Spec == Init /\ [][Next]_vars

Rest == ConnFrame /\ UNCHANGED timeVars

\* Every goroutine that can take a step eventually does, time passes, and armed
\* timers fire.  Nobody is obliged to call Stop or Close.  A reader may stay in
\* Read until its socket is closed; a loop that Stop has ended runs no closure.
FairSpec ==
    /\ Spec
    /\ WF_vars(StartReturns /\ UNCHANGED <<timeVars, closeQueued>>)
    /\ WF_vars(StopStep /\ UNCHANGED timeVars)
    /\ \A a \in Acceptors : WF_vars(AcceptStep(a) /\ UNCHANGED timeVars)
    /\ \A a \in Closers : WF_vars(CloseGoesOn(a) /\ Rest)
    /\ WF_vars(ReaderEnds /\ Rest) /\ WF_vars(WriterSelect /\ Rest)
    /\ WF_vars(~wheelStopped /\ LoopCloses /\ Rest)
    /\ WF_vars(TimerStep /\ Rest) /\ WF_vars(TimePasses /\ Rest)

-----------------------------------------------------------------------------
TypeOK ==
    /\ CloseTypeOK /\ TimerTypeOK
    /\ {running, wheelStopped, srvDying, listening, accepted, stored, closeQueued}
          \subseteq BOOLEAN
    /\ startPc \in {"new", "waiting", "returned"}
    /\ stopPc \in {"idle", "listener", "range", "found", "missed", "server"}
    /\ acceptPc \in [Acceptors -> {"new", "top", "accept", "store", "launch", "exited"}]
    /\ readPc \in {"new", "running", "exited"} /\ writePc \in {"new", "running", "exited"}

\* "Automatically clean up idle connections": a connected connection always has
\* a timer armed, its function running, or the Close it called under way, in
\* whichever order timers fire, are armed and are stored.
TimerKept ==
    connected /\ idleTime > 0 => TimerAlive \/ closeQueued \/ closePc[Timer] # "no"

\* The timer closes only a connection that has been inactive for longer than
\* the idle time less the second that activeTime is rounded down by.
ClosedWhenIdle ==
    [][TimerClose => age > idleTime - TicksPerSecond]_vars

\* A connection that stays inactive is closed, unless the server is stopped.
IdleIsClosed ==
    \/ []<><<Activity>>_timerVars
    \/ connected /\ idleTime > 0 ~> ~connected \/ wheelStopped \/ panicked

\* A closed connection's timers come to an end, also one that was armed after
\* Close had looked for it.
TimersEnd == sockClosed \/ (~std /\ onCloses > 0) ~> ~TimerAlive \/ wheelStopped \/ panicked

\* Once Stop has closed what is in the map, Start returns; if it missed a
\* connection, accepted before the listener was closed and stored after Range,
\* then unless that one stays open.
StartEnds ==
    stopPc \in {"found", "missed"}
        ~> startPc = "returned" \/ panicked \/ (stopPc = "missed" /\ []connected)
=============================================================================
