------------------------------- MODULE Server -------------------------------
(***************************************************************************)
(* The server of server.go and listener.go: a listening loop that accepts  *)
(* connections and hands each to a work loop chosen by load_balance.go,    *)
(* the sockets map and connection count of each loop in eventloop.go, and  *)
(* Start and Stop.                                                         *)
(*                                                                         *)
(* Connections come and go while the kernel reuses their descriptor        *)
(* numbers, so a descriptor is a number with an owner.  handleClose gives  *)
(* the number up in a step of its own, after the socket has left the map.  *)
(*                                                                         *)
(* Each loop's task queue is the FIFO of TaskQueue, but emptied in rounds, *)
(* as doPendingFunc does: the loop tests Poller.running after each round.  *)
(***************************************************************************)
EXTENDS Integers, FiniteSets, Sequences, Functions

CONSTANTS
    NumLoops,         \* work loops, numbered from 1; the listener's is 0
    Conns,            \* connections that clients make
    NoConn,
    Fds,              \* descriptor numbers for accepted connections
    NoFd,
    EarlyStop         \* whether Stop may overtake the loops' goroutines

ASSUME ServerAssumption ==
    /\ NumLoops \in Nat \ {0} /\ NoConn \notin Conns /\ NoFd \notin Fds
    /\ EarlyStop \in BOOLEAN /\ IsFiniteSet(Fds)

Listener  == 0
WorkLoops == 1..NumLoops
Loops     == 0..NumLoops

VARIABLES
    running,          \* Server.running
    startPc,          \* Start: "new", "waiting" in sw.Wait, "returned"
    stopPc,           \* Stop: "idle", a step of EventLoop.Stop, "done"
    stopAt,           \* the loop Stop is at
    loopPc,           \* where the goroutine of each loop is
    pollRunning,      \* Poller.running of each loop
    queue, round,     \* taskQueueW and taskQueueR of each loop
    closing,          \* the connection a loop is in handleClose for
    sockets,          \* EventLoop.sockets: descriptor to connection
    socketsNil,       \* Stop's closure has set the map to nil
    polled,           \* connections registered with each loop's poller
    connCunt,         \* EventLoop.ConnCunt
    strategy,         \* Options.Strategy, with RoundRobin's nextLoopIndex
    owner,            \* whose each descriptor number is
    connFd, connLoop, \* Connection.fd and Connection.loop
    status,           \* the life of each connection
    failed,           \* connections the poller has refused
    userClose,        \* where a user goroutine is inside Close
    shutOther,        \* history: connections shut down by another's handle
    panicked          \* a goroutine has written to a nil map

loopVars == <<loopPc, pollRunning, queue, round, closing>>
mapVars  == <<sockets, socketsNil, polled, connCunt>>
connVars == <<owner, connFd, connLoop, status, failed>>
stopVars == <<running, startPc, stopPc, stopAt>>
vars == <<stopVars, loopVars, mapVars, strategy, connVars, userClose,
          shutOther, panicked>>

Statuses == {"none", "accepted", "open", "closing", "closed"}
connected(c) == status[c] \in {"accepted", "open"}

Task(op, c) == [op |-> op, conn |-> c]

Init ==
    /\ running = FALSE /\ startPc = "new" /\ stopPc = "idle" /\ stopAt = Listener
    /\ loopPc = [l \in Loops |-> "new"] /\ pollRunning = [l \in Loops |-> FALSE]
    /\ queue = [l \in Loops |-> <<>>] /\ round = [l \in Loops |-> <<>>]
    /\ closing = [l \in Loops |-> NoConn]
    /\ sockets = [l \in Loops |-> [fd \in Fds |-> NoConn]]
    /\ socketsNil = [l \in Loops |-> FALSE]
    /\ polled = [l \in Loops |-> {}]
    /\ connCunt = [l \in Loops |-> IF l = Listener THEN 1 ELSE 0]
    /\ strategy \in [name : {"RoundRobin", "LeastConnection"}, nextLoopIndex : {0}]
    /\ owner = [fd \in Fds |-> NoConn]
    /\ connFd = [c \in Conns |-> NoFd]
    /\ connLoop = [c \in Conns |-> Listener]
    /\ status = [c \in Conns |-> "none"] /\ failed = {}
    /\ userClose = [c \in Conns |-> "idle"]
    /\ shutOther = {} /\ panicked = FALSE

QueueInLoop(l, s) == queue' = [queue EXCEPT ![l] = @ \o s]

-----------------------------------------------------------------------------
(* Accepting: listener.HandleEvent and handleNewConnection *)

\* Mutant: the index is not taken modulo the number of loops.
NextIndexUnbounded(i) == i + 1

NextIndex(i) == (i + 1) % NumLoops

\* The first loop with the smallest count.
LeastConnection(l) ==
    \A m \in WorkLoops : IF m < l THEN connCunt[l] < connCunt[m]
                                  ELSE connCunt[l] <= connCunt[m]

\* Whether the strategy picks loop l, and what it remembers.
Picks(l) ==
    \/ /\ strategy.name = "RoundRobin" /\ l = strategy.nextLoopIndex + 1
       /\ strategy' = [strategy EXCEPT !.nextLoopIndex = NextIndex(@)]
    \/ /\ strategy.name = "LeastConnection" /\ LeastConnection(l)
       /\ UNCHANGED strategy

\* The listener's loop is told of a client.  The kernel picks a free number.
Accept(c, fd, l) ==
    /\ loopPc[Listener] = "wait" /\ ~socketsNil[Listener]
    /\ status[c] = "none" /\ owner[fd] = NoConn
    /\ Picks(l)
    /\ owner' = [owner EXCEPT ![fd] = c]
    /\ connFd' = [connFd EXCEPT ![c] = fd]
    /\ connLoop' = [connLoop EXCEPT ![c] = l]
    /\ status' = [status EXCEPT ![c] = "accepted"]
    /\ QueueInLoop(l, <<Task("connect", c)>>)
    /\ UNCHANGED <<stopVars, loopPc, pollRunning, round, closing,
                   mapVars, failed, userClose, shutOther, panicked>>

-----------------------------------------------------------------------------
(* The loops *)

\* A goroutine that Start has launched reaches Poll.
PollStart(l) ==
    /\ startPc # "new" /\ loopPc[l] = "new"
    /\ loopPc' = [loopPc EXCEPT ![l] = "wait"]
    /\ pollRunning' = [pollRunning EXCEPT ![l] = TRUE]
    /\ UNCHANGED <<stopVars, queue, round, closing, mapVars,
                   strategy, connVars, userClose, shutOther, panicked>>

\* Mutant: the descriptor stays in the map.
DeleteFdInLoopKeepsSocket(l, c) ==
    /\ polled' = [polled EXCEPT ![l] = @ \ {c}]
    /\ connCunt' = [connCunt EXCEPT ![l] = @ - 1]
    /\ UNCHANGED <<sockets, socketsNil>>

\* Mutant: the count is not taken down.
DeleteFdInLoopKeepsCount(l, c) ==
    /\ polled' = [polled EXCEPT ![l] = @ \ {c}]
    /\ sockets' = [sockets EXCEPT ![l][connFd[c]] = NoConn]
    /\ UNCHANGED <<connCunt, socketsNil>>

\* Deleting from a nil map does nothing.
DeleteFdInLoop(l, c) ==
    /\ polled' = [polled EXCEPT ![l] = @ \ {c}]
    /\ sockets' = [sockets EXCEPT ![l][connFd[c]] = NoConn]
    /\ connCunt' = [connCunt EXCEPT ![l] = @ - 1]
    /\ UNCHANGED socketsNil

\* handleClose as far as OnClose; FinishClose is the rest of it.
handleClose(l, c) ==
    /\ status' = [status EXCEPT ![c] = "closing"]
    /\ closing' = [closing EXCEPT ![l] = c]
    /\ DeleteFdInLoop(l, c)

FinishClose(l) ==
    /\ closing[l] # NoConn
    /\ closing' = [closing EXCEPT ![l] = NoConn]
    /\ status' = [status EXCEPT ![closing[l]] = "closed"]
    /\ owner' = [owner EXCEPT ![connFd[closing[l]]] = NoConn]
    /\ UNCHANGED <<stopVars, loopPc, pollRunning, queue, round,
                   mapVars, strategy, connFd, connLoop, failed, userClose,
                   shutOther, panicked>>

\* EpollWait reports a registered descriptor and the connection it is looked
\* up for closes; an event that does not close it changes nothing here.
HandleEvent(l, c) ==
    /\ loopPc[l] = "wait" /\ closing[l] = NoConn
    /\ c \in polled[l] /\ sockets[l][connFd[c]] # NoConn
    /\ handleClose(l, sockets[l][connFd[c]])
    /\ UNCHANGED <<stopVars, loopPc, pollRunning, queue, round, strategy, owner,
                   connFd, connLoop, failed, userClose, shutOther, panicked>>

\* Mutant: the queue that was swapped out is truncated before it is run.
StartRoundDrops(l) ==
    /\ loopPc[l] = "wait" /\ closing[l] = NoConn
    /\ queue[l] # <<>> \/ ~pollRunning[l]
    /\ loopPc' = [loopPc EXCEPT ![l] = "run"]
    /\ queue' = [queue EXCEPT ![l] = <<>>]
    /\ UNCHANGED <<stopVars, pollRunning, round, closing, mapVars, strategy,
                   connVars, userClose, shutOther, panicked>>

\* EpollWait reports the eventfd: closures are queued, or Close has woken the
\* loop.  doPendingFunc swaps the queues.
StartRound(l) ==
    /\ loopPc[l] = "wait" /\ closing[l] = NoConn
    /\ queue[l] # <<>> \/ ~pollRunning[l]
    /\ loopPc' = [loopPc EXCEPT ![l] = "run"]
    /\ round' = [round EXCEPT ![l] = queue[l]]
    /\ queue' = [queue EXCEPT ![l] = <<>>]
    /\ UNCHANGED <<stopVars, pollRunning, closing, mapVars, strategy, connVars,
                   userClose, shutOther, panicked>>

\* The poller may refuse the descriptor.
AddSocketAndEnableRead(l, c) ==
    \/ /\ sockets' = [sockets EXCEPT ![l][connFd[c]] = c]
       /\ polled' = [polled EXCEPT ![l] = @ \cup {c}]
       /\ connCunt' = [connCunt EXCEPT ![l] = @ + 1]
       /\ UNCHANGED failed
    \/ /\ sockets' = [sockets EXCEPT ![l][connFd[c]] = NoConn]
       /\ failed' = failed \cup {c}
       /\ UNCHANGED <<polled, connCunt>>

\* The closure of handleNewConnection: OnConnect, then the map.
RunConnect(l, c) ==
    /\ status' = [status EXCEPT ![c] = "open"]
    /\ IF socketsNil[l]
       THEN panicked' = TRUE /\ UNCHANGED <<sockets, polled, connCunt, failed>>
       ELSE AddSocketAndEnableRead(l, c) /\ UNCHANGED panicked
    /\ UNCHANGED <<queue, closing, socketsNil>>

\* The closure of Close.
RunClose(l, c) ==
    /\ IF connected(c) THEN handleClose(l, c) ELSE UNCHANGED <<status, closing, mapVars>>
    /\ UNCHANGED <<queue, failed, panicked>>

\* The closure of EventLoop.Stop calls Close of every socket, in the map's
\* order, which is random.
RunStop(l) ==
    LET open == {c \in Range(sockets[l]) \ {NoConn} : connected(c)}
    IN  /\ \E order \in [1..Cardinality(open) -> open] :
              /\ IsInjective(order)
              /\ QueueInLoop(l, [i \in DOMAIN order |-> Task("close", order[i])])
        /\ sockets' = [sockets EXCEPT ![l] = [fd \in Fds |-> NoConn]]
        /\ socketsNil' = [socketsNil EXCEPT ![l] = TRUE]
        /\ UNCHANGED <<status, closing, polled, connCunt, failed, panicked>>

RunTask(l) ==
    /\ loopPc[l] = "run" /\ closing[l] = NoConn /\ round[l] # <<>>
    /\ round' = [round EXCEPT ![l] = Tail(@)]
    /\ LET t == Head(round[l])
       IN  \/ t.op = "connect" /\ RunConnect(l, t.conn)
           \/ t.op = "close" /\ RunClose(l, t.conn)
           \/ t.op = "stop" /\ RunStop(l)
    /\ UNCHANGED <<stopVars, loopPc, pollRunning, strategy,
                   owner, connFd, connLoop, userClose, shutOther>>

EndOfRound(l) ==
    /\ loopPc[l] = "run" /\ closing[l] = NoConn /\ round[l] = <<>>
    /\ loopPc' = [loopPc EXCEPT ![l] = IF pollRunning[l] THEN "wait" ELSE "exited"]
    /\ UNCHANGED <<stopVars, pollRunning, queue, round, closing,
                   mapVars, strategy, connVars, userClose, shutOther, panicked>>

-----------------------------------------------------------------------------
(* Start and Stop *)

\* Start launches the goroutines, sets running and waits for them.
Start ==
    /\ startPc = "new"
    /\ startPc' = "waiting" /\ running' = TRUE
    /\ UNCHANGED <<stopPc, stopAt, loopVars, mapVars, strategy, connVars,
                   userClose, shutOther, panicked>>

StartReturns ==
    /\ startPc = "waiting" /\ \A l \in Loops : loopPc[l] = "exited"
    /\ startPc' = "returned"
    /\ UNCHANGED <<running, stopPc, stopAt, loopVars, mapVars, strategy,
                   connVars, userClose, shutOther, panicked>>

Stop ==
    /\ stopPc = "idle" /\ running
    /\ EarlyStop \/ \A l \in Loops : pollRunning[l]
    /\ running' = FALSE /\ stopPc' = "queue" /\ stopAt' = Listener
    /\ UNCHANGED <<startPc, loopVars, mapVars, strategy, connVars, userClose,
                   shutOther, panicked>>

\* EventLoop.Stop of loop stopAt: queue the closure, then clear the count, then
\* close the poller, which waits for the loop unless it finds it not running.
StopQueue ==
    /\ stopPc = "queue"
    /\ QueueInLoop(stopAt, <<Task("stop", NoConn)>>)
    /\ stopPc' = "count"
    /\ UNCHANGED <<running, startPc, stopAt, loopPc, pollRunning, round,
                   closing, mapVars, strategy, connVars, userClose,
                   shutOther, panicked>>

StopCount ==
    /\ stopPc = "count"
    /\ connCunt' = [connCunt EXCEPT ![stopAt] = 0]
    /\ stopPc' = "close"
    /\ UNCHANGED <<running, startPc, stopAt, loopVars, sockets, socketsNil, polled,
                   strategy, connVars, userClose, shutOther, panicked>>

StopNext ==
    IF stopAt = NumLoops THEN stopPc' = "done" /\ UNCHANGED stopAt
                         ELSE stopPc' = "queue" /\ stopAt' = stopAt + 1

\* Mutant: Close does not wait for the loop to leave Poll.
StopCloseNoWait ==
    /\ stopPc = "close"
    /\ pollRunning' = [pollRunning EXCEPT ![stopAt] = FALSE]
    /\ StopNext
    /\ UNCHANGED <<running, startPc, loopPc, queue, round, closing,
                   mapVars, strategy, connVars, userClose, shutOther, panicked>>

\* Mutant: Close waits for the loop without having cleared Poller.running.
StopCloseKeepsRunning ==
    /\ stopPc = "close"
    /\ IF pollRunning[stopAt] THEN stopPc' = "wait" /\ UNCHANGED stopAt ELSE StopNext
    /\ UNCHANGED <<running, startPc, loopVars, mapVars, strategy, connVars,
                   userClose, shutOther, panicked>>

StopClose ==
    /\ stopPc = "close"
    /\ pollRunning' = [pollRunning EXCEPT ![stopAt] = FALSE]
    /\ IF pollRunning[stopAt] THEN stopPc' = "wait" /\ UNCHANGED stopAt ELSE StopNext
    /\ UNCHANGED <<running, startPc, loopPc, queue, round, closing,
                   mapVars, strategy, connVars, userClose, shutOther, panicked>>

StopWait ==
    /\ stopPc = "wait" /\ loopPc[stopAt] = "exited"
    /\ StopNext
    /\ UNCHANGED <<running, startPc, loopVars, mapVars, strategy, connVars,
                   userClose, shutOther, panicked>>

-----------------------------------------------------------------------------
(* Users of a connection, who know it from OnConnect on *)

UserClose(c) ==
    /\ userClose[c] = "idle" /\ status[c] = "open"
    /\ userClose' = [userClose EXCEPT ![c] = "tested"]
    /\ UNCHANGED <<stopVars, loopVars, mapVars, strategy, connVars, shutOther,
                   panicked>>

UserCloseQueue(c) ==
    /\ userClose[c] = "tested"
    /\ userClose' = [userClose EXCEPT ![c] = "returned"]
    /\ QueueInLoop(connLoop[c], <<Task("close", c)>>)
    /\ UNCHANGED <<stopVars, loopPc, pollRunning, round, closing,
                   mapVars, strategy, connVars, shutOther, panicked>>

\* ShutdownWrite shuts down whatever the number stands for.
ShutdownWrite(c) ==
    LET hit == owner[connFd[c]]
    IN  /\ status[c] \in {"open", "closing", "closed"}
        /\ shutOther' = IF hit \in {c, NoConn} THEN shutOther ELSE shutOther \cup {hit}
        /\ UNCHANGED <<stopVars, loopVars, mapVars, strategy, connVars,
                       userClose, panicked>>

-----------------------------------------------------------------------------
AcceptStep == \E c \in Conns, fd \in Fds, l \in WorkLoops : Accept(c, fd, l)

LoopStep(l) ==
    PollStart(l) \/ StartRound(l) \/ RunTask(l) \/ EndOfRound(l) \/ FinishClose(l)

StopStep == StopQueue \/ StopCount \/ StopClose \/ StopWait

Next ==
    /\ ~panicked
    /\ \/ Start \/ StartReturns \/ Stop \/ StopStep
       \/ AcceptStep
       \/ \E l \in Loops : LoopStep(l) \/ \E c \in Conns : HandleEvent(l, c)
       \/ \E c \in Conns : UserClose(c) \/ UserCloseQueue(c) \/ ShutdownWrite(c)

Spec == Init /\ [][Next]_vars

\* Every goroutine that can take a step eventually does; nobody is obliged to
\* connect, to close or to stop the server.
FairSpec ==
    /\ Spec
    /\ \A l \in Loops : WF_vars(LoopStep(l))
    /\ WF_vars(StopStep) /\ WF_vars(StartReturns)
    /\ \A c \in Conns : WF_vars(UserCloseQueue(c))

-----------------------------------------------------------------------------
Tasks ==
    [op : {"connect", "close"}, conn : Conns] \cup [op : {"stop"}, conn : {NoConn}]

TypeOK ==
    /\ running \in BOOLEAN /\ startPc \in {"new", "waiting", "returned"}
    /\ stopPc \in {"idle", "queue", "count", "close", "wait", "done"}
    /\ stopAt \in Loops
    /\ loopPc \in [Loops -> {"new", "wait", "run", "exited"}]
    /\ pollRunning \in [Loops -> BOOLEAN]
    /\ queue \in [Loops -> Seq(Tasks)] /\ round \in [Loops -> Seq(Tasks)]
    /\ polled \in [Loops -> SUBSET Conns]
    /\ closing \in [Loops -> Conns \cup {NoConn}]
    /\ sockets \in [Loops -> [Fds -> Conns \cup {NoConn}]]
    /\ socketsNil \in [Loops -> BOOLEAN] /\ connCunt \in [Loops -> Int]
    /\ strategy \in [name : {"RoundRobin", "LeastConnection"},
                    nextLoopIndex : 0..(NumLoops - 1)]
    /\ owner \in [Fds -> Conns \cup {NoConn}]
    /\ connFd \in [Conns -> Fds \cup {NoFd}] /\ connLoop \in [Conns -> Loops]
    /\ status \in [Conns -> Statuses] /\ failed \subseteq Conns
    /\ userClose \in [Conns -> {"idle", "tested", "returned"}]
    /\ shutOther \subseteq Conns /\ panicked \in BOOLEAN

\* A descriptor number is never shared: a connection owns its number from
\* accept until handleClose closes it, in whichever loops other connections are
\* opened and closed meanwhile, and a loop's map and poller hold only open
\* connections of their own, under their own numbers.
OwnFd ==
    /\ \A c \in Conns : connected(c) \/ status[c] = "closing" => owner[connFd[c]] = c
    /\ \A l \in Loops :
          /\ \A c \in polled[l] : status[c] = "open" /\ connLoop[c] = l
          /\ \A fd \in Fds : sockets[l][fd] # NoConn =>
                sockets[l][fd] \in polled[l] /\ connFd[sockets[l][fd]] = fd

\* Until Stop, ConnCunt is the number of sockets in the loop's map, less the
\* closed ones that the poller had refused: DeleteFdInLoop takes those off too.
CountsSockets ==
    stopPc = "idle" =>
        \A l \in WorkLoops :
            connCunt[l] = Cardinality({fd \in Fds : sockets[l][fd] # NoConn})
                - Cardinality({c \in failed : connLoop[c] = l /\ ~connected(c)})

\* The closure of a new connection never meets a map that Stop has taken away,
\* for the listener's loop has ended before Stop turns to the work loops.
NoNilMapWrite == ~panicked

\* Stop ends: it returns, and Start returns.
StopEndsServer == stopPc = "queue" ~> stopPc = "done" /\ startPc = "returned"

\* Until Stop every accepted connection is opened in its loop.
AcceptedIsOpened ==
    \A c \in Conns : status[c] = "accepted" ~> status[c] # "accepted" \/ ~running

\* "Stop closes the Server": when Stop has returned no loop runs.
StopStopsLoops == stopPc = "done" => \A l \in Loops : loopPc[l] = "exited"

\* "Close closes the connection", unless it returns an error.
CloseCloses == \A c \in Conns : userClose[c] = "returned" ~> status[c] = "closed"

\* "ShutdownWrite shuts down the writing end": that of its own connection.
ShutdownOwn == shutOther = {}
=============================================================================
