--------------------------- MODULE ServerFdProofs ---------------------------
(***************************************************************************)
(* The inductive invariant of Server, for any number of loops, connections *)
(* and descriptor numbers, and the proofs that steps keep its parts about  *)
(* types, Stop and descriptors.                                            *)
(***************************************************************************)
EXTENDS Server, FiniteSetTheorems, TLAPS

USE DEF loopVars, mapVars, connVars, stopVars, Statuses

-----------------------------------------------------------------------------
(* Sequences *)

\* The elements of a queue that has been appended to.
LEMMA AppendedElements ==
    ASSUME NEW S, NEW q \in Seq(S), NEW s \in Seq(S), NEW i \in 1..Len(q \o s)
    PROVE  \/ i \in 1..Len(q) /\ (q \o s)[i] = q[i]
           \/ /\ i > Len(q) /\ i - Len(q) \in 1..Len(s)
              /\ (q \o s)[i] = s[i - Len(q)]
OBVIOUS

\* The first task of a round with the queue behind it.
LEMMA FirstElement ==
    ASSUME NEW S, NEW r \in Seq(S), NEW q \in Seq(S), r # <<>>
    PROVE  (r \o q)[1] = r[1] /\ 1 \in 1..Len(r \o q) /\ 1 \in 0..Len(r \o q)
<1>1. Len(r) \in Nat \ {0} /\ Len(q) \in Nat /\ Len(r \o q) = Len(r) + Len(q)
  OBVIOUS
<1>2. 1 \in 1..Len(r) /\ 1 \in 1..Len(r \o q) /\ 1 \in 0..Len(r \o q)
  BY <1>1
<1> QED BY <1>2

\* The elements of a round whose first closure has been run.
LEMMA TailElements ==
    ASSUME NEW S, NEW q \in Seq(S), q # <<>>
    PROVE  /\ Tail(q) \in Seq(S) /\ Head(q) = q[1] /\ 1 \in 1..Len(q)
           /\ \A i \in 1..Len(Tail(q)) : i + 1 \in 1..Len(q) /\ Tail(q)[i] = q[i + 1]
OBVIOUS

\* The listener's loop is none of the work loops.
LEMMA LoopNumbers ==
    /\ WorkLoops \subseteq Loops /\ Listener \in Loops /\ Listener \notin WorkLoops
    /\ Loops \subseteq Nat /\ \A l \in Loops : l <= NumLoops
BY ServerAssumption DEF WorkLoops, Loops, Listener

-----------------------------------------------------------------------------
(* Stop *)

\* Without an early Stop, no loop is missed: Stop begins when all loops are in
\* Poll, ends them in turn, and passes on only from one that has exited.
StopInv ==
    ~EarlyStop =>
        /\ \A l \in Loops : pollRunning[l] => loopPc[l] # "new"
        /\ stopPc # "idle" => \A l \in Loops : loopPc[l] # "new"
        /\ stopPc \in {"queue", "count", "close"} =>
              \A l \in Loops : l >= stopAt => pollRunning[l]
        /\ stopPc = "wait" => \A l \in Loops : l > stopAt => pollRunning[l]
        /\ stopPc # "idle" => \A l \in Loops : l < stopAt => loopPc[l] = "exited"
        /\ stopPc = "done" => \A l \in Loops : loopPc[l] = "exited"

-----------------------------------------------------------------------------
(* The closures that the loops run *)

\* The loop Stop has turned to, after it has ended the listener's.
Reached(l) == l = Listener \/ loopPc[Listener] = "exited"

\* The closure of a task t in the queue of loop l is about a connection of l:
\* one not yet opened, or one that has been.  Stop's comes in its turn.
TaskOK(l, t) ==
    /\ t.op = "connect" =>
          /\ status[t.conn] = "accepted" /\ connLoop[t.conn] = l
          /\ ~EarlyStop => ~socketsNil[l]
    /\ t.op = "close" =>
          status[t.conn] \in {"open", "closing", "closed"} /\ connLoop[t.conn] = l
    /\ t.op = "stop" /\ ~EarlyStop => Reached(l)

\* Of two tasks in this order the second does not open what the first opens,
\* nor anything after Stop's.
InOrder(t, u) ==
    u.op = "connect" =>
        /\ t.op = "connect" => t.conn # u.conn
        /\ ~EarlyStop => t.op # "stop"

\* The tasks a loop has still to run.
Pending(l) == round[l] \o queue[l]

TaskInv ==
    \A l \in Loops :
        /\ \A i \in 1..Len(Pending(l)) : TaskOK(l, Pending(l)[i])
        /\ \A i, j \in 1..Len(Pending(l)) :
              i < j => InOrder(Pending(l)[i], Pending(l)[j])

\* What OwnFd says and rests on besides the tasks.  An accepted connection has
\* a number and a work loop for good.
HasFd == \A c \in Conns : status[c] # "none" => connFd[c] \in Fds /\ connLoop[c] \in WorkLoops

OwnsFd == \A c \in Conns : status[c] \in {"accepted", "open", "closing"} => owner[connFd[c]] = c

PolledOpen == \A l \in Loops : \A c \in polled[l] : status[c] = "open" /\ connLoop[c] = l

MapPolled ==
    \A l \in Loops : \A fd \in Fds : sockets[l][fd] # NoConn =>
        sockets[l][fd] \in polled[l] /\ connFd[sockets[l][fd]] = fd

\* A loop closes one of its own connections at a time.
ClosesOwn ==
    \A l \in Loops : closing[l] # NoConn =>
        status[closing[l]] = "closing" /\ connLoop[closing[l]] = l

TestedOpen ==
    \A c \in Conns : userClose[c] = "tested" => status[c] \in {"open", "closing", "closed"}

FdInv == HasFd /\ OwnsFd /\ PolledOpen /\ MapPolled /\ ClosesOwn /\ TestedOpen

\* Without an early Stop, a loop's map goes only after the listener's loop.
NilInv ==
    ~EarlyStop => ~panicked /\ \A l \in Loops : socketsNil[l] => Reached(l)

IndInv == TypeOK /\ StopInv /\ TaskInv /\ FdInv /\ NilInv

-----------------------------------------------------------------------------
(* Types *)

\* The closures that Stop's queues, Close of the open connections in a random
\* order, are a finite sequence of tasks.
LEMMA StopTasks ==
    ASSUME TypeOK, NEW l \in Loops, NEW open \in SUBSET (Range(sockets[l]) \ {NoConn}),
           NEW order \in [1..Cardinality(open) -> open]
    PROVE  /\ [i \in DOMAIN order |-> Task("close", order[i])] \in Seq(Tasks)
           /\ DOMAIN order = 1..Cardinality(open) /\ Cardinality(open) \in Nat
           /\ open \subseteq Conns
<1>1. sockets[l] \in [Fds -> Conns \cup {NoConn}]
  BY Zenon DEF TypeOK
<1>2. sockets[l] \in Surjection(Fds, Range(sockets[l]))
  BY <1>1, Zenon DEF Surjection, Range
<1>3. IsFiniteSet(Range(sockets[l]))
  BY <1>2, FS_Surjection, ServerAssumption, Zenon
<1>4. IsFiniteSet(open)
  BY <1>3, FS_Subset, Zenon
<1>5. Cardinality(open) \in Nat
  BY <1>4, FS_CardinalityType, Zenon
<1>6. open \subseteq Conns
  BY <1>1, Zenon DEF Range
<1>7. \A i \in DOMAIN order : Task("close", order[i]) \in Tasks
  BY <1>6, Zenon DEF Task, Tasks
<1> QED BY <1>5, <1>6, <1>7

\* QueueInLoop appends tasks to a queue of tasks.
LEMMA QueueTypes ==
    ASSUME TypeOK, NEW l \in Loops, NEW s \in Seq(Tasks), QueueInLoop(l, s)
    PROVE  queue' \in [Loops -> Seq(Tasks)]
<1>1. queue \in [Loops -> Seq(Tasks)]
  BY Zenon DEF TypeOK
<1>2. queue[l] \o s \in Seq(Tasks)
  BY <1>1
<1> QED BY <1>1, <1>2, Zenon DEF QueueInLoop

\* handleClose keeps the types of the loop's map and of the connection.
LEMMA CloseTypes ==
    ASSUME TypeOK, NEW l \in Loops, NEW c \in Conns, handleClose(l, c)
    PROVE  /\ status' \in [Conns -> Statuses] /\ closing' \in [Loops -> Conns \cup {NoConn}]
           /\ polled' \in [Loops -> SUBSET Conns]
           /\ sockets' \in [Loops -> [Fds -> Conns \cup {NoConn}]]
           /\ connCunt' \in [Loops -> Int] /\ UNCHANGED socketsNil
<1> USE DEF TypeOK, handleClose, DeleteFdInLoop
<1>1. status' \in [Conns -> Statuses] /\ closing' \in [Loops -> Conns \cup {NoConn}]
  BY Zenon
<1>2. polled' \in [Loops -> SUBSET Conns]
  BY Zenon
<1>3. sockets' \in [Loops -> [Fds -> Conns \cup {NoConn}]]
  BY Zenon
<1>4. connCunt' \in [Loops -> Int] /\ UNCHANGED socketsNil
  OBVIOUS
<1> QED BY <1>1, <1>2, <1>3, <1>4, Zenon

\* Entering a connection into the map keeps the types, whether the poller
\* takes it or not.
LEMMA AddTypes ==
    ASSUME TypeOK, NEW l \in Loops, NEW c \in Conns, AddSocketAndEnableRead(l, c)
    PROVE  /\ sockets' \in [Loops -> [Fds -> Conns \cup {NoConn}]]
           /\ polled' \in [Loops -> SUBSET Conns] /\ connCunt' \in [Loops -> Int]
           /\ failed' \subseteq Conns
<1>1. \A v \in Conns \cup {NoConn} :
         [sockets EXCEPT ![l][connFd[c]] = v] \in [Loops -> [Fds -> Conns \cup {NoConn}]]
  BY Zenon DEF TypeOK
<1>2. [polled EXCEPT ![l] = @ \cup {c}] \in [Loops -> SUBSET Conns]
  BY Zenon DEF TypeOK
<1>3. [connCunt EXCEPT ![l] = @ + 1] \in [Loops -> Int]
  BY DEF TypeOK
<1>4. /\ polled \in [Loops -> SUBSET Conns] /\ connCunt \in [Loops -> Int]
      /\ failed \subseteq Conns
  BY Zenon DEF TypeOK
<1>5. sockets' \in [Loops -> [Fds -> Conns \cup {NoConn}]]
  BY <1>1, Zenon DEF AddSocketAndEnableRead
<1> QED BY <1>2, <1>3, <1>4, <1>5, Zenon DEF AddSocketAndEnableRead

\* Stop goes from one loop to the next, and ends with the last.
LEMMA StopNextTypes ==
    ASSUME TypeOK, StopNext
    PROVE  stopAt' \in Loops /\ stopPc' \in {"queue", "done"}
<1>1. stopAt \in 0..NumLoops
  BY Zenon DEF TypeOK, Loops
<1>2. stopAt # NumLoops => stopAt + 1 \in 0..NumLoops
  BY <1>1, ServerAssumption
<1> QED BY <1>1, <1>2, Zenon DEF StopNext, Loops

\* Every step of the loops, of Start and Stop and of the users keeps the types.
LEMMA TypeStep ==
    ASSUME TypeOK, FdInv, [Next]_vars
    PROVE  TypeOK'
<1> USE DEF TypeOK
<1>1. CASE Start
  BY <1>1, Zenon DEF Start
<1>2. CASE StartReturns
  BY <1>2, Zenon DEF StartReturns
<1>3. CASE Stop
  BY <1>3, LoopNumbers, Zenon DEF Stop
<1>4. CASE StopStep
  <2>1. CASE StopQueue
    <3>1. <<Task("stop", NoConn)>> \in Seq(Tasks)
      BY DEF Task, Tasks
    <3>2. queue' \in [Loops -> Seq(Tasks)]
      BY <2>1, <3>1, QueueTypes, Zenon DEF StopQueue
    <3> QED BY <2>1, <3>2, Zenon DEF StopQueue
  <2>2. CASE StopCount
    BY <2>2 DEF StopCount
  <2>3. CASE StopClose
    <3>1. stopAt' \in Loops /\ stopPc' \in {"queue", "wait", "done"}
      BY <2>3, StopNextTypes, Zenon DEF StopClose
    <3> QED BY <2>3, <3>1, Zenon DEF StopClose
  <2>4. CASE StopWait
    <3>1. stopAt' \in Loops /\ stopPc' \in {"queue", "done"}
      BY <2>4, StopNextTypes, Zenon DEF StopWait
    <3> QED BY <2>4, <3>1, Zenon DEF StopWait
  <2> QED BY <1>4, <2>1, <2>2, <2>3, <2>4, Zenon DEF StopStep
<1>5. ASSUME NEW c \in Conns, NEW fd \in Fds, NEW l \in WorkLoops, Accept(c, fd, l)
      PROVE  TypeOK'
  <2>1. strategy' \in [name : {"RoundRobin", "LeastConnection"},
                       nextLoopIndex : 0..(NumLoops - 1)]
    <3>1. strategy.nextLoopIndex \in Nat
      OBVIOUS
    <3>2. NextIndex(strategy.nextLoopIndex) \in 0..(NumLoops - 1)
      BY <3>1, ServerAssumption DEF NextIndex
    <3> QED BY <1>5, <3>2, Zenon DEF Accept, Picks
  <2>2. <<Task("connect", c)>> \in Seq(Tasks)
    BY DEF Task, Tasks
  <2>3. queue' \in [Loops -> Seq(Tasks)]
    BY <1>5, <2>2, QueueTypes, LoopNumbers, Zenon DEF Accept
  <2>4. l \in Loops
    BY LoopNumbers, Zenon
  <2> QED BY <1>5, <2>1, <2>3, <2>4, Zenon DEF Accept
<1>6. ASSUME NEW l \in Loops, LoopStep(l) PROVE TypeOK'
  <2>1. CASE PollStart(l)
    BY <2>1, Zenon DEF PollStart
  <2>2. CASE StartRound(l)
    BY <2>2 DEF StartRound
  <2>3. CASE RunTask(l)
    <3> DEFINE t == Head(round[l])
    <3>1. t \in Tasks /\ round' \in [Loops -> Seq(Tasks)]
      <4>1. round[l] \in Seq(Tasks) /\ round[l] # <<>>
        BY <2>3, Zenon DEF RunTask
      <4>2. Tail(round[l]) \in Seq(Tasks) /\ t \in Tasks
        BY <4>1, TailElements
      <4> QED BY <2>3, <4>2, Zenon DEF RunTask
    <3>2. CASE t.op = "connect" /\ RunConnect(l, t.conn)
      <4>1. t.conn \in Conns
        BY <3>1, <3>2, Zenon DEF Tasks
      <4>2. /\ sockets' \in [Loops -> [Fds -> Conns \cup {NoConn}]]
            /\ polled' \in [Loops -> SUBSET Conns] /\ connCunt' \in [Loops -> Int]
            /\ failed' \subseteq Conns
        <5>1. CASE UNCHANGED <<sockets, polled, connCunt, failed>>
          BY <5>1, Zenon
        <5>2. CASE AddSocketAndEnableRead(l, t.conn)
          BY <4>1, <5>2, AddTypes, Zenon
        <5> QED BY <3>2, <5>1, <5>2, Zenon DEF RunConnect
      <4>3. status' \in [Conns -> Statuses] /\ panicked' \in BOOLEAN
        BY <3>2, <4>1, Zenon DEF RunConnect
      <4> QED BY <2>3, <3>1, <3>2, <4>2, <4>3, Zenon DEF RunTask, RunConnect
    <3>3. CASE t.op = "close" /\ RunClose(l, t.conn)
      <4>1. t.conn \in Conns
        BY <3>1, <3>3, Zenon DEF Tasks
      <4>2. CASE connected(t.conn)
        <5>1. handleClose(l, t.conn)
          BY <3>3, <4>2, Zenon DEF RunClose
        <5> QED BY <2>3, <3>1, <3>3, <4>1, <5>1, CloseTypes, ZenonT(40)
                   DEF RunTask, RunClose
      <4>3. CASE ~connected(t.conn)
        BY <2>3, <3>1, <3>3, <4>3, Zenon DEF RunTask, RunClose
      <4> QED BY <4>2, <4>3, Zenon
    <3>4. CASE t.op = "stop" /\ RunStop(l)
      <4>1. queue' \in [Loops -> Seq(Tasks)]
        <5> DEFINE open == {c \in Range(sockets[l]) \ {NoConn} : connected(c)}
        <5>1. PICK order \in [1..Cardinality(open) -> open] :
                 QueueInLoop(l, [i \in DOMAIN order |-> Task("close", order[i])])
          BY <3>4, Zenon DEF RunStop
        <5>2. open \in SUBSET (Range(sockets[l]) \ {NoConn})
          BY Zenon
        <5>3. [i \in DOMAIN order |-> Task("close", order[i])] \in Seq(Tasks)
          BY <5>2, StopTasks, Zenon
        <5> QED BY <5>1, <5>3, QueueTypes, Zenon
      <4>2. sockets' \in [Loops -> [Fds -> Conns \cup {NoConn}]]
        BY <3>4, Zenon DEF RunStop
      <4>3. socketsNil' \in [Loops -> BOOLEAN]
        BY <3>4, Zenon DEF RunStop
      <4> QED BY <2>3, <3>1, <3>4, <4>1, <4>2, <4>3, Zenon DEF RunTask, RunStop
    <3> QED BY <2>3, <3>2, <3>3, <3>4, Zenon DEF RunTask
  <2>4. CASE EndOfRound(l)
    BY <2>4, Zenon DEF EndOfRound
  <2>5. CASE FinishClose(l)
    BY <2>5, Zenon DEF FinishClose
  <2> QED BY <1>6, <2>1, <2>2, <2>3, <2>4, <2>5, Zenon DEF LoopStep
<1>7. ASSUME NEW l \in Loops, NEW c \in Conns, HandleEvent(l, c) PROVE TypeOK'
  <2>1. connFd[c] \in Fds
    BY <1>7, Zenon DEF HandleEvent, FdInv, HasFd, PolledOpen
  <2>2. sockets[l][connFd[c]] \in Conns
    BY <1>7, <2>1 DEF HandleEvent
  <2> QED BY <1>7, <2>2, CloseTypes, Zenon DEF HandleEvent
<1>8. ASSUME NEW c \in Conns, UserClose(c) PROVE TypeOK'
  BY <1>8, Zenon DEF UserClose
<1>9. ASSUME NEW c \in Conns, UserCloseQueue(c) PROVE TypeOK'
  <2>1. <<Task("close", c)>> \in Seq(Tasks)
    BY DEF Task, Tasks
  <2> QED BY <1>9, <2>1 DEF UserCloseQueue, QueueInLoop
<1>10. ASSUME NEW c \in Conns, ShutdownWrite(c) PROVE TypeOK'
  <2>1. connFd[c] \in Fds
    BY <1>10, Zenon DEF ShutdownWrite, FdInv, HasFd
  <2> QED BY <1>10, <2>1, ZenonT(40) DEF ShutdownWrite
<1>11. CASE UNCHANGED vars
  BY <1>11, Zenon DEF vars
<1> QED
  BY <1>1, <1>2, <1>3, <1>4, <1>5, <1>6, <1>7, <1>8, <1>9, <1>10, <1>11, Zenon
     DEF Next, AcceptStep

-----------------------------------------------------------------------------
\* Stop passes on only from a loop that has exited, and a loop never restarts.
LEMMA StopInvStep ==
    ASSUME TypeOK, StopInv, [Next]_vars
    PROVE  StopInv'
<1> SUFFICES ASSUME ~EarlyStop PROVE StopInv'
  BY Zenon DEF StopInv
<1> USE LoopNumbers DEF TypeOK, StopInv
<1>1. CASE Start
  BY <1>1, Zenon DEF Start
<1>2. CASE StartReturns
  BY <1>2, Zenon DEF StartReturns
<1>3. CASE Stop
  BY <1>3 DEF Stop, Listener
<1>4. CASE StopStep
  <2>1. CASE StopQueue
    BY <2>1, Zenon DEF StopQueue
  <2>2. CASE StopCount
    BY <2>2, Zenon DEF StopCount
  <2>3. CASE StopClose
    <3>1. pollRunning[stopAt]
      BY <2>3 DEF StopClose
    <3>2. stopPc' = "wait" /\ stopAt' = stopAt /\ loopPc' = loopPc
      BY <2>3, <3>1, Zenon DEF StopClose
    <3>3. \A l \in Loops : pollRunning'[l] => pollRunning[l]
      BY <2>3, Zenon DEF StopClose
    <3>4. \A l \in Loops : l > stopAt => pollRunning'[l]
      BY <2>3 DEF StopClose
    <3>5. stopPc = "close"
      BY <2>3, Zenon DEF StopClose
    <3> QED BY <3>2, <3>3, <3>4, <3>5, Zenon
  <2>4. CASE StopWait
    <3>1. /\ stopPc = "wait" /\ loopPc[stopAt] = "exited"
          /\ loopPc' = loopPc /\ pollRunning' = pollRunning
      BY <2>4, Zenon DEF StopWait
    <3>2. CASE stopAt = NumLoops
      <4>1. stopPc' = "done" /\ stopAt' = stopAt
        BY <2>4, <3>2, Zenon DEF StopWait, StopNext
      <4>2. \A l \in Loops : loopPc[l] = "exited"
        BY <3>1, <3>2
      <4> QED BY <3>1, <4>1, <4>2, Zenon
    <3>3. CASE stopAt # NumLoops
      <4>1. stopPc' = "queue" /\ stopAt' = stopAt + 1
        BY <2>4, <3>3, Zenon DEF StopWait, StopNext
      <4>2. \A l \in Loops : l < stopAt' => loopPc[l] = "exited"
        BY <3>1, <4>1
      <4>3. \A l \in Loops : l >= stopAt' => pollRunning[l]
        BY <3>1, <4>1
      <4> QED BY <3>1, <4>1, <4>2, <4>3, Zenon
    <3> QED BY <3>2, <3>3, Zenon
  <2> QED BY <1>4, <2>1, <2>2, <2>3, <2>4, Zenon DEF StopStep
<1>5. ASSUME NEW c \in Conns, NEW fd \in Fds, NEW l \in WorkLoops, Accept(c, fd, l)
      PROVE  StopInv'
  BY <1>5, Zenon DEF Accept
<1>6. ASSUME NEW l \in Loops, LoopStep(l) PROVE StopInv'
  <2>1. CASE PollStart(l)
    BY <2>1, Zenon DEF PollStart
  <2>2. CASE StartRound(l)
    BY <2>2, Zenon DEF StartRound
  <2>3. CASE RunTask(l)
    BY <2>3, Zenon DEF RunTask
  <2>4. CASE EndOfRound(l)
    BY <2>4, ZenonT(40) DEF EndOfRound
  <2>5. CASE FinishClose(l)
    BY <2>5, Zenon DEF FinishClose
  <2> QED BY <1>6, <2>1, <2>2, <2>3, <2>4, <2>5, Zenon DEF LoopStep
<1>7. ASSUME NEW l \in Loops, NEW c \in Conns, HandleEvent(l, c) PROVE StopInv'
  BY <1>7, Zenon DEF HandleEvent
<1>8. ASSUME NEW c \in Conns, UserClose(c) \/ UserCloseQueue(c) \/ ShutdownWrite(c)
      PROVE  StopInv'
  <2>1. CASE UserClose(c)
    BY <2>1 DEF UserClose
  <2>2. CASE UserCloseQueue(c)
    BY <2>2 DEF UserCloseQueue
  <2>3. CASE ShutdownWrite(c)
    BY <2>3 DEF ShutdownWrite
  <2> QED BY <1>8, <2>1, <2>2, <2>3, Zenon
<1>9. CASE UNCHANGED vars
  BY <1>9, Zenon DEF vars
<1> QED
  BY <1>1, <1>2, <1>3, <1>4, <1>5, <1>6, <1>7, <1>8, <1>9, Zenon DEF Next, AcceptStep

-----------------------------------------------------------------------------
(* Steps *)

\* A step that leaves tasks, maps and connections alone; a Close may have found
\* its connection open.
Quiet ==
    /\ UNCHANGED <<queue, round, closing, sockets, socketsNil, polled, owner,
                   connFd, connLoop, status, panicked>>
    /\ \A c \in Conns : userClose'[c] = "tested" => userClose[c] = "tested" \/ status[c] = "open"

\* The steps, by what they do to tasks, maps and connections.
LEMMA Kinds ==
    ASSUME TypeOK, [Next]_vars
    PROVE  \/ Quiet \/ StopQueue
           \/ \E c \in Conns, fd \in Fds, l \in WorkLoops : Accept(c, fd, l)
           \/ \E l \in Loops : \/ StartRound(l) \/ RunTask(l) \/ FinishClose(l)
                              \/ \E c \in Conns : HandleEvent(l, c)
           \/ \E c \in Conns : UserCloseQueue(c)
<1>1. CASE Start \/ StartReturns \/ Stop
  BY <1>1, Zenon DEF Start, StartReturns, Stop, Quiet
<1>2. CASE StopCount \/ StopClose \/ StopWait
  BY <1>2, Zenon DEF StopCount, StopClose, StopWait, Quiet
<1>3. ASSUME NEW l \in Loops, PollStart(l) \/ EndOfRound(l) PROVE Quiet
  BY <1>3, Zenon DEF PollStart, EndOfRound, Quiet
<1>4. ASSUME NEW c \in Conns, UserClose(c) \/ ShutdownWrite(c) PROVE Quiet
  <2>1. CASE UserClose(c)
    <3>1. userClose' = [userClose EXCEPT ![c] = "tested"] /\ status[c] = "open"
      BY <2>1, Zenon DEF UserClose
    <3>2. \A d \in Conns : userClose'[d] = "tested" => userClose[d] = "tested" \/ status[d] = "open"
      BY <3>1, Zenon DEF TypeOK
    <3> QED BY <2>1, <3>2, ZenonT(40) DEF UserClose, Quiet
  <2>2. CASE ShutdownWrite(c)
    BY <2>2, Zenon DEF ShutdownWrite, Quiet
  <2> QED BY <1>4, <2>1, <2>2, Zenon
<1>5. CASE UNCHANGED vars
  BY <1>5, Zenon DEF vars, Quiet
<1> QED BY <1>1, <1>2, <1>3, <1>4, <1>5, Zenon DEF Next, AcceptStep, LoopStep, StopStep

\* The closure a loop is about to run is one of its tasks.
LEMMA HeadTask ==
    ASSUME TypeOK, TaskInv, NEW l \in Loops, round[l] # <<>>
    PROVE  /\ Head(round[l]) \in Tasks /\ TaskOK(l, Head(round[l]))
           /\ Head(round[l]) = Pending(l)[1] /\ 1 \in 0..Len(Pending(l))
<1>1. round[l] \in Seq(Tasks) /\ queue[l] \in Seq(Tasks)
  BY Zenon DEF TypeOK
<1>2. Head(round[l]) = round[l][1] /\ 1 \in 1..Len(round[l])
  BY <1>1, TailElements, Zenon
<1>3. Head(round[l]) \in Tasks
  BY <1>1, <1>2
<1>4. Pending(l)[1] = round[l][1] /\ 1 \in 1..Len(Pending(l)) /\ 1 \in 0..Len(Pending(l))
  BY <1>1, FirstElement, Zenon DEF Pending
<1> QED BY <1>2, <1>3, <1>4, Zenon DEF TaskInv

-----------------------------------------------------------------------------
(* Descriptors *)

\* The invariant contains OwnFd.
LEMMA OwnFdHolds ==
    ASSUME TypeOK, FdInv
    PROVE  OwnFd
BY Zenon DEF FdInv, OwnsFd, PolledOpen, MapPolled, OwnFd, connected, TypeOK

\* handleClose of an open connection takes it out of its loop's map and poller,
\* the only ones it is in.
LEMMA CloseFd ==
    ASSUME TypeOK, FdInv, NEW l \in Loops, NEW c \in Conns, status[c] = "open",
           connLoop[c] = l, handleClose(l, c), UNCHANGED <<owner, connFd, connLoop, userClose>>
    PROVE  FdInv'
<1>1. /\ status' = [status EXCEPT ![c] = "closing"] /\ closing' = [closing EXCEPT ![l] = c]
      /\ polled' = [polled EXCEPT ![l] = @ \ {c}]
      /\ sockets' = [sockets EXCEPT ![l][connFd[c]] = NoConn]
  BY Zenon DEF handleClose, DeleteFdInLoop
<1>2. connFd[c] \in Fds
  BY Zenon DEF FdInv, HasFd
<1>3. HasFd' /\ OwnsFd' /\ TestedOpen'
  BY <1>1, Zenon DEF FdInv, HasFd, OwnsFd, TestedOpen, TypeOK
<1>4. PolledOpen'
  BY <1>1 DEF FdInv, PolledOpen, TypeOK
<1>5. ASSUME NEW m \in Loops, NEW fd \in Fds, sockets'[m][fd] # NoConn
      PROVE  sockets'[m][fd] \in polled'[m] /\ connFd'[sockets'[m][fd]] = fd
  <2>1. sockets'[m][fd] = sockets[m][fd] /\ (m = l => fd # connFd[c])
    BY <1>1, <1>2, <1>5, Zenon DEF TypeOK
  <2>2. sockets[m][fd] \in polled[m] /\ connFd[sockets[m][fd]] = fd
    BY <1>5, <2>1, Zenon DEF FdInv, MapPolled
  <2>3. sockets[m][fd] # c \/ m # l
    BY <2>1, <2>2, Zenon
  <2> QED BY <1>1, <2>1, <2>2, <2>3, Zenon DEF TypeOK
<1>6. ClosesOwn'
  BY <1>1, ServerAssumption DEF FdInv, ClosesOwn, TypeOK
<1> QED BY <1>3, <1>4, <1>5, <1>6, Zenon DEF FdInv, MapPolled

\* A connection that a loop opens is its own, and enters no other map.
LEMMA ConnectFd ==
    ASSUME TypeOK, FdInv, NEW l \in Loops, NEW c \in Conns, status[c] = "accepted",
           connLoop[c] = l, RunConnect(l, c), UNCHANGED <<owner, connFd, connLoop, userClose>>
    PROVE  FdInv'
<1>1. status' = [status EXCEPT ![c] = "open"] /\ UNCHANGED closing
  BY Zenon DEF RunConnect
<1>2. connFd[c] \in Fds
  BY Zenon DEF FdInv, HasFd
<1>3. HasFd' /\ OwnsFd' /\ TestedOpen'
  BY <1>1, Zenon DEF FdInv, HasFd, OwnsFd, TestedOpen, TypeOK
<1>4. ClosesOwn'
  BY <1>1 DEF FdInv, ClosesOwn, TypeOK
<1>5. CASE polled' = [polled EXCEPT ![l] = @ \cup {c}] /\
           sockets' = [sockets EXCEPT ![l][connFd[c]] = c]
  <2>1. PolledOpen'
    BY <1>1, <1>5 DEF FdInv, PolledOpen, TypeOK
  <2>2. ASSUME NEW m \in Loops, NEW fd \in Fds, sockets'[m][fd] # NoConn
        PROVE  sockets'[m][fd] \in polled'[m] /\ connFd'[sockets'[m][fd]] = fd
    <3>1. CASE m = l /\ fd = connFd[c]
      BY <1>5, <3>1, Zenon DEF TypeOK
    <3>2. CASE ~(m = l /\ fd = connFd[c])
      <4>1. sockets'[m][fd] = sockets[m][fd]
        BY <1>2, <1>5, <3>2, Zenon DEF TypeOK
      <4>2. polled[m] \subseteq polled'[m]
        BY <1>5, Zenon DEF TypeOK
      <4> QED BY <2>2, <4>1, <4>2, ZenonT(40) DEF FdInv, MapPolled
    <3> QED BY <3>1, <3>2, Zenon
  <2> QED BY <1>3, <1>4, <2>1, <2>2, Zenon DEF FdInv, MapPolled
<1>6. CASE polled' = polled /\
           (sockets' = sockets \/ sockets' = [sockets EXCEPT ![l][connFd[c]] = NoConn])
  <2>1. PolledOpen'
    BY <1>1, <1>6, ZenonT(40) DEF FdInv, PolledOpen, TypeOK
  <2>2. ASSUME NEW m \in Loops, NEW fd \in Fds, sockets'[m][fd] # NoConn
        PROVE  sockets'[m][fd] = sockets[m][fd]
    <3>1. CASE sockets' = [sockets EXCEPT ![l][connFd[c]] = NoConn]
      BY <1>2, <2>2, <3>1, Zenon DEF TypeOK
    <3> QED BY <1>6, <3>1, Zenon
  <2> QED BY <1>3, <1>4, <1>6, <2>1, <2>2 DEF FdInv, MapPolled
<1> QED BY <1>5, <1>6, Zenon DEF RunConnect, AddSocketAndEnableRead

\* Every step keeps each descriptor number with one connection.
LEMMA FdStep ==
    ASSUME TypeOK, TypeOK', TaskInv, FdInv, [Next]_vars
    PROVE  FdInv'
<1>1. CASE Quiet
  BY <1>1 DEF Quiet, FdInv, HasFd, OwnsFd, PolledOpen, MapPolled, ClosesOwn, TestedOpen
<1>2. CASE StopQueue
  BY <1>2 DEF StopQueue, FdInv, HasFd, OwnsFd, PolledOpen, MapPolled, ClosesOwn, TestedOpen
<1>3. ASSUME NEW c \in Conns, NEW fd \in Fds, NEW l \in WorkLoops, Accept(c, fd, l)
      PROVE  FdInv'
  <2>1. /\ status[c] = "none" /\ owner[fd] = NoConn
        /\ owner' = [owner EXCEPT ![fd] = c] /\ connFd' = [connFd EXCEPT ![c] = fd]
        /\ connLoop' = [connLoop EXCEPT ![c] = l]
        /\ status' = [status EXCEPT ![c] = "accepted"]
        /\ UNCHANGED <<sockets, polled, closing, userClose>>
    BY <1>3, Zenon DEF Accept
  <2>2. HasFd'
    BY <2>1 DEF FdInv, HasFd, TypeOK
  <2>3. ASSUME NEW d \in Conns, status'[d] \in {"accepted", "open", "closing"}
        PROVE  owner'[connFd'[d]] = d
    <3>1. CASE d = c
      BY <2>1, <3>1 DEF TypeOK
    <3>2. CASE d # c
      <4>1. status[d] = status'[d] /\ connFd'[d] = connFd[d]
        BY <2>1, <3>2 DEF TypeOK
      <4>2. owner[connFd[d]] = d /\ connFd[d] \in Fds
        BY <2>3, <4>1, Zenon DEF FdInv, OwnsFd, HasFd
      <4>3. connFd[d] # fd
        BY <2>1, <4>2, ServerAssumption, Zenon
      <4> QED BY <2>1, <4>1, <4>2, <4>3 DEF TypeOK
    <3> QED BY <3>1, <3>2, Zenon
  <2>4. ASSUME NEW d \in Conns, status[d] # "none"
        PROVE  status'[d] = status[d] /\ connFd'[d] = connFd[d] /\ connLoop'[d] = connLoop[d]
    BY <2>1, <2>4 DEF TypeOK
  <2>5. ASSUME NEW m \in Loops, NEW d \in polled[m]
        PROVE  /\ d \in Conns /\ status'[d] = "open" /\ connLoop'[d] = m
               /\ connFd'[d] = connFd[d]
    <3>1. d \in Conns /\ status[d] = "open" /\ connLoop[d] = m
      BY <2>5, Zenon DEF FdInv, PolledOpen, TypeOK
    <3> QED BY <2>4, <3>1, Zenon
  <2>6. PolledOpen'
    BY <2>1, <2>5 DEF PolledOpen
  <2>7. MapPolled'
    BY <2>1, <2>5 DEF FdInv, MapPolled
  <2>8. ClosesOwn'
    <3>1. ASSUME NEW m \in Loops, closing[m] # NoConn
          PROVE  closing[m] \in Conns /\ status[closing[m]] = "closing" /\ connLoop[closing[m]] = m
      BY <3>1 DEF FdInv, ClosesOwn, TypeOK
    <3> QED BY <2>1, <2>4, <3>1 DEF ClosesOwn
  <2>9. TestedOpen'
    BY <2>1, <2>4, Zenon DEF FdInv, TestedOpen
  <2> QED BY <2>2, <2>3, <2>6, <2>7, <2>8, <2>9, Zenon DEF FdInv, OwnsFd
<1>4. ASSUME NEW l \in Loops, StartRound(l) PROVE FdInv'
  BY <1>4 DEF StartRound, FdInv, HasFd, OwnsFd, PolledOpen, MapPolled, ClosesOwn, TestedOpen
<1>5. ASSUME NEW l \in Loops, RunTask(l) PROVE FdInv'
  <2> DEFINE t == Head(round[l])
  <2>1. t \in Tasks /\ TaskOK(l, t)
    BY <1>5, HeadTask, Zenon DEF RunTask
  <2>2. UNCHANGED <<owner, connFd, connLoop, userClose>>
    BY <1>5, Zenon DEF RunTask
  <2>3. CASE t.op = "connect" /\ RunConnect(l, t.conn)
    <3>1. t.conn \in Conns /\ status[t.conn] = "accepted" /\ connLoop[t.conn] = l
      BY <2>1, <2>3, Zenon DEF TaskOK, Tasks
    <3> QED BY <2>2, <2>3, <3>1, ConnectFd, Zenon
  <2>4. CASE t.op = "close" /\ RunClose(l, t.conn)
    <3>1. /\ t.conn \in Conns /\ connLoop[t.conn] = l
          /\ status[t.conn] \in {"open", "closing", "closed"}
      BY <2>1, <2>4, Zenon DEF TaskOK, Tasks
    <3>2. CASE connected(t.conn)
      <4>1. status[t.conn] = "open" /\ handleClose(l, t.conn)
        BY <2>4, <3>1, <3>2, ZenonT(40) DEF RunClose, connected
      <4> QED BY <2>2, <3>1, <4>1, CloseFd, Zenon
    <3>3. CASE ~connected(t.conn)
      BY <2>2, <2>4, <3>3
         DEF RunClose, FdInv, HasFd, OwnsFd, PolledOpen, MapPolled, ClosesOwn, TestedOpen
    <3> QED BY <3>2, <3>3, Zenon
  <2>5. CASE t.op = "stop" /\ RunStop(l)
    <3>1. /\ sockets' = [sockets EXCEPT ![l] = [fd \in Fds |-> NoConn]]
          /\ UNCHANGED <<status, closing, polled>>
      BY <2>5, Zenon DEF RunStop
    <3>2. MapPolled'
      BY <2>2, <3>1 DEF FdInv, MapPolled, TypeOK
    <3> QED BY <2>2, <3>1, <3>2, ZenonT(40)
               DEF FdInv, HasFd, OwnsFd, PolledOpen, ClosesOwn, TestedOpen
  <2> QED BY <1>5, <2>3, <2>4, <2>5, ZenonT(40) DEF RunTask
<1>6. ASSUME NEW l \in Loops, FinishClose(l) PROVE FdInv'
  <2>1. PICK c \in Conns : c = closing[l]
    BY <1>6 DEF FinishClose, TypeOK
  <2>2. /\ closing' = [closing EXCEPT ![l] = NoConn] /\ status' = [status EXCEPT ![c] = "closed"]
        /\ owner' = [owner EXCEPT ![connFd[c]] = NoConn]
        /\ UNCHANGED <<sockets, polled, connFd, connLoop, userClose>>
    BY <1>6, <2>1, Zenon DEF FinishClose
  <2>3. /\ status[c] = "closing" /\ connLoop[c] = l /\ connFd[c] \in Fds
        /\ owner[connFd[c]] = c
    BY <2>1, ServerAssumption, Zenon DEF FdInv, ClosesOwn, HasFd, OwnsFd
  <2>4. HasFd' /\ TestedOpen'
    <3>1. ASSUME NEW d \in Conns
          PROVE  status'[d] = status[d] \/ (status'[d] = "closed" /\ status[d] = "closing")
      <4>1. status \in [Conns -> Statuses]
        BY Zenon DEF TypeOK
      <4>2. status'[c] = "closed" /\ (d # c => status'[d] = status[d])
        BY <2>2, <4>1, Zenon
      <4> QED BY <2>3, <4>2, Zenon
    <3>2. HasFd'
      BY <2>2, <3>1, Zenon DEF FdInv, HasFd
    <3>3. TestedOpen'
      BY <2>2, <3>1, Zenon DEF FdInv, TestedOpen
    <3> QED BY <3>2, <3>3, Zenon
  <2>5. ASSUME NEW d \in Conns, status'[d] \in {"accepted", "open", "closing"}
        PROVE  owner'[connFd'[d]] = d
    <3>1. d # c /\ status[d] = status'[d]
      BY <2>2, <2>5, ZenonT(40) DEF TypeOK
    <3>2. owner[connFd[d]] = d /\ connFd[d] \in Fds
      BY <2>5, <3>1, Zenon DEF FdInv, OwnsFd, HasFd
    <3> QED BY <2>2, <2>3, <3>1, <3>2 DEF TypeOK
  <2>6. PolledOpen' /\ MapPolled'
    <3>1. ASSUME NEW m \in Loops, NEW d \in polled[m] PROVE status'[d] = "open" /\ connLoop[d] = m
      BY <2>2, <2>3, ZenonT(40) DEF FdInv, PolledOpen, TypeOK
    <3>2. PolledOpen'
      BY <2>2, <3>1, Zenon DEF PolledOpen
    <3>3. MapPolled'
      BY <2>2, Zenon DEF FdInv, MapPolled
    <3> QED BY <3>2, <3>3, Zenon
  <2>7. ClosesOwn'
    BY <2>1, <2>2, <2>3 DEF FdInv, ClosesOwn, TypeOK
  <2> QED BY <2>4, <2>5, <2>6, <2>7, ZenonT(40) DEF FdInv, OwnsFd
<1>7. ASSUME NEW l \in Loops, NEW c \in Conns, HandleEvent(l, c) PROVE FdInv'
  <2>1. connFd[c] \in Fds
    BY <1>7, Zenon DEF HandleEvent, FdInv, HasFd, PolledOpen, TypeOK
  <2>2. PICK d \in Conns : d = sockets[l][connFd[c]]
    BY <1>7, <2>1 DEF HandleEvent, TypeOK
  <2>3. d \in polled[l] /\ status[d] = "open" /\ connLoop[d] = l
    BY <2>1, <2>2, ServerAssumption, ZenonT(40) DEF FdInv, MapPolled, PolledOpen
  <2>4. handleClose(l, d) /\ UNCHANGED <<owner, connFd, connLoop, userClose>>
    BY <1>7, <2>2, Zenon DEF HandleEvent
  <2> QED BY <2>3, <2>4, CloseFd, ZenonT(40)
<1>8. ASSUME NEW c \in Conns, UserCloseQueue(c) PROVE FdInv'
  <2>1. UNCHANGED <<status, connFd, connLoop, owner, polled, sockets, closing>> /\ TestedOpen'
    BY <1>8 DEF UserCloseQueue, FdInv, TestedOpen, TypeOK
  <2>2. HasFd' /\ OwnsFd'
    BY <2>1, Zenon DEF FdInv, HasFd, OwnsFd
  <2>3. PolledOpen'
    BY <2>1, Zenon DEF FdInv, PolledOpen
  <2>4. MapPolled'
    BY <2>1, Zenon DEF FdInv, MapPolled
  <2>5. ClosesOwn'
    BY <2>1, Zenon DEF FdInv, ClosesOwn
  <2> QED BY <2>1, <2>2, <2>3, <2>4, <2>5, Zenon DEF FdInv
<1> QED BY <1>1, <1>2, <1>3, <1>4, <1>5, <1>6, <1>7, <1>8, Kinds, Zenon
=============================================================================
